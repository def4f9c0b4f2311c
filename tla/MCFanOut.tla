------------------------------ MODULE MCFanOut ------------------------------
(* Small instances of FanOut, and of the two shapes of orchestration. *)
EXTENDS FanOut, Orchestrate

MCPlans == {<<"", "">>, <<"a", "">>, <<"a", "a">>}
MCNested == {"", "b"}
MCAutoName(n) == CASE n = 0 -> "sub-000" [] n = 1 -> "sub-001" [] OTHER -> "sub-00n"

\* The two shapes over two items, every pair of stages on them and every cost up to 2.
Items == {"x", "y"}
ASSUME ShapesAgreeOnSmallWork ==
  \A first, second \in [Items -> Items], cost \in [Items \X (1..2) -> 0..2] :
    ShapesAgree(<<"x", "y">>, <<first, second>>, cost)
=============================================================================
