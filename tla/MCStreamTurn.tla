---------------------------- MODULE MCStreamTurn ----------------------------
(* Responses and adapters for StreamTurn: three calls at most, of four pieces at most,
   good, malformed and empty, two of them with the same id; every way to stop, one
   unheard of and none. *)
EXTENDS StreamTurn

\* A text, the arguments and the payload that have another canonical form.
MCForms ==
  [t \in {<<"a", "e'">>, <<"e'">>, <<"{", "y", "x", "}">>, <<"z", "k">>} |->
     CASE t = <<"a", "e'">>           -> <<"a", "E">>
       [] t = <<"e'">>                -> <<"E">>
       [] t = <<"{", "y", "x", "}">>  -> <<"{", "x", "y", "}">>
       [] OTHER                       -> <<"k", "z">>]

Use(id, json) == [id |-> id, name |-> "f", json |-> json, type |-> "function"]
Whole == <<"{", "y", "x", "}">>
MCResponses ==
  {[text |-> t, calls |-> c, finish |-> "tool_calls", usage |-> u, extras |-> <<>>] :
     t \in {None, <<"a", "e'">>},
     c \in {<<Use("p", Whole), Use("q", Whole)>>, <<Use("p", <<"{", "x">>), Use("q", <<>>)>>,
           <<Use("p", Whole), Use("q", <<"{", "x">>), Use("r", <<"{", "}">>)>>,
           <<Use("p", <<"{", "}">>), Use("q", <<>>), Use("p", <<>>)>>},
     u \in {{}, {Usage(7, 3, 2)}}}
  \cup
  {[text |-> t, calls |-> <<>>, finish |-> f, usage |-> {Usage(1, 0, 0)}, extras |-> e] :
     t \in {<<>>, <<"a", "e'">>}, f \in {"stop", "length", "insensitive", ""},
     e \in {<<>>, <<<<"thought">>>>}}
  \cup
  {[text |-> None, calls |-> <<[Use("p", Whole) EXCEPT !.type = "custom"], Use("q", <<"{", "}">>)>>,
    finish |-> "function_call", usage |-> {}, extras |-> <<>>]}

Habits == {"arrival_order", "first_result", "loses_calls", "loses_parameters", "merges_stops",
           "unknown_ends", "no_usage", "no_cached", "raw_arguments", "drops_malformed",
           "first_call", "no_extras"}
MCTargets == Shipped \cup {Target("other", {h}, TRUE) : h \in Habits}

\* What no check notices: a text that goes lost beside calls; every result sent under the
\* id of the first call, since c1 is counted and c2 is not; a vocabulary declared as wrong
\* as it is used.
Gaps == {"text_or_calls", "answers_first", "declares_merged"}
ASSUME BatteryHasGaps == \A h \in Gaps : Passes(Target("other", {h}, TRUE))

\* A response with a payload whose keys are not in order.
Reasoned == {[text |-> <<"a", "e'">>, calls |-> <<>>, finish |-> "stop", usage |-> {},
              extras |-> <<<<"z", "k">>>>]}
=============================================================================
