-------------------------------- MODULE Turn --------------------------------
(***************************************************************************)
(* What one model turn promises its caller, with no attempts, back-offs or *)
(* streams in sight: the caller is shown a text fragment by fragment, and  *)
(* the turn ends once - with a response whose text is exactly what was     *)
(* shown, with an error, or discarded because the caller asked for that.   *)
(* RetryTurn is the code that has to keep this promise.                    *)
(***************************************************************************)
EXTENDS Sequences, Naturals

CONSTANT Fragment     \* the text fragments a provider can produce

VARIABLES streaming,  \* TRUE when the caller passed on_delta
          shown,      \* the fragments the caller has been shown, in order
          asked,      \* the caller asked for the turn to be abandoned
          outcome,    \* how the turn ended, "none" while it runs
          returned    \* the text of the response, once there is one

turnVars == <<streaming, shown, asked, outcome, returned>>

Outcomes == {"none", "response", "cancelled", "failed"}

Init == /\ streaming \in BOOLEAN
        /\ shown = <<>>
        /\ asked = FALSE
        /\ outcome = "none"
        /\ returned = <<>>

Running == outcome = "none"

\* One more fragment reaches the caller.
Show == /\ Running /\ streaming
        /\ \E f \in Fragment : shown' = Append(shown, f)
        /\ UNCHANGED <<streaming, asked, outcome, returned>>

\* The caller may give up at any moment, before or after the end.
Ask == /\ ~asked
       /\ asked' = TRUE
       /\ UNCHANGED <<streaming, shown, outcome, returned>>

\* A streamed response says what the caller saw; an unstreamed one was not shown.
Return == /\ Running
          /\ outcome' = "response"
          /\ IF streaming THEN returned' = shown ELSE returned' \in Seq(Fragment)
          /\ UNCHANGED <<streaming, shown, asked>>

\* Only a caller that asked has its turn discarded.
Discard == /\ Running /\ asked
           /\ outcome' = "cancelled"
           /\ UNCHANGED <<streaming, shown, asked, returned>>

Fail == /\ Running
        /\ outcome' = "failed"
        /\ UNCHANGED <<streaming, shown, asked, returned>>

Next == Show \/ Ask \/ Return \/ Discard \/ Fail

Spec == Init /\ [][Next]_turnVars

=============================================================================
