---------------------------- MODULE Conversation ----------------------------
(***************************************************************************)
(* What a tape promises its readers: the conversation it tells only grows, *)
(* one whole message at a time, and every message is one a provider would  *)
(* accept there - nobody speaks before the calls of an assistant message   *)
(* are answered, and they are answered all at once.                        *)
(***************************************************************************)
EXTENDS Tape

VARIABLE history

Unanswered == history # <<>> /\ Dangling(history[Len(history)])

\* The message this step adds; nothing that was said before is touched.
New   == history'[Len(history')]
Grows == Len(history') > Len(history) /\ history' = Append(history, New)

Init == history = <<>>

\* The system prompt can only come first.
Prompt == Grows /\ history = <<>> /\ New.role = "system"

\* The task, a nudge; the model may also go on without being asked again.
Say    == Grows /\ ~Unanswered /\ New.role = "user"
Answer == Grows /\ history # <<>> /\ ~Unanswered /\ New.role = "assistant"

\* The results of the calls just made: one message, one result for each.
Report == /\ Grows /\ Unanswered
          /\ New.role = "tool_results"
          /\ Len(New.results) = Len(history[Len(history)].calls)

Next == Prompt \/ Say \/ Answer \/ Report

Spec == Init /\ [][Next]_history

=============================================================================
