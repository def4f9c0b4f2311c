-------------------------------- MODULE Tape --------------------------------
(***************************************************************************)
(* The vocabulary of a tape: messages, the records the loop appends, and   *)
(* what the readers of a tape (Recording.load, StepCache.from_tape,        *)
(* plan_resume) make of them. No state: a tape is a sequence of records.   *)
(*                                                                         *)
(* Texts, tool names and configurations are opaque. A record keeps the     *)
(* fields that a reader tells apart.                                       *)
(***************************************************************************)
EXTENDS Sequences, Naturals

-----------------------------------------------------------------------------
(* Messages (events.py) *)

\* One shape for all four roles, as in the dataclass: unused fields are empty.
Message(role, text, calls, results) ==
  [role |-> role, text |-> text, calls |-> calls, results |-> results]

System(text)       == Message("system", text, <<>>, <<>>)
User(text)         == Message("user", text, <<>>, <<>>)
Assistant(text, c) == Message("assistant", text, c, <<>>)
Results(batch)     == Message("tool_results", "", <<>>, batch)

\* A response: the assistant's message and the provider's normalised stop reason.
Response(text, calls, stop) == [msg |-> Assistant(text, calls), stop |-> stop]

\* The loop only acts on calls that come with stop_reason tool_use.
WantsTools(r) == r.stop = "tool_use" /\ r.msg.calls # <<>>

\* An assistant message whose calls have not been answered by what follows it.
Dangling(m) == m.role = "assistant" /\ m.calls # <<>>

\* What every provider demands of a request: calls are answered by the very next
\* message, one result for each ("never split these across messages"), results
\* answer calls, and the last message is not a call without an answer.
Paired(ms) ==
  /\ \A i \in 1..Len(ms) - 1 :
       Dangling(ms[i]) => /\ ms[i+1].role = "tool_results"
                          /\ Len(ms[i+1].results) = Len(ms[i].calls)
  /\ \A i \in 1..Len(ms) :
       ms[i].role = "tool_results" => i > 1 /\ Dangling(ms[i-1])

Sendable(ms) == Paired(ms) /\ (ms # <<>> => ~Dangling(ms[Len(ms)]))

-----------------------------------------------------------------------------
(* Step keys (record/keys.py): a hash over the request, so equal requests and *)
(* no others have equal keys. A summary request leaves the tools out.         *)

TurnKey(config, messages) ==
  [purpose |-> "turn", config |-> config, messages |-> messages]
CompactionKey(config, messages) ==
  [purpose |-> "compaction", config |-> config, messages |-> messages]

-----------------------------------------------------------------------------
(* Records (Event(kind, step, payload) in loop.py) *)

RunStart(resumed)         == [kind |-> "run_start", step |-> 0, resumed |-> resumed]
MessageRec(step, m)       == [kind |-> "message", step |-> step, msg |-> m]
StepRec(step, key, r)     == [kind |-> "step", step |-> step, key |-> key, response |-> r]
SnapshotRec(step)         == [kind |-> "snapshot", step |-> step]
PermissionRec(step, t, v) == [kind |-> "permission", step |-> step, tool |-> t, verdict |-> v]
TruncatedRec(step, t)     == [kind |-> "truncated", step |-> step, tool |-> t]
ToolRec(step, t, e, bad)  == [kind |-> "tool_result", step |-> step, tool |-> t,
                              effect |-> e, is_error |-> bad]
CompactionRec(step, n)    == [kind |-> "compaction", step |-> step, replaced |-> n]
CancelledRec(step)        == [kind |-> "cancelled", step |-> step]
RunEnd(step, stop, c)     == [kind |-> "run_end", step |-> step, stop |-> stop, cancelled |-> c]

\* The records at some positions of a tape, in order.
Only(tape, places) ==
  LET upto[n \in 0..Len(tape)] ==
        IF n = 0 THEN <<>>
        ELSE IF n \in places THEN Append(upto[n-1], tape[n]) ELSE upto[n-1]
  IN  upto[Len(tape)]

Places(tape, kinds) == {i \in 1..Len(tape) : tape[i].kind \in kinds}
OfKind(tape, kinds) == Only(tape, Places(tape, kinds))
Has(tape, kind) == \E i \in 1..Len(tape) : tape[i].kind = kind

-----------------------------------------------------------------------------
(* Readers *)

\* Recording.history: the messages, and every step's assistant message, in order.
Said(r) == IF r.kind = "step" THEN r.response.msg
           ELSE IF r.kind = "message" THEN r.msg
           ELSE Message("nobody", "", <<>>, <<>>)
HistoryOf(tape) ==
  Only([i \in 1..Len(tape) |-> Said(tape[i])], Places(tape, {"message", "step"}))

StepsOf(tape) == OfKind(tape, {"step"})

\* Recording.tool_calls with effect write, by their positions: what resume and fork
\* call "the writes".
WritesOf(tape) == {i \in Places(tape, {"tool_result"}) : tape[i].effect = "write"}

\* Recording.writes_before
WritesBefore(tape, step) == {i \in WritesOf(tape) : tape[i].step < step}

\* Mutant of CacheOf: the summaries are left out.
CacheOfTurns(tape) ==
  LET steps == Only(tape, {i \in Places(tape, {"step"}) : tape[i].key.purpose = "turn"})
  IN  [k \in {steps[i].key : i \in 1..Len(steps)} |->
         steps[CHOOSE i \in 1..Len(steps) : steps[i].key = k].response]

\* StepCache.from_tape: a later step with the same key replaces an earlier one.
CacheOf(tape) ==
  LET steps == StepsOf(tape)
      keys  == {steps[i].key : i \in 1..Len(steps)}
      last(k) == CHOOSE i \in 1..Len(steps) :
                   /\ steps[i].key = k
                   /\ \A j \in i+1..Len(steps) : steps[j].key # k
  IN  [k \in keys |-> steps[last(k)].response]

NoCache == [k \in {} |-> {}]

\* Mutant: run_end is looked for first.
StoppedBecauseEndFirst(tape) ==
  IF StepsOf(tape) = <<>> THEN "nothing_to_resume"
  ELSE IF Has(tape, "run_end") THEN "finished"
  ELSE IF Has(tape, "cancelled") THEN "cancelled"
  ELSE "incomplete"

\* plan_resume's account of why the run on a tape with steps stopped.
StoppedBecause(tape) ==
  LET steps == StepsOf(tape)
  IN  IF steps = <<>> THEN "nothing_to_resume"
      ELSE IF Has(tape, "cancelled") THEN "cancelled"
      ELSE IF ~Has(tape, "run_end") THEN "incomplete"
      ELSE IF steps[Len(steps)].response.stop = "other" THEN "step_ceiling"
      ELSE "finished"

=============================================================================
