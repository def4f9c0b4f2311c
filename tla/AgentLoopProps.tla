---------------------------- MODULE AgentLoopProps ----------------------------
(***************************************************************************)
(* What a run of the agent loop must keep true, whatever the model, the    *)
(* tools, the human and the operator do.                                   *)
(***************************************************************************)
EXTENDS AgentLoop, FiniteSets

-----------------------------------------------------------------------------
(* The type invariant *)

PCs == {"start", "log", "top", "check", "lookup", "turn", "decide", "dispatch", "fit",
        "result", "batch", "compact", "summarise", "splice", "end", "close"} \cup Terminal

InBatch == pc \in {"decide", "dispatch", "fit", "result"}

\* Every variable keeps its type, and a batch never outgrows the calls it answers.
TypeOK ==
  /\ pc \in PCs
  /\ agent.config \in Configs /\ agent.resumed \in BOOLEAN
  /\ \A k \in DOMAIN agent.cache : agent.cache[k] \in Responses
  /\ step \in 0..MaxSteps
  /\ messages \in Seq(Messages) /\ messages # <<>>
  /\ logged \in Nat
  /\ pc = "log" => logged < Len(messages)
  /\ tape \in Seq(Records)
  /\ stop \in StopReasons
  /\ broke \in BOOLEAN /\ token \in BOOLEAN
  /\ response \in Responses
  /\ batch \in Seq(Contents) /\ content \in Contents
  /\ InBatch => Len(batch) < Len(response.msg.calls)
  /\ grants \subseteq Asking
  /\ world \in Nat /\ live \in Nat /\ late \in Nat
  /\ DOMAIN snaps \subseteq 0..MaxSteps
  /\ \A s \in DOMAIN snaps : snaps[s] \in Nat

-----------------------------------------------------------------------------
(* Safety *)

IsSuffix(s, t) == Len(s) <= Len(t) /\ s = SubSeq(t, Len(t) - Len(s) + 1, Len(t))

Asks == pc \in {"lookup", "turn"}

\* The history the run started from is on the tape, and the process is alive.
Alive == pc \notin {"start", "log", "crashed"}

\* Whatever happened before - failed tools, refused calls, a compaction - the next
\* request is one a provider accepts: no call without its results, no result
\* without its call ("never split these across messages", events.py).
RequestsSendable == Asks => Sendable(messages)

\* A reader of the tape rebuilds exactly the conversation the next request is made
\* from: "the conversation as it stood entering step" (Recording.history_before).
TapeTellsHistory == Asks => HistoryOf(tape) = messages

\* A cancelled run ends between turns: its tape can be resumed as it is, with no
\* half turn and no batch cut short (loop.py: a clean stop, not "a gap" in the run).
CancelLeavesWhole == pc = "done" /\ broke => Sendable(HistoryOf(tape))

\* The writes that may have changed something: of tools that exist, and that no deny
\* rule stops. (The tape tells a refusal and a failure as errors alike.)
Effective(t) == t \in Writers /\ (HasPolicy => t \notin Denied)
Backing(places) == Cardinality({i \in places : Effective(tape[i].tool)})

\* However the run stopped, every change to the workspace is backed by a write on
\* the tape, but for the one a crash may leave behind; and entering a step it is in
\* that step's count.
WritesAreTold ==
  /\ pc \in {"done", "raised"} => world <= Backing(WritesOf(tape))
  /\ pc = "crashed" => world <= Backing(WritesOf(tape)) + 1
  /\ Asks => world <= Backing(WritesBefore(tape, step))

\* The snapshot of step s holds the writes the tape puts before s and no other:
\* "restoring step n reproduces the world the model saw when it decided what to
\* do at step n". (A failed write counts whether or not it changed anything.)
SnapshotMatchesTape ==
  \A s \in DOMAIN snaps :
    LET earlier == WritesBefore(tape, s)
    IN  /\ snaps[s] <= Backing(earlier)
        /\ world <= snaps[s] + Backing(WritesOf(tape) \ earlier)
                       + (IF InBatch \/ pc = "crashed" THEN 1 ELSE 0)

\* One tape, one run: run_end comes last and once, `cancelled` right before it and
\* exactly when run_end says so, steps never go back, and every results message
\* the run wrote has as many tool_result records of its step before it.
TapeIsOneRun ==
  /\ \A i \in 1..Len(tape) :
       /\ tape[i].kind = "run_start" <=> i = 1
       /\ tape[i].kind = "run_end" => i = Len(tape) /\ pc = "done"
       /\ tape[i].kind = "cancelled" => i >= Len(tape) - 1
       /\ tape[i].kind = "message" /\ i > logged + 1 =>
            Len(tape[i].msg.results)
              = Cardinality({j \in 1..i : tape[j].kind = "tool_result" /\ tape[j].step = tape[i].step})
  /\ \A i \in 1..Len(tape) - 1 : tape[i].step <= tape[i+1].step
  /\ pc = "done" => (tape[Len(tape)].cancelled <=> tape[Len(tape)-1].kind = "cancelled")

\* The turns on the tape, without the summaries.
Turns == Only(tape, {i \in Places(tape, {"step"}) : tape[i].key.purpose = "turn"})
HitCeiling == Turns # <<>> /\ WantsTools(Turns[Len(Turns)].response)

\* plan_resume tells by the tape alone whether the run was cancelled, ended by
\* the model, or died. (One that used up its steps: CeilingIsTold.)
StopIsTold ==
  LET told == StoppedBecause(tape)
  IN  told # "nothing_to_resume" =>
        /\ told = "cancelled" => broke
        /\ pc = "done" => (broke <=> told = "cancelled") /\ told # "incomplete"
        /\ pc = "raised" => told = "incomplete"
        /\ pc = "crashed" => told \in {"incomplete", "cancelled"}
        /\ pc = "done" /\ stop = "end_turn" => told \in {"finished", "cancelled"}

\* A run that used up max_steps while the model still wanted tools is not told as
\* finished: "Hit max_steps. Resuming gives it another budget."
\* (StoppedBecause.STEP_CEILING)
CeilingIsTold ==
  pc = "done" /\ ~broke /\ HitCeiling => StoppedBecause(tape) = "step_ceiling"

\* A tape that a died process left without run_end is one to continue
\* (StoppedBecause.INCOMPLETE): the conversation a resume sends on, taken from the tape
\* as it is, is a request like any other.
DeadRunIsSendable ==
  pc = "crashed" /\ StoppedBecause(tape) = "incomplete" /\ StepsOf(tape) # <<>> =>
    Sendable(HistoryOf(tape))

\* After the token is set at most one more turn is recorded, whatever tools and
\* summaries are still under way ("checked ... between steps", cancel.py).
AtMostOneLateTurn == late <= 1

\* Compaction never drops the system prompt and the original task (compact.py).
TaskIsKept ==
  Alive => \A i \in 1..2 : messages[i] = tape[i+1].msg

-----------------------------------------------------------------------------
(* What a step may never do *)

\* Compaction shortens the history and keeps the most recent turns, whole: what it
\* holds out does not start with the results of a call it summarised away.
CompactionKeepsTurns ==
  [][pc = "splice" /\ pc' = "top" =>
       LET kept == SubSeq(messages, TailStart(messages) + 1, Len(messages))
       IN  /\ Len(messages') < Len(messages)
           /\ IsSuffix(kept, messages')
           /\ kept # <<>> => kept[1].role # "tool_results"]_vars

\* With a policy set, nothing changes the workspace before its permission is on the
\* tape: the record is what replay and an audit have to go by.
NothingRunsUnlicensed ==
  [][HasPolicy /\ world' # world => tape[Len(tape)] = PermissionRec(step, Call, "allow")]_vars

-----------------------------------------------------------------------------
(* Liveness and refinement *)

\* A run ends: no answer, refusal, failure or compaction makes it go on for ever.
RunEnds == <>(pc \in Terminal)

\* The tape, not the memory of the process, implements Conversation: whatever
\* happens between two writes, what a reader finds is a legal conversation.
Told == INSTANCE Conversation WITH history <- HistoryOf(tape)
TellsConversation == Told!Spec

=============================================================================
