------------------------------ MODULE AgentLoop ------------------------------
(***************************************************************************)
(* Agent._loop (core/loop.py): one run, from its run_start record to its   *)
(* run_end record, or to the exception or the crash that takes its place.  *)
(* The model answers, tools run, a human grants or refuses, the history is *)
(* compacted, and every fact goes to the tape in a write of its own: the   *)
(* process can die between any two.                                        *)
(*                                                                         *)
(* A model turn is one step here; RetryTurn is what happens inside it.     *)
(* The workspace is a version number: a tool that mutates it makes the     *)
(* next version, and a tool that reads it reports the version it saw.      *)
(***************************************************************************)
EXTENDS Tape

CONSTANTS
  Texts, Tools,   \* what a message may say; the tool names a model may call
  Histories,      \* what a run may start from: [messages, resumed] records
  Configs,        \* provider, model and parameters, as far as a key tells them apart
  Answers,        \* the responses the model may give to a turn
  Summaries,      \* the responses it may give to a compaction request
  Registered,     \* tools in the registry
  Writers,        \* those registered with effect write
  MaxSteps,       \* Agent.max_steps
  HasPolicy,      \* Agent.policy is set
  Asking, Denied, \* the tools the policy asks a human about, and refuses
  ToolsMayFail,   \* a registered tool may raise
  HasSnapshots,   \* Agent.snapshots and Agent.workspace are set
  HasBudget,      \* Agent.budget is set
  Oversized,      \* tools whose output exceeds max_tool_result_tokens
  CompactAt,      \* messages that fill the window to compact_at
  KeepRecent,     \* ContextBudget.keep_recent
  MayCrash        \* the process may die

-----------------------------------------------------------------------------
(* Types *)

StopReasons == {"end_turn", "tool_use", "max_tokens", "refusal", "filtered", "other"}

Contents == [what : {"output", "error", "denied", "nothing"}, seen : Nat, cut : BOOLEAN]

Messages == [role : {"system", "user", "assistant", "tool_results"}, text : Texts,
             calls : Seq(Tools), results : Seq(Contents)]

Responses == [msg : {m \in Messages : m.role = "assistant" /\ m.results = <<>>},
              stop : StopReasons]

Keys == [purpose : {"turn", "compaction"}, config : Configs, messages : Seq(Messages)]

Verdicts == {"allow", "deny"}
Records ==
  [kind : {"run_start"}, step : {0}, resumed : BOOLEAN]
  \cup [kind : {"message"}, step : Nat, msg : Messages]
  \cup [kind : {"step"}, step : Nat, key : Keys, response : Responses]
  \cup [kind : {"snapshot", "cancelled"}, step : Nat]
  \cup [kind : {"permission"}, step : Nat, tool : Tools, verdict : Verdicts]
  \cup [kind : {"truncated"}, step : Nat, tool : Tools]
  \cup [kind : {"tool_result"}, step : Nat, tool : Tools, effect : {"read", "write"},
        is_error : BOOLEAN]
  \cup [kind : {"compaction"}, step : Nat, replaced : Nat]
  \cup [kind : {"run_end"}, step : Nat, stop : StopReasons, cancelled : BOOLEAN]

ASSUME AgentLoopAssumption ==
  /\ MaxSteps \in Nat /\ CompactAt \in Nat /\ KeepRecent \in Nat
  /\ HasPolicy \in BOOLEAN /\ HasSnapshots \in BOOLEAN /\ HasBudget \in BOOLEAN
  /\ ToolsMayFail \in BOOLEAN /\ MayCrash \in BOOLEAN
  /\ Writers \subseteq Registered /\ Registered \subseteq Tools
  /\ "" \in Texts
  /\ Answers \subseteq Responses /\ Summaries \subseteq Responses
  /\ \A h \in Histories : /\ h.messages \in Seq(Messages) /\ h.messages # <<>>
                          /\ h.resumed \in BOOLEAN

VARIABLES
  pc,        \* where the loop is
  agent,     \* what it was built with: config, the tape of its cache; run() or resume()
  step,      \* the loop variable
  messages,  \* the conversation in memory
  logged,    \* how many of the initial messages are on the tape
  tape,      \* what the store holds
  stop,      \* the last stop reason
  broke,     \* the local `cancelled`
  response,  \* the response being acted on
  batch,     \* the results of its calls so far
  content,   \* the result of the call in hand
  token,     \* CancellationToken.cancelled
  grants,    \* PermissionPolicy.session_grants
  world,     \* the version of the workspace
  snaps,     \* SnapshotStore: the version copied for each step
  live,      \* turns and summaries asked of the model instead of the cache
  late       \* turns recorded after the token was set

built   == <<agent, logged>>
flow    == <<step, stop, broke>>
talk    == <<messages, response, batch, content>>
outside == <<token, grants, world, snaps>>
counts  == <<live, late>>
vars    == <<pc, tape, built, flow, talk, outside, counts>>

NoResponse == Response("", <<>>, "other")
NoContent  == [what |-> "nothing", seen |-> 0, cut |-> FALSE]

Init ==
  /\ pc = "start"
  /\ \E c \in Configs, h \in Histories :
       /\ agent = [config |-> c, source |-> <<>>, cache |-> NoCache, resumed |-> h.resumed]
       /\ messages = h.messages
  /\ step = 0 /\ logged = 0 /\ tape = <<>>
  /\ stop = "other" /\ broke = FALSE
  /\ response = NoResponse /\ batch = <<>> /\ content = NoContent
  /\ token = FALSE /\ grants = {}
  /\ world = 0 /\ snaps = [s \in {} |-> 0]
  /\ live = 0 /\ late = 0

Put(r) == tape' = Append(tape, r)

-----------------------------------------------------------------------------
(* Before the first step *)

Start ==
  /\ pc = "start"
  /\ Put(RunStart(agent.resumed))
  /\ pc' = "log"
  /\ UNCHANGED <<built, flow, talk, outside, counts>>

LogMessage ==
  /\ pc = "log"
  /\ Put(MessageRec(0, messages[logged + 1]))
  /\ logged' = logged + 1
  /\ pc' = IF logged + 1 = Len(messages) THEN "top" ELSE "log"
  /\ UNCHANGED <<flow, talk, outside, counts, agent>>

-----------------------------------------------------------------------------
(* The head of the loop *)

\* Mutant: the ceiling is looked for one step too late, where the loop never is.
CeilingTooLate ==
  /\ pc = "top" /\ step > MaxSteps
  /\ stop' = "other" /\ step' = MaxSteps /\ pc' = "end"
  /\ UNCHANGED <<built, talk, outside, counts, tape, broke>>

\* range(max_steps) is used up: the for loop's else branch.
Ceiling ==
  /\ pc = "top" /\ step = MaxSteps
  /\ stop' = "other"
  /\ step' = IF MaxSteps = 0 THEN 0 ELSE MaxSteps - 1
  /\ pc' = "end"
  /\ UNCHANGED <<built, talk, outside, counts, tape, broke>>

\* Mutant: the snapshot is filed under the step to come.
BeginStepEarly ==
  /\ pc = "top" /\ step < MaxSteps
  /\ snaps' = [s \in DOMAIN snaps \cup {step + 1} |->
                 IF s = step + 1 THEN world ELSE snaps[s]]
  /\ Put(SnapshotRec(step))
  /\ pc' = "check"
  /\ UNCHANGED <<built, flow, talk, counts, token, grants, world>>

\* The snapshot is the world the model sees when it decides.
BeginStep ==
  /\ pc = "top" /\ step < MaxSteps
  /\ IF HasSnapshots
     THEN /\ snaps' = [s \in DOMAIN snaps \cup {step} |->
                         IF s = step THEN world ELSE snaps[s]]
          /\ Put(SnapshotRec(step))
     ELSE UNCHANGED <<snaps, tape>>
  /\ pc' = "check"
  /\ UNCHANGED <<built, flow, talk, counts, token, grants, world>>

\* Mutant: the token is not looked at between steps.
CheckNothing ==
  /\ pc = "check"
  /\ pc' = "lookup"
  /\ UNCHANGED <<built, flow, talk, outside, counts, tape>>

CheckToken ==
  /\ pc = "check"
  /\ broke' = token
  /\ pc' = IF token THEN "end" ELSE "lookup"
  /\ UNCHANGED <<built, talk, outside, counts, step, tape, stop>>

-----------------------------------------------------------------------------
(* A turn *)

Key == TurnKey(agent.config, messages)

\* Mutant: only end_turn ends the run.
AnsweredGoingOn(r) ==
  /\ messages' = Append(messages, r.msg)
  /\ stop' = r.stop
  /\ response' = r
  /\ Put(StepRec(step, Key, r))
  /\ batch' = <<>>
  /\ pc' = IF WantsTools(r) THEN "decide" ELSE IF r.stop = "end_turn" THEN "end" ELSE "top"
  /\ step' = IF pc' = "top" THEN step + 1 ELSE step
  /\ late' = IF token THEN late + 1 ELSE late
  /\ UNCHANGED <<built, outside, broke, content>>

\* The response is appended to the history and recorded; then the run is over
\* unless the model asked for tools.
Answered(r) ==
  /\ messages' = Append(messages, r.msg)
  /\ stop' = r.stop
  /\ response' = r
  /\ Put(StepRec(step, Key, r))
  /\ batch' = <<>>
  /\ pc' = IF WantsTools(r) THEN "decide" ELSE "end"
  /\ late' = IF token THEN late + 1 ELSE late
  /\ UNCHANGED <<built, outside, step, broke, content>>

\* Mutant: what was not asked for is not recorded.
ServedUnrecorded ==
  /\ pc = "lookup" /\ Key \in DOMAIN agent.cache
  /\ LET r == agent.cache[Key]
     IN  /\ messages' = Append(messages, r.msg) /\ response' = r /\ stop' = r.stop
         /\ pc' = IF WantsTools(r) THEN "decide" ELSE "end"
  /\ batch' = <<>>
  /\ UNCHANGED <<built, outside, counts, tape, step, broke, content>>

ServedFromCache ==
  /\ pc = "lookup" /\ Key \in DOMAIN agent.cache
  /\ Answered(agent.cache[Key])
  /\ UNCHANGED live

AskModel ==
  /\ pc = "lookup" /\ Key \notin DOMAIN agent.cache
  /\ live' = live + 1
  /\ pc' = "turn"
  /\ UNCHANGED <<built, flow, talk, outside, tape, late>>

TurnReturns ==
  /\ pc = "turn"
  /\ \E r \in Answers : Answered(r)
  /\ UNCHANGED live

\* The in-flight turn is discarded whole.
TurnCancelled ==
  /\ pc = "turn" /\ token
  /\ broke' = TRUE
  /\ pc' = "end"
  /\ UNCHANGED <<built, talk, outside, counts, step, tape, stop>>

\* A ProviderError leaves _loop, from a turn or from a compaction.
ProviderFails ==
  /\ pc \in {"turn", "summarise"}
  /\ pc' = "raised"
  /\ UNCHANGED <<built, flow, talk, outside, counts, tape>>

-----------------------------------------------------------------------------
(* One tool call; the token is not looked at until the batch is done *)

Call == response.msg.calls[Len(batch) + 1]

\* An unknown tool counts as a write.
Effect(t) == IF t \in Registered \ Writers THEN "read" ELSE "write"

\* Mutant: the verdict is recorded and not acted on.
NextCallAnyway(verdict) ==
  /\ Put(PermissionRec(step, Call, verdict))
  /\ pc' = "dispatch" /\ UNCHANGED content

NextCall(verdict) ==
  /\ Put(PermissionRec(step, Call, verdict))
  /\ IF verdict = "allow"
     THEN pc' = "dispatch" /\ UNCHANGED content
     ELSE pc' = "fit" /\ content' = [what |-> "denied", seen |-> 0, cut |-> FALSE]

\* PermissionPolicy.decide: deny rules, then standing and session grants, then
\* the human, whose yes is remembered.
Decide ==
  /\ pc = "decide" /\ HasPolicy
  /\ CASE Call \in Denied                    -> NextCall("deny") /\ UNCHANGED grants
       [] Call \notin Asking \cup Denied     -> NextCall("allow") /\ UNCHANGED grants
       [] Call \in (Asking \cap grants) \ Denied -> NextCall("allow") /\ UNCHANGED grants
       [] OTHER -> \E yes \in BOOLEAN :
            /\ NextCall(IF yes THEN "allow" ELSE "deny")
            /\ grants' = IF yes THEN grants \cup {Call} ELSE grants
  /\ UNCHANGED <<built, flow, counts, messages, response, batch, token, world, snaps>>

NoPolicy ==
  /\ pc = "decide" /\ ~HasPolicy
  /\ pc' = "dispatch"
  /\ UNCHANGED <<built, flow, talk, outside, counts, tape>>

\* Registry.dispatch, which never raises. What a read reports depends on the
\* workspace; a writer that raises may or may not have changed it.
Dispatch ==
  /\ pc = "dispatch"
  /\ \/ /\ Call \in Registered
        /\ content' = [what |-> "output", cut |-> FALSE,
                       seen |-> IF Call \in Writers THEN 0 ELSE world]
        /\ world' = IF Call \in Writers THEN world + 1 ELSE world
     \/ /\ Call \notin Registered
        /\ content' = [what |-> "error", seen |-> 0, cut |-> FALSE]
        /\ UNCHANGED world
     \/ /\ Call \in Registered /\ ToolsMayFail
        /\ content' = [what |-> "error", seen |-> 0, cut |-> FALSE]
        /\ \/ world' = world
           \/ Call \in Writers /\ world' = world + 1
  /\ pc' = "fit"
  /\ UNCHANGED <<built, flow, counts, messages, tape, response, batch, token, grants, snaps>>

\* budget.fit_tool_result: what a tool returned or raised may be too long; a refusal
\* is one short line.
Fit ==
  /\ pc = "fit"
  /\ IF HasBudget /\ Call \in Oversized /\ content.what # "denied"
     THEN /\ Put(TruncatedRec(step, Call))
          /\ content' = [content EXCEPT !.cut = TRUE]
     ELSE UNCHANGED <<tape, content>>
  /\ pc' = "result"
  /\ UNCHANGED <<built, flow, outside, counts, messages, response, batch>>

\* Mutants: one call too many; a batch cut short by the token; results of failed
\* calls that are not recorded.
AfterResult(told, next) ==
  /\ pc = "result"
  /\ batch' = Append(batch, content)
  /\ IF told THEN Put(ToolRec(step, Call, Effect(Call), content.what \in {"error", "denied"}))
             ELSE UNCHANGED tape
  /\ pc' = next
  /\ UNCHANGED <<built, outside, counts, step, stop, messages, response, content>>
LastCall == Len(batch) + 1 = Len(response.msg.calls)

RecordOneMore == AfterResult(TRUE, IF Len(batch) = Len(response.msg.calls) THEN "batch" ELSE "decide")
                 /\ UNCHANGED broke
RecordUntilCancelled ==
  /\ AfterResult(TRUE, IF token THEN "end" ELSE IF LastCall THEN "batch" ELSE "decide")
  /\ broke' = token
RecordSuccesses == AfterResult(content.what # "error", IF LastCall THEN "batch" ELSE "decide")
                   /\ UNCHANGED broke

RecordResult ==
  /\ pc = "result"
  /\ batch' = Append(batch, content)
  /\ Put(ToolRec(step, Call, Effect(Call), content.what \in {"error", "denied"}))
  /\ pc' = IF Len(batch) + 1 = Len(response.msg.calls) THEN "batch" ELSE "decide"
  /\ UNCHANGED <<built, flow, outside, counts, messages, response, content>>

-----------------------------------------------------------------------------
(* The end of a step: compaction (context/compact.py, context/budget.py) *)

\* The history fills the window to compact_at. The measure is the number of
\* messages: any that grows with the history would do.
Due(ms) == HasBudget /\ Len(ms) >= CompactAt

\* plan_compaction: the system prompt and the first user message stay, and so do
\* the keep_recent last messages; the rest is replaced if it is worth it.
\* Mutant of HeadLength: only the system prompt is kept.
OnlyThePrompt(ms) == IF ms # <<>> /\ ms[1].role = "system" THEN 1 ELSE 0
HeadLength(ms) ==
  LET sys == IF ms # <<>> /\ ms[1].role = "system" THEN 1 ELSE 0
  IN  IF Len(ms) > sys /\ ms[sys + 1].role = "user" THEN sys + 1 ELSE sys
\* Mutant of TailStart: one message too few is kept.
TailStartLate(ms) == IF Len(ms) >= KeepRecent THEN Len(ms) - KeepRecent + 1 ELSE Len(ms)
TailStart(ms) ==
  IF Len(ms) >= HeadLength(ms) + KeepRecent THEN Len(ms) - KeepRecent ELSE HeadLength(ms)
Replaced(ms) == TailStart(ms) - HeadLength(ms)
Worthwhile(ms) == Replaced(ms) >= 4

\* The slice that is summarised; it stands for the prompt rendered from it.
Slice(ms) == SubSeq(ms, HeadLength(ms) + 1, TailStart(ms))

\* Mutant of Compacted: the summary goes last.
SummaryLast(ms, summary) ==
  SubSeq(ms, 1, HeadLength(ms)) \o SubSeq(ms, TailStart(ms) + 1, Len(ms)) \o <<User(summary)>>

\* apply_compaction
Compacted(ms, summary) ==
  SubSeq(ms, 1, HeadLength(ms)) \o <<User(summary)>> \o SubSeq(ms, TailStart(ms) + 1, Len(ms))

\* Mutants: the results are not recorded; each is recorded in a message of its own.
BatchRecordedAs(records) ==
  /\ pc = "batch"
  /\ messages' = Append(messages, Results(batch))
  /\ tape' = tape \o records
  /\ pc' = "top" /\ step' = step + 1
  /\ UNCHANGED <<built, outside, counts, stop, broke, response, batch, content>>
RecordBatchNowhere == BatchRecordedAs(<<>>)
RecordBatchSplit ==
  BatchRecordedAs([i \in 1..Len(batch) |-> MessageRec(step, Results(<<batch[i]>>))])

RecordBatch ==
  /\ pc = "batch"
  /\ messages' = Append(messages, Results(batch))
  /\ Put(MessageRec(step, Results(batch)))
  /\ IF Due(messages') /\ Worthwhile(messages')
     THEN pc' = "compact" /\ UNCHANGED step
     ELSE pc' = "top" /\ step' = step + 1
  /\ UNCHANGED <<built, outside, counts, stop, broke, response, batch, content>>

SummaryKey == CompactionKey(agent.config, Slice(messages))

\* The summary is recorded as a step; an empty one changes nothing else.
Summarised(r) ==
  /\ response' = r
  /\ Put(StepRec(step, SummaryKey, r))
  /\ IF r.msg.text = ""
     THEN pc' = "top" /\ step' = step + 1
     ELSE pc' = "splice" /\ UNCHANGED step
  /\ UNCHANGED <<built, outside, messages, stop, broke, batch, content, late>>

SummaryFromCache ==
  /\ pc = "compact" /\ SummaryKey \in DOMAIN agent.cache
  /\ Summarised(agent.cache[SummaryKey])
  /\ UNCHANGED live

AskSummary ==
  /\ pc = "compact" /\ SummaryKey \notin DOMAIN agent.cache
  /\ live' = live + 1
  /\ pc' = "summarise"
  /\ UNCHANGED <<built, flow, talk, outside, tape, late>>

\* The retry policy gets no token here: a cancellation does not interrupt it.
SummaryReturns ==
  /\ pc = "summarise"
  /\ \E r \in Summaries : Summarised(r)
  /\ UNCHANGED live

Splice ==
  /\ pc = "splice"
  /\ messages' = Compacted(messages, response.msg.text)
  /\ Put(CompactionRec(step, Replaced(messages)))
  /\ step' = step + 1
  /\ pc' = "top"
  /\ UNCHANGED <<built, outside, counts, stop, broke, response, batch, content>>

-----------------------------------------------------------------------------
(* The end of the run *)

RecordCancelled ==
  /\ pc = "end" /\ broke
  /\ Put(CancelledRec(step))
  /\ pc' = "close"
  /\ UNCHANGED <<built, flow, talk, outside, counts>>

\* Mutant: a cancelled run ends like any other.
CloseAtOnce ==
  /\ pc \in {"end", "close"}
  /\ Put(RunEnd(step, stop, broke))
  /\ pc' = "done"
  /\ UNCHANGED <<built, flow, talk, outside, counts>>

Close ==
  /\ \/ pc = "close"
     \/ pc = "end" /\ ~broke
  /\ Put(RunEnd(step, stop, broke))
  /\ pc' = "done"
  /\ UNCHANGED <<built, flow, talk, outside, counts>>

-----------------------------------------------------------------------------
(* The environment *)

Terminal == {"done", "raised", "crashed"}

\* Ctrl-C, or whoever holds the token, at any moment.
Cancel ==
  /\ ~token /\ pc \notin Terminal
  /\ token' = TRUE
  /\ UNCHANGED <<built, flow, talk, counts, pc, tape, grants, world, snaps>>

\* The process dies: the tape and the workspace are what is left. A second
\* Ctrl-C (KeyboardInterrupt) leaves the same behind.
Crash ==
  /\ MayCrash /\ pc \notin Terminal
  /\ pc' = "crashed"
  /\ UNCHANGED <<built, flow, talk, outside, counts, tape>>

-----------------------------------------------------------------------------

Loop == \/ Start \/ LogMessage \/ Ceiling \/ BeginStep \/ CheckToken
        \/ ServedFromCache \/ AskModel \/ TurnReturns \/ TurnCancelled \/ ProviderFails
        \/ Decide \/ NoPolicy \/ Dispatch \/ Fit \/ RecordResult \/ RecordBatch
        \/ SummaryFromCache \/ AskSummary \/ SummaryReturns \/ Splice
        \/ RecordCancelled \/ Close

Next == Loop \/ Cancel \/ Crash

Spec == Init /\ [][Next]_vars

\* The loop is one thread that is never blocked for good: a turn ends (RetryTurn), a
\* tool returns (commands run under a timeout), and a human who is asked answers.
FairSpec == Spec /\ WF_vars(Loop)
=============================================================================
