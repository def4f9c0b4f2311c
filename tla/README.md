# TLA+ models of tapeloop

tapeloop is an agent runtime that records every step of a run on an append-only
*tape*, so that a run can be replayed, resumed and forked. This directory holds
TLA+ modules translated from its source (`src/src/tapeloop/`), TLC
configurations that check them on small instances, and theorems that TLAPS
proves for every value of the constants.

Paths below are relative to `src/src/tapeloop/`.

## 1. The system

### Components, state and operations

| Component | State it keeps | Operations | Calls / is called by |
|---|---|---|---|
| Agent loop, `core/loop.py` | the conversation in memory, the step counter, the last stop reason | `run`, `resume`, `_loop`, `_maybe_compact` | calls everything below; appends to the store |
| Model turn and retry, `core/retry.py`, `_one_turn`, `_stream_turn` | attempt number, accumulator, `emitted` flag | `RetryPolicy.call` | the loop, for turns and for summaries; calls a provider; looks at the token |
| Cancellation, `core/cancel.py` | an `Event` and a reason | `cancel`, `cancelled`, `wait`, `on_sigint` | set by a signal handler or another thread; read between steps and between stream events |
| Providers, `providers/` | none between calls | `complete`, `stream` | called from a turn |
| Tape file, `record/jsonl.py`, `record/base.py` | a file, the next `seq` | `append`, `read_records` | the loop writes; recordings, caches and diffs read |
| Step keys and codec, `record/keys.py`, `codec.py`, `canonical.py` | none | `step_key`, `encode_message`, `order_results` | the loop, the cache |
| Step cache, `record/cache.py` | key to response | `from_tape`, `get`, `put` | the loop, before every request |
| Recording, resume, `replay/recording.py`, `resume.py` | none (built from a tape) | `load`, `history_before`, `writes_before`, `plan_resume` | command line |
| Fork, diff, `replay/fork.py`, `diff.py` | none | `plan_fork`, `diff_tapes` | command line |
| Snapshots, `sandbox/snapshot.py` | one directory per step | `take`, `restore`, `latest_before` | the loop takes, fork and resume restore |
| Permissions, `sandbox/permissions.py` | rules, session grants | `decide` | the loop, before every call |
| Tools, `tools/` | the registry; the workspace | `dispatch`, effect classes | the loop |
| Compaction, budget, truncation, `context/` | none | `plan_compaction`, `apply_compaction`, `fit_tool_result`, `truncate_middle` | the loop, at the end of a step |
| Subagents, `agents/` | child tapes, depth | `spawn`, `fan_out`, `barrier`, `pipeline` | a tool of the parent |
| MCP bridge, `mcp/` | request ids, a child process | `request`, `serve` | a registry of remote tools |
| Evaluation, `eval/` | result rows, tapes | `run_suite`, graders | command line |
| Executors, observation, conformance, command line | nothing a later step reads | | |

The loop, the tape and the readers of the tape are the heart of the program:
its promise is that *the tape is the run*. Everything that makes this hard meets
in `_loop`: records are appended one by one while tools change the workspace,
the human is asked, a signal sets the token, and the process can die.

### What is hard in this code

* **Two copies of the conversation.** `messages` in memory and the records on the
  tape are updated in different statements; every reader has only the second.
* **A crash between an effect and its record.** A tool runs, then its
  `tool_result` is written; snapshots and verdicts are ordered around it.
* **Cancellation.** The token is set from a signal handler that runs nested in
  the main thread, and is looked at only in certain places.
* **Retries of a streamed turn.** A turn that already showed text must not be
  retried; a stream can end without having finished.
* **Compaction.** It cuts a history by counting messages, and changes the history
  without the readers of the tape knowing.
* **Inference from the tape.** Why a run stopped, what it wrote, which responses
  to serve again: all are computed from records written for another purpose.
* **Two runs over the same things.** A replay runs in a workspace; forks, resumed
  runs and two commands at once share snapshots, tapes and the workspace.
* **A file that is appended to.** A tape has a header, numbered lines and no lock;
  a process dies in the middle of a line.
* **Things that outlive the call they belong to.** Session grants, graders, the
  spare line of an MCP server, a Spawner's counter.
* **Fragments.** A streamed turn is put together from pieces of several calls in
  any order, before any of it is JSON.

`PROJECT.json` lists these as hazards, each at its line, with the properties that
cover it, or the reason why none does.

### What makes each component correct

* Loop and tape: every request pairs calls with results (`RequestsSendable`); the
  tape tells the conversation (`TapeTellsHistory`, `TellsConversation`), the writes
  (`WritesAreTold`), the snapshots (`SnapshotMatchesTape`) and the end
  (`TapeIsOneRun`, `StopIsTold`); nothing runs before its verdict is on the tape
  (`NothingRunsUnlicensed`); a cancelled run ends whole (`CancelLeavesWhole`); a
  run ends (`RunEnds`).
* Turn: shown once, returned as shown (`ShownIsReturned`, `KeepsPromise`),
  abandoned promptly (`AtMostOneLate`, `CancelFelt`).
* Token: a waiter is woken (`WaitIsWoken`), an interrupt is not lost
  (`FeltUnlessHeld`).
* Compaction: the task and the recent turns are kept (`TaskIsKept`,
  `CompactionKeepsTurns`).
* Cache: a replay is the recording again, for free, where the keys on the tape tell its
  responses apart (`ReplayRepeats`, `ReplayIsFree`).
* Tape file: what was appended is read back (`ReadsBack`), unless a process dies in the
  middle of a line (`CrashCostsNoStep` does not hold); two runs on one tape come only of
  `--tape` or of commands that make the same name (`TwoRunsAreNamesakes`).
* Fork and restore: a fork repeats its source (`ForkRepeatsRest`), says what it
  hides (`ForkOwnsUp`), and a restore copies the writes the tape has before the snapshot it
  found, and none of the step asked for or later (`RestoreIsExact`). That the workspace
  then has every write before the step asked for (`RestoredWritesAreReal`) is what the code
  says and does not hold.
* Policy and remote tools: a denied call never runs (`DeniedNeverRuns`), an asked one
  runs on a yes (`AskedRunsAgreed`), an answer is its own call's
  (`AnswersLagByChatter`).
* Children: a failure is a result (`FailureIsLocal`), a token is counted once
  (`TokensCountOnce`).
* Evaluation: a pass is earned in its own workspace (`PassIsEarned`) and judged by
  its own judgments (`JudgmentsAreOwn`).
* Adapters: a stream says what the whole response says (`StreamSaysTheSame`), the
  tape carries it to the next request in canonical form (`TapeCarriesTheTurn`), a battery
  that passes means an adapter without any of twelve known faults (`BatteryTells`).

## 2. Modules

| Module | Models | How |
|---|---|---|
| `Turn` | the promise of one turn | abstract: fragments are shown, the turn ends once |
| `RetryTurn` | `RetryPolicy.call` around `_one_turn` / `_stream_turn` and an OpenAI-like provider | one action per attempt, request, chunk, event, delta, back-off and token check; a fragment is named by its attempt and position |
| `CancelToken` | `CancellationToken`, `on_sigint`, `threading.Event` | the main thread in and out of the Event's lock, handlers nested on it, other threads setting the token |
| `Tape` | messages, records, keys, and the readers of a tape | operators only: `HistoryOf` is `Recording.load`, `CacheOf` is `StepCache.from_tape`, `StoppedBecause` is part of `plan_resume` |
| `Conversation` | what a tape promises its readers | abstract: a conversation grows by whole, legal messages |
| `AgentLoop` | `Agent._loop` and `_maybe_compact` | one action per store append or external effect, so that a crash can fall between any two |
| `AgentLoopProps` | the properties of `AgentLoop` | |
| `Replay` | a second run of the same loop whose cache is the first one's tape | adds `StartReplay` to `AgentLoop` |
| `TapeFile` | `JsonlStore`'s file and its readers | operators: a file is a list of lines, each whole, bare of its newline, torn, or two texts in one |
| `Lineage` | `cmd_run`, `cmd_fork`, `cmd_resume`, `plan_fork`, `plan_resume`, `SnapshotStore`, over `TapeFile` | one process per command: plan, restore, decide, then the loop reduced to its appends, tools and snapshots; a directory is copied and removed entry by entry, beside whoever else uses it |
| `Permissions` | rule files, patterns, decisions, grants | operators |
| `ToolGate` | a call on its way through policy, registry, MCP client, two pipes and `McpServer` | the host is one action per statement that blocks or changes state; the server another process that may chatter or die |
| `FanOut` | `Spawner.spawn`, `fan_out`, `build_trace` | a stack of runs, the script below, and the tapes they leave |
| `Orchestrate` | `barrier`, `pipeline`, `compare_shapes` | recursive functions over results and ticks |
| `Evaluation` | `run_suite`, `run_task`, graders, `summarize` | a workspace is who did the task in it and a version |
| `Wire` | messages as providers, the tape and the loop have them | operators: render, parse, count, encode, decode, order, and the canonical form of what is written |
| `Conformance` | `run_conformance` and the shipped targets | an adapter is the shipped one with a set of wrong habits |
| `StreamTurn` | test, `complete` or `stream`, record, next request, over `Wire` | a server that cuts a response anywhere |
| `Truncate` | `truncate_middle`, the character estimate | operators |
| `MC...` | instances for TLC | what models, files, servers and suites may be |
| `RetryTurnProofs`, `ToolGateProofs`, `EvaluationProofs`, `FanOutProofs`, `StreamTurnProofs` | theorems about the module of that name | |
| `AgentLoopProofs` | theorems about what the loop has in memory (requests, compaction, licences), then about what it leaves on its tape, then about a run and its replay (`Replay`); lemmas about the readers of a tape that grows by a record | |
| `LineageProofs` | theorems about commands, tape files and snapshots; lemmas about lines, positions on a tape and its readers | |

### Correspondence with the code

`RetryTurn.pc` is the place in the code: `attempt` (the head of the `for` in
`RetryPolicy.call`), `call` (`fn()`), `open` (waiting for the provider), `event`
(the body of the `for` in `_stream_turn`), `deliver` (`on_delta`), `backoff`.
`site` is which of the three callers made the call: a streamed turn, an unstreamed
one, or a compaction's summary, which is asked for without the token. `emitted`
is the code's flag of that name, reset in each attempt.

`AgentLoop.pc` walks through `_loop` in order: `start` (run_start), `log` (initial
messages), `top` (the `for`), `check` (the token), `lookup` (cache), `turn` (the
request), then for each call `decide`, `dispatch`, `fit`, `result`; `batch` (the
results message), `compact`, `summarise`, `splice`; `end` (cancelled), `close`
(run_end); `done`, `raised` and `crashed` are the three ways out. `messages`,
`step`, `stop`, `broke` (the local `cancelled`), `response` and `batch` are the locals;
`agent` is what the `Agent` was built with. A model turn is a single step there,
since `RetryTurn` is shown to implement `Turn`. The workspace is a version number:
a write makes the next one, a read reports the one it saw, so that a replay in
another workspace sees other outputs and misses the cache, as in the code.

Opaque in `AgentLoop`: texts, arguments, call ids, token counts and prices.
Compaction is triggered by the number of messages instead of tokens; any measure
that grows with the history takes the same branches.

In `Lineage` a session's `pc` is `idle`; `wipe`, `wiping`, `copy` and `copying`, which
are `SnapshotStore.restore` (whether the directory is there, `rmtree`, the listing and
`mkdir` of `copytree`, its entries), and the same four of `take` with `snap` in front of
them; `decide` (soundness, `--dry-run`); then the places of the loop that append, ask or
run a tool, and `over`, `refused` or `dead`. `trees` maps a directory to the writes in
it: the workspace (`Home`) and the snapshot of each step. `todo`, `got` and `whole` are
the locals of `copytree` and `rmtree`: what was listed and is not done, what was copied,
and whether an entry was missed, for which it raises at its end. A run's tape is
`--tape` or the first free number. `files` maps tape names to lines; a name is the list
of derivations the command line puts in the file name, so that equal derivations of
equal tapes have equal names, as on disk. `handle` and `seq` are the fields of
`JsonlStore`, `fresh` the local of `_open`; a tape's writers are those who have opened
it. A write is known by the response that asked for it: writing again what is there
changes nothing.

In `ToolGate`, `policy`, `grants`, `registry`, `next_id` are the fields of those
names; `toServer` and `toClient` are the pipes. `said`, `ran`, `answers` and
`chatter` are history variables: who agreed to what, what ran, and how many lines
nobody asked for have been read as answers.

In `FanOut` the stack is Python's call stack: a child runs inside `spawn`, which
runs inside a tool of its parent. `Top.n` is the `Spawner`'s counter. `spent` is a
history variable, what the providers were paid for. `Totals[depth]` is what
`build_trace` makes of each tape with that many levels left to follow.

In `Evaluation`, `bound`, `before` and `judged` are the fields of the grader
objects, which belong to the suite and not to an attempt. `CallDies` is a call of `bench` cut
off - a factory or a judge raises, or the process is killed, in the middle of a run too - and
`Again` the next one with the same `--out`, after a whole call or one cut off: new graders,
old workspaces and tapes. `attempts` is a history of all calls; an attempt that was cut off is on
it, as nobody's row, because the next call finds what it left.

In `StreamTurn`, `slots`, `parts`, `finish` and `usage` are the locals of
`OpenAIClient.stream`; `sent` is how far the server has come. The JSON of a call's arguments
is a list of pieces that parses to an object or is malformed; JSON that parses to something else,
and a call for which the code makes up an id, are not in the model. `Forms` says which
texts, arguments and payloads have another canonical form, and which: what goes on a tape or into a
key goes through it (`canonical_json`), what stays in memory does not. Ids and names are taken to be
canonical as they come.

## 3. What TLC checks

### Runs that pass

* **turn** - `RetryTurn` at all three call sites, up to 3 attempts of up to 2 text
  and 2 tool-call fragments, with a failure, a quiet end or a cancellation at
  every point. Three attempts are needed for a retry after a retry; two
  fragments for a stream that dies between two. `KeepsPromise` is the refinement of
  `Turn`; `CancelFelt` and `TurnEnds` are the liveness properties.
* **cancel_sigint** - two setter threads and up to three Ctrl-Cs against a main
  thread that waits: enough for a handler nested in a handler, and one more. The
  properties leave out the interrupts that find the main thread inside the
  Event's lock, which is what `CancelToken_trapped.cfg` is about.
* **loop_tools** - a fresh run, a resumed one and a nudged one, of up to 3 steps,
  with a model that reads, writes, names an unknown tool, tries what the policy
  denies and is cut off in mid-call; tools fail before or after their effect; the
  human says yes or no; snapshots, truncation; cancellation and crash at any
  point. `TellsConversation` says that the tape, through its reader, implements
  `Conversation`.
* **loop_compact** - up to 7 steps and compaction at 8 messages, so that a run
  is compacted, goes on and is compacted again; the summary may be empty. `RunEnds`
  is checked here.
* **replay_tape** - record and replay of up to 6 steps, so that two compactions can
  bring a request back, with writes, reads that depend on the workspace, a crash or a
  cancellation in either run. The replay starts in the workspace the recording started
  in.
* **lineage** - three commands, one after the other or two at once: a run, or one that takes
  snapshots; then a fork (at any step, with or without `--faithful`, with another system
  prompt), a resume (nudged, restored, dry) or another run, which writes in the
  workspace while the first is at work; then one more: a restore by fork or resume, at a step with
  a snapshot or one past the last, a run that writes in the workspace while the second restores
  it, a run that chooses its tape's name while the second does, or `--tape` with the name of
  the first. One process may die anywhere, in the middle of a line or of a copy. Three are
  needed for a fork of a fork, for two derivations of one tape, and for a restore of a snapshot
  that was taken beside a writer; two steps for a snapshot between two writes. A writer writes
  between any two entries of a `copytree`, makes the workspace a restore has just
  removed, or finds it gone.
* **tool_calls** - three rule files (empty; an allow wider than a deny; an ask and a
  deny of an imported tool), attended or not, strict or not, imported with a prefix or
  without one (where a name clashes), eight calls, four requests, one spare line,
  a server that dies at any time. Two of the calls have different arguments and
  the same rendering.
* **fan_out** - a script with two tasks, whose labels may be missing, differ or be
  the same; children of up to two steps that may spawn one child each, three runs
  deep. `MCFanOut` also has TLC evaluate `ShapesAgree` for all pairs of stages on
  two items and all costs up to 2.
* **evaluation** - two tasks, one graded by a file and a judge and whose setup
  does not undo the work, one that must be declined; two seeds, two judgments, four
  attempts: one whole call, or one or more that were cut off and the next. Over
  three million states.
* **wire** - responses with no, one, two and three calls, good, malformed, empty and of
  another type, every stop reason, with text, usage and vendor payloads, cut at every
  place and in every order, up to two chunks after the last; three shipped adapters and
  twelve with one wrong habit each, which the battery must catch before the turn
  shows them. One response has two calls with one id, whose results are then put in the
  order of the later one. A text, the arguments of a call and what a tool says have another
  canonical form.

Two sets of operators are checked by assumptions TLC evaluates: `EstimatedTextsAdd`
(`MCAgentLoop`: what `truncate_middle` keeps and elides makes up the text, within its
budget, for texts counted by characters) and `ShapesAgreeOnSmallWork`. Two more state
a gap: `DenseTextsOverlap` (a text with a token to each character is kept twice in
part) and `BatteryHasGaps` (three adapters pass the battery: one drops the text beside a
turn's calls; one answers every call under the id of the first, of which C04 counts `c1` and
never looks for `c2`; one declares its merged stop reasons as its vocabulary, which is what C11
compares with).

### Runs that show a disagreement

| Run | What TLC finds |
|---|---|
| loop_dead | a run that died with calls unanswered is resumed from a history no provider accepts (`replay/resume.py:121`) |
| lineage_faithful | a fork of a tape that is itself a fork or a resumed run is called faithful though its history holds answers of writes, which are looked for on that tape alone (`replay/fork.py:121`, `replay/recording.py:105`) |

Ten more configurations are kept beside the modules and end in a violation:

| Configuration, module | Property | What TLC finds |
|---|---|---|
| `RetryTurn_partial.cfg`, `RetryTurn` | `PartialTurnNotReturned` | a stream that is closed quietly is turned into a response, so a partial turn is recorded (`providers/openai.py:366`) |
| `CancelToken_trapped.cfg`, `CancelToken` | `NeverTrapped` | a Ctrl-C that lands inside `Event.wait`'s locked region blocks its own thread, and so does the second (`core/cancel.py:61`) |
| `AgentLoop_ceiling.cfg`, `MCAgentLoop` | `CeilingIsTold` | a run that used up `max_steps` is told as finished, since only `run_end` has the stop reason the loop set (`replay/resume.py:104`) |
| `AgentLoop_compacted_tape.cfg`, `MCAgentLoop` | `TapeTellsHistory` | after a compaction the history on the tape is not the one the loop went on with (`replay/recording.py:67`) |
| `AgentLoop_split.cfg`, `MCAgentLoop` | `CompactionKeepsTurns` | an odd number of messages after the head makes compaction cut between a call and its results (`context/compact.py:69`) |
| `Replay_repeated.cfg`, `MCReplay` | `EveryStepHits` | after two compactions a run may make a request it has made before and be answered differently; the cache keeps the last answer (`record/cache.py:49`), so the replay takes another way and asks the model (against "every step is a hit", `record/cache.py:3`) |
| `Replay_world.cfg`, `MCReplay` | `ReplayTouchesNothing` | a replay dispatches write tools for real (`core/loop.py:257`) |
| `Lineage_crash.cfg`, `MCLineage` | `CrashCostsNoStep` | a process that dies in the middle of a line leaves a tape none of whose steps can be read: `json.loads` raises on the last line (`record/jsonl.py:98`), against "a crash must not cost the steps already paid for" (`record/jsonl.py:66`) |
| `Lineage_real.cfg`, `MCLineage` | `RestoredWritesAreReal` | a fork that restored is called faithful although the snapshot it found is older than the fork step and lacks a write of the prefix (`replay/fork.py:128`, against the comment at 126 and the report at 53-54); a fork at the end of a tape is always one step past the last snapshot. `cmd_fork` passes no snapshots, so this is about callers of `plan_fork` |
| `StreamTurn_payload.cfg`, `MCStreamTurn` | `PayloadsAreVerbatim` | a vendor payload comes back from the tape in canonical form (`record/jsonl.py:65`), not "verbatim" (`events.py:63`; `docs/reference/transcript-format.md:104`) |

One more passes: `Evaluation_calls.cfg` (`MCEvaluation`) has two tasks with the same file grader
and the same judge, one seed and four attempts, which are two whole calls on one directory, or
more of which some were cut off. The report of a second call is reached there, in workspaces
where the first did the task.

### Met while modelling

These have no configuration. The models have the behaviour of the code; the
properties are stated so that they hold of it.

* Turn and loop: the deltas of a tool call are shown again by a retry, since only text
  sets `emitted` (`core/loop.py:434`, against the docstring at 414); a summary is
  retried without the token (`core/loop.py:361`, against `core/retry.py:68`); a crash
  between a tool's effect and its record leaves a write the tape does not have
  (`WritesAreTold` allows for one, against `replay/resume.py:80`); a replay asks
  the human again (`core/loop.py:237`).
* Lineage: `resume --restore-from --dry-run` restores (`cli.py:244`, against
  `docs/reference/cli.md:63`); the same fork or resume given twice, two runs started at once,
  and `run --tape` with the name of a tape that is there write one tape (`cli.py:258`,
  `cli.py:30`, `cli.py:60`); a snapshot cut short by a crash is offered as the latest
  (`sandbox/snapshot.py:50`), and one taken while another process works may lack what that
  process removes; a line appended after a torn one is lost with it.
* Policy: grants of different argument lists collide when they render alike
  (`sandbox/permissions.py:113`; `tests/test_security.py:168` knows); a prefix takes an
  imported tool out of the rules on its name; the server applies no policy.
* MCP: the client compares no id and reads without a timeout (`mcp/client.py:80`); the
  server answers requests without an id (`mcp/server.py:72`); a name clash leaves
  the tools imported before it registered (`mcp/client.py:139`).
* Adapters: tool arguments that are JSON but no object break `render_arguments`
  (`sandbox/permissions.py:66`); `choices` may be empty (`providers/openai.py:263`); vendor
  payloads are kept on the tape and never sent back (`providers/openai.py:189`,
  against `events.py:64`); a stream drops them and makes no text of an empty one;
  no check of the battery looks at text beside calls, at the id under which a second call is
  answered, or at the truth of the vocabulary an adapter declares. The request a resumed run
  makes may be spelled otherwise than the first run's: texts in NFC, the keys of a call's arguments
  sorted (`record/canonical.py:30`, while `providers/openai.py:197` renders them in the order
  they have); the step key is the same.
* Children: a builder that raises, or the record on the parent's tape, is outside the
  try and takes the fan-out down (`agents/subagent.py:64`); children without a
  label, of two Spawners on one directory, are called alike, share a tape and are
  counted again for every link (`observe/trace.py:86`).
* Evaluation: a workspace is fresh only if the directory is (`eval/runner.py:76`,
  against its docstring); a factory or a judge that raises takes the suite down,
  where a run that raises is one failed attempt (`eval/runner.py:88`), and leaves what it wrote
  to the next call; of two
  judges only the last one's judgments are kept; a row is reliable if the mean of its
  agreements, each rounded to a hundredth, is 0.99 (`eval/report.py:36`, against its
  docstring), so that with three judgments a divided one no longer shows among 33 seeds:
  `JudgmentsAreOwn` says so by `FewSeeds`, which the default of five seeds meets.

### Bounds

Of the bounds only `MaxSteps` and (as `max_attempts`) `MaxAttempts` of `RetryTurn`
exist in the code. `MaxChunks`, `MaxSigints`, `MaxCrashes`, `MaxRequests`,
`MaxChatter`, `MaxNested`, `MaxDepth`, `MaxTrailing` and `MaxAttempts` of `Evaluation`
bound counters; they are in the guards of the actions that increase them. `Answers`,
`Summaries`, `Histories`, `Commands`, `Files`, `Calls`, `Plans`, `Suite`, `Responses` and
`Targets` are the inputs; `Forms` and `Hundredths` are functions of the code's (the canonical
form, `.2f`) of which the models know only what their assumptions say. Every action of the next-state relations fires in some
passing run. `CHECK_DEADLOCK` is off because every one of these programs ends.
Symmetry is not used: names, seeds and sessions are ordered in the code.

### Fairness

* `RetryTurn.PromptSpec`: weak fairness of the loop's own steps and of the
  provider, whose SDK bounds a request by a timeout. None of the back-off timer:
  `CancelFelt` therefore holds for a delay of any length, and `TurnEnds` names the
  timer as its condition.
* `CancelToken.Spec`: weak fairness of running threads, strong fairness of taking
  the Event's lock, whose critical sections are a few instructions. None of the
  sleep's timeout, of Ctrl-C or of another thread's decision to cancel.
* `AgentLoop.FairSpec`: weak fairness of the loop, none of cancellation. The loop
  is one thread; what it calls comes back. This is assumed of third-party tools
  and, with a policy, of the human, who is not given a timeout.
* The other modules state no liveness. An MCP call need not end, since a read has no
  timeout; commands, suites and fan-outs end if their runs do, which is `RunEnds`.

## 4. What is proved

TLAPS checks these for every value of the constants, under the assumptions the
modules name, which only give the constants their types (writers are registered,
registered tools are tools, answers are responses, a run starts from a non-empty
history, a rule file has its three lists, a plan is a list of labels, texts are
sequences and a function call of a response has an id and a name, as the SDK's types
have it), and three more: `SuiteAssumption`, no two tasks of a suite have one id;
`NearestAssumption`, an agreement is shown to a nearest hundredth; `FormsAssumption`, a
canonical form is its own, and an empty text and no text are canonical and nothing else's
canonical form. Where a theorem needs more, it
says so after `ASSUME`; those conditions are named and explained below.

Recursion does not stand in the way where it is a recursive *function*:
`AgentLoopProofs` shows that the recursion of `Only` has a solution and what it is on a tape with one
record more (`SetInduction` is the induction over a set of naturals that the library
offers for a predicate), and from there on a tape is only ever seen to grow. Where
a count matters the models count positions, sets whose size changes by one.

### The turn: `RetryTurnProofs`

* `TypeCorrect`, with `Typed == TypeOK /\ HandInv`. `TypeOK` alone is not inductive:
  `Deliver` takes the last fragment of an accumulator, so one has to know that
  the event in hand came from a chunk that was accumulated first, and `DelayOver`
  increases `attempt`, so one has to know that a back-off is never slept after
  the last attempt.
* `ShownIsReturnedHolds`, from `TextInv`: within an attempt what was shown is what
  was accumulated, but for the chunk in hand, and before the first text of an
  attempt nothing had been shown at all - because an attempt that showed text is
  never followed by another.
* `AtMostOneLateHolds`, from `LateInv`: once something has left late, the code is at
  a place from which it can only reach a token check.
* `KeepsPromiseHolds`: the refinement of `Turn`, action by action.

### The loop in memory: `AgentLoopProofs`

* `TypeCorrect`, whose `Typed` includes that a batch never outgrows the calls it
  answers, without which `Call` would be an index out of range; compaction needs
  lemmas about slices.
* `RequestsSendableHolds`: without a budget, and from histories that could be sent
  as they stand (`Uncompacted`), every request pairs its calls with their results,
  whatever the model, the tools and the human do. The invariant `TalkInv` says what the
  history is at each place: dangling while its calls are being answered, sendable
  elsewhere.
* `CompactedRequestsSendable` and `CompactionKeepsTurnsHolds`: the same with a budget,
  and that a compaction cuts between turns, if `WholeTurns`: `keep_recent` is even
  (it is 6 where nobody says otherwise, and 2 in *loop_compact*) and the starting
  history is a system prompt, a task, and whole turns. `CutInv` counts places from the
  end: results are at even ones between turns and at odd ones while a call is being
  answered, so that an even number of kept messages begins with a turn. Neither part can
  be dropped: after a nudge the places are odd, and `AgentLoop_split.cfg` shows the cut
  through a turn that `resume` then leads to; *loop_dead* shows an unsendable start.
* `AtMostOneLateTurnHolds` and `NothingRunsUnlicensedHolds`, from one small invariant
  each: a late turn is followed by a token check; a call being dispatched under a policy was
  allowed by the last record.

### The loop on its tape: `AgentLoopProofs`

* `TapeTellsHistoryHolds`, without a budget (`AgentLoop_compacted_tape.cfg` is what happens
  with one): `ToldInv` says that what `Recording.load` makes of the tape is the initial
  messages logged so far while they are being logged, and `messages` ever after.
* `CancelLeavesWholeHolds`, if `Uncompacted`: a run told to stop has answered all its
  calls. `WholeInv` adds to `TalkInv` that a loop which noticed the cancellation is past
  its last batch; the tape then has the same history by `ToldInv`.
* `TellsConversationHolds`: the refinement of `Conversation`, each step of the loop
  being a `Prompt`, a `Say`, an `Answer` or a `Report`, or nothing to a reader. `Talks` asks
  of a starting history that its system message comes first and no answer does
  (`OpensInv` carries that through the log, where messages go out one at a time).
* `StopIsToldHolds`, of every configuration: `StopInv` relates `broke`, `stop` and the
  place in the loop to which of `cancelled` and `run_end` are on the tape and to the last
  step on it - the three things `plan_resume` looks at.
* `TapeIsOneRunHolds`, of every configuration, from four invariants in turn: records are
  in the order of their steps (`Ordered`), the end is at the end (`Ends`), and a batch has
  one `tool_result` for every result (`Batches`), for which the steps' numbers must
  tell the batches apart.
* `WritesAreToldHolds` and `SnapshotMatchesTapeHolds`, of every configuration, from
  `WorldInv`: the workspace's version is at most the effective writes on the tape and
  one owed, which only a call that has run and is not recorded yet can owe; a snapshot is
  at most those before its step and the workspace at most the snapshot and those
  after. `Placed` says when a snapshot may be of the step at hand. Both are upper bounds
  because a tool may fail before it writes.
* `TaskIsKeptHolds`, if `Tasked`: a starting history begins with a system prompt and a
  task, as `run` and a tape of it give. Any number of compactions, any summaries.

### A run and its replay: `AgentLoopProofs`

* `ReplayRepeatsHolds` and `ReplayIsFreeHolds`: a replay writes its recording again, record
  by record, and asks the model nothing as long as the recording lasts - however the
  recording was stopped, however long it is, through any number of compactions. They hold if
  the rest of what a run depends on is there again (`Repeatable`): the workspace is put
  back, registered tools do not fail at random, and the policy asks no human, since the verdicts
  on the tape are not read. `replay_tape` has these values. Without the first, the results
  of reads are other results, and so are the keys of the requests that follow. `KeysTell`,
  in the properties themselves, excludes the recordings of `Replay_repeated.cfg`.
* The argument: what the loop does next is a function, `After`, of a part of its state and of
  the response if it asks for one. A recording leaves a `Path` behind: the states it went
  through up to the last, each with a successor among them, and the response that led to
  it on the tape. `RecordingInv` says that the tape is the last state's, but for the records
  of an end. In a replay (`Follows`), a state of the path that is not the last has its
  successor: at a request the cache has the response on the tape (`CacheServes`), elsewhere
  none is needed. So the replay stays on the path until it is stopped, or leaves it at
  its last state - where a run that came to its end has nothing more to ask.
* One lemma per action (`StartMoves` to `SpliceMoves`) shows that it is a step along `After`;
  no lemma is about the two runs at once.

### Commands and their tapes: `LineageProofs`

For any number of commands, of any kind, in any order or at once, and any number of
deaths; what `LineageAssumption` asks is that the commands are what the command line
accepts and that they are finitely many, from which there is always a name for the next run
and a session has a place among its tape's writers. The invariants, each on top of those
before it:

* `Typed` and `Filed` (`LineageTyped`): every tape has a writer, a session in its loop has
  its tape open, and whoever has one open gave it its name.
* `TapesTell`, from which `TapesReadBack`: a tape with one writer has one line per number that
  was given out, all but the last ended; after a death one more, or an open end. It has to
  say what a file is between `open` and the first flush: empty, and owed a header.
* `Naming` (a name is what the command and its source make it, and a second run of one
  number was begun beside the first), `Counted` and `StartsOnce` (one writer, at most one
  `run_start`), from which `SharedTapesAreNamesakes`: two `run_start`s need two writers,
  of whom one was told the name by `--tape`, or whose equal names have equal sources.
* `Spoken`, `Paced` and `Accounted`, from which `Owns` and `ForksOwnUp`: on a run's own tape the
  answer of a write comes after the record of the write, which is of an earlier step than the
  message is cut at; so a history with the answer comes with a step `writes_before` finds.
* `Heard` (the tape's history is the session's, as far as it got), `Requested` (the key of the
  n-th step is what `history_before` gives for n), `Chained` (between two requests there is the
  response and its answer), `Keyed` (requests get longer, so no key is on a tape twice, and a
  cached one was answered from the cache) and `Forked` (a fork begins with its source's
  request, and the source is over), from which `ForksRepeatTheRest`: as long as no read
  differs, equal requests get equal responses, whose next requests are equal.
  `Keyed` is why a run of `Lineage`, which never compacts, has none of the trouble
  of `Replay_repeated.cfg`.
* `Fresh` (no id is anywhere before it is given out), `Dated` (a write's id has the step
  it was asked in; a snapshot's record comes before the step), `Sooner` (a restored snapshot
  is not newer than the step asked for), `Exact` and `Alone`, from which `RestoresAreExact`.
  `Exact` is about a pair that is `Apart`: one process that takes snapshots and one that is to
  restore them, with any number of others that only write. Until the second one starts, the
  workspace has every write recorded (`InWorld`), and of a snapshot being taken what is neither
  copied nor listed is no write of the run (`Takes`); a snapshot recorded has those before its step
  and no others (`SnapHas`), and what a restore has copied and what it still has to copy make
  up the snapshot (`Restores`). `Alone`: a command that may not run beside others is the only
  one at work, so that the workspace holds what it copied. The property counts the
  writes the tape's own run asked for: a fork repeats responses from its cache, and a
  workspace that was not restored may have those writes from the start.

### Policy and remote tools: `ToolGateProofs`

* `DeniedNeverRunsHolds`: a call on its way - allowed, in a pipe, or run - matches no
  deny entry of the file. It takes that `Loaded` puts the deny entries first, that
  `Deciding` is the first rule that matches, and that a question is only asked
  where no deny rule decides.
* `AskedRunsAgreedHolds`: the verdict on a call is the same at every moment
  (the policy never changes, and the registry only during the handshake, before
  anything has run or is in the pipe: `Quiet`), and a grant is there because a human
  said yes to that tool and that rendered text.
* `AnswersLagByChatterHolds`. The two pipes are read as one queue, answers in front of
  requests. `Chain` says that the ids in it rise and have no gap above
  `lo = next_id - chatter - Waiting`, the request the host is behind at; `Open` adds
  that all of them up to the last request are there while the server lives, which
  makes the next answer that is not a notification the one to `lo` (`FirstIsLo`). One
  lemma per thing that can happen to the queue (read, sent, served, chattered,
  dropped by a server that dies) precedes one per group of actions. That the host has
  all of the tools comes from the same fact at the last answer of the handshake. Neither
  the number of calls nor of unasked lines is bounded, and what a server's names
  become is arbitrary.

### Children: `FanOutProofs`

* `FailureIsLocalHolds`: for every plan, whatever the labels and however deep the
  children go, `results` has one entry for each task begun, in order and under its own
  label, and the script's tape is those entries and nothing else as long as no child
  was given that tape's name. `Placed` is the stack: the script at the bottom, above it
  the child of the task handed out last, under its label if it has one; a grandchild
  writes to the tapes above the bottom only.
* `TokensCountOnceHolds`: while every child has a name of its own, what the traces of
  the runs under way add up to is what was paid. The invariant (`Tree`, `Paid`) gives
  every tape a level, its run's place on the stack when it was begun, and a cost, such
  that a tape links only to tapes one level up that are not under way any more, and
  costs what its records say if a link costs what the linked tape does. A turn adds one to
  the cost on top; an outcome moves the cost on top to the one below, so that
  the sum over the stack stays what was spent (`Merged`). `OneTotal` is the induction
  `build_trace` goes through: from the leaves down, level by level, a trace adds up to
  that cost and nothing else. Condition (`Shallow`): no stack has more than nine runs,
  the script's included. `build_trace` reads nothing below that (`_depth > 8`,
  `observe/trace.py:68`), so a token paid deeper is in no trace.

### Evaluation: `EvaluationProofs`

* `PassIsEarnedHolds`. The invariant says of every workspace that whoever did the task
  in it is an attempt on the list with the same task and seed, or the attempt
  being graded (`RoomsTrue`); of the graders of the task at hand that they look
  into its workspace and remember its setup (`BoundRight`), however they were left by
  other tasks; and of the grades given so far that they still hold (`GradesTrue`).
  That ids are distinct is used to get from an attempt's id to its task's graders.
* `JudgmentsAreOwnHolds`. `Heard`: a judge that has been asked in this attempt has K
  judgments of it, and the last one's majority is its grade - also where one judge is
  listed twice and overwrites itself. `Tour`: until it is cut off, the attempts of this call are the pairs of
  task and seed gone through so far, each once, so that a row has `Repeats` of them.
  `DividedShows` is the arithmetic of the mean: one divided judgment lacks more
  hundredths than a row of that many seeds is forgiven.

### A turn on the wire and on the tape: `StreamTurnProofs`

* `StreamSaysTheSameHolds`, of every response - any number of calls, of any length - and
  every way to cut it. The invariant (`Brought`) is the state of the client as a function
  of how much has been sent: the text's beginning, and under each index that has been
  opened the beginning of that call's arguments (`Collected`). A delta that carries what comes
  next of one call leads from one such state to the next whatever came in between
  (`FragmentAdds`); at the end everything has been sent, and sorting the slots that have an
  id and a name gives the calls `_parse` makes (`CallsAssemble`). Once a reason to stop is
  there, later chunks without one leave it (`EmptyBrings`).
* `TapeCarriesTheTurnHolds`, of every response, every adapter, right or wrong, and every
  canonical form. Keys that say nothing are left out of a record and come back as their
  defaults (`FieldsBack`, `UsageBack`, `ResultBack`), which takes that an empty text and no
  text stay what they are. Results come back sorted by the places of their calls, and what is
  sorted is not moved by sorting again (`OrderedStays`, of results whose calls may share
  an id). A canonical form has itself as its canonical form, so that the key made from what was
  read is the same, while the request is the one the canonical history would give
  (`SameRequests`).
* Neither is about a stream that breaks off, which is the matter of `RetryTurn`. A chunk with
  fragments of two calls is, to the client, two chunks.

### Only model-checked

* Liveness (`CancelFelt`, `TurnEnds`, `WaitIsWoken`, `RunEnds`) and `FeltUnlessHeld`,
  which is temporal too: out of the prover's reach.
* `TapeTellsHistory` and `RequestsSendable` with a budget from any history: they do not hold
  there, see the two configurations.
* `BatteryTells`: it is about the habits listed in `MCStreamTurn`, each of which TLC tries on
  the messages of the battery. Of any habit at all it does not hold (`BatteryHasGaps`).
* `CancelToken`: both of its properties are about what must happen.

## 5. What is not modelled

Schema generation from signatures and docstrings (`tools/registry.py`), what the
canonical form is and refuses (`record/canonical.py`: NFC, numbers, sets; the models know it as a
map, `Forms`) and the hash over it, the subprocess and docker command lines,
prices, spans and the viewer, report layout, task texts, argument parsing and
`ScriptedClient`: data, or pure input and output, with no state a later step
depends on. Anthropic's adapter is signatures only and has nothing to model. What a
timeout leaves running (`sandbox/subprocess.py:35` kills the shell, `docker.py:107`
the docker client, neither what they started) is the operating system's, and no
model here has tools that outlive their call. `src/m0/` is an earlier loop that nothing
imports.

## 6. Plan

Done: the turn, the token, the loop with its tape, the replay; then the tape as a file,
forks, resumes and snapshots, the policy with the MCP bridge, fan-outs and their
traces, the evaluation, the wire and the conformance battery. Each component in the
first table that keeps state is modelled.

What is left, most useful first:

1. Operators: the numbers and values the canonical form refuses, and what a refusal in the
   middle of a step leaves on the tape; schemas against the calls `ToolSpec.call` accepts; `render_partial`.
2. A tool that outlives its timeout, as one more actor on the workspace of `AgentLoop`:
   which of `SnapshotMatchesTape` and `WritesAreTold` still holds.
