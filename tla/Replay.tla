-------------------------------- MODULE Replay --------------------------------
(***************************************************************************)
(* A run is recorded, and then the same task is run again by an agent      *)
(* whose cache is that tape: StepCache.from_tape (record/cache.py) into    *)
(* Agent.cache (core/loop.py). The replay is the same loop; only its       *)
(* cache, its session and possibly its workspace are new.                  *)
(***************************************************************************)
EXTENDS AgentLoop

CONSTANT Rewound   \* the workspace is put back to where the recording began

ASSUME RewoundIsBoolean == Rewound \in BOOLEAN

Replaying == agent.source # <<>>

\* A new process: the old tape is only read, the new one starts empty.
StartReplay ==
  /\ ~Replaying /\ pc \in Terminal /\ StepsOf(tape) # <<>>
  /\ agent' = [agent EXCEPT !.source = tape, !.cache = CacheOf(tape)]
  /\ messages' = SubSeq(HistoryOf(tape), 1, logged)
  /\ world' = IF Rewound THEN 0 ELSE world
  /\ pc' = "start" /\ step' = 0 /\ logged' = 0 /\ tape' = <<>>
  /\ stop' = "other" /\ broke' = FALSE
  /\ response' = NoResponse /\ batch' = <<>> /\ content' = NoContent
  /\ token' = FALSE /\ grants' = {}
  /\ snaps' = [s \in {} |-> 0]
  /\ live' = 0 /\ late' = 0

RNext == Next \/ StartReplay

RSpec == Init /\ [][RNext]_vars

-----------------------------------------------------------------------------
(* Properties *)

IsPrefixOf(s, t) == Len(s) <= Len(t) /\ s = SubSeq(t, 1, Len(s))

\* A tape without the records that only say how its run ended.
Body(t) == Only(t, {i \in 1..Len(t) : t[i].kind \notin {"cancelled", "run_end"}})

\* No request on a tape was made again and answered differently. Without a compaction
\* that is so, since a conversation only grows; after one it may come back to where it was.
KeysTell(t) ==
  \A i, j \in Places(t, {"step"}) : t[i].key = t[j].key => t[i].response = t[j].response

\* As long as the recording lasts, and if its keys tell its responses apart, the replay
\* writes the recording again, record by record, and asks the model nothing; only beyond
\* its end is anything new (cache.py:40-58, loop.py:198-225).
ReplayRepeats ==
  Replaying /\ KeysTell(agent.source) =>
    \/ IsPrefixOf(Body(agent.source), Body(tape))
    \/ IsPrefixOf(Body(tape), Body(agent.source)) /\ live = 0

\* A run the model brought to its end replays without a single call to the model.
Ended(t) == t[Len(t)].kind = "run_end" /\ ~t[Len(t)].cancelled
ReplayIsFree ==
  Replaying /\ KeysTell(agent.source) /\ Ended(agent.source) => live = 0

\* "Re-running the same agent produces the same keys, so every step is a hit and nothing
\* is paid for" (record/cache.py:3-5).
EveryStepHits == Replaying /\ Ended(agent.source) => live = 0

\* "serve cached results for `write` tools without touching the world"
\* (docs/explanation/replay-vs-resume.md): a replay leaves the workspace alone.
ReplayTouchesNothing == [][Replaying => UNCHANGED world]_vars

=============================================================================
