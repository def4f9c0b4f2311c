---------------------------- MODULE AgentLoopProofs ----------------------------
(***************************************************************************)
(* Theorems about AgentLoop and Replay, for every model, registry, policy, *)
(* budget, ceiling and starting history the assumptions of the modules     *)
(* admit: first about what the loop has in memory, then about what it      *)
(* leaves on its tape, then about a replay, which is the recording again,  *)
(* for free.                                                               *)
(*                                                                         *)
(* What the loop does next is a function of the part of its state that the *)
(* rest of the tape depends on, and of the response it gets. So a run has  *)
(* a path: the states it went through, and the responses. A replay goes    *)
(* along the path of its recording until it is stopped or comes to its     *)
(* end, since at each request its cache has the response the path had.     *)
(***************************************************************************)
EXTENDS AgentLoopProps, Replay, FiniteSets, FiniteSetTheorems, SequenceTheorems,
        WellFoundedInduction, TLAPS

-----------------------------------------------------------------------------
(* The assumptions on the constants, one lemma for each use *)

LEMMA Bounds == MaxSteps \in Nat /\ KeepRecent \in Nat
  BY AgentLoopAssumption

LEMMA HistoriesTyped ==
  ASSUME NEW h \in Histories
  PROVE  h.messages \in Seq(Messages) /\ h.messages # <<>> /\ h.resumed \in BOOLEAN
  BY AgentLoopAssumption

LEMMA OffersTyped == Answers \subseteq Responses /\ Summaries \subseteq Responses
  BY AgentLoopAssumption

-----------------------------------------------------------------------------
(* Messages, responses, records *)

LEMMA AppendFacts ==
  ASSUME NEW S, NEW s \in Seq(S), NEW e \in S
  PROVE  /\ Append(s, e) \in Seq(S)
         /\ Append(s, e) # <<>>
         /\ Len(Append(s, e)) = Len(s) + 1
         /\ \A i \in 1..Len(s) : Append(s, e)[i] = s[i]
         /\ Append(s, e)[Len(s) + 1] = e
  <1>1. Len(Append(s, e)) = Len(s) + 1 /\ Len(s) \in Nat
    BY AppendProperties, LenProperties
  <1>2. Append(s, e) # <<>>
    BY <1>1, EmptySeq
  <1>3. QED
    BY <1>1, <1>2, AppendProperties

LEMMA ResponseParts ==
  ASSUME NEW r \in Responses
  PROVE  /\ r.msg \in Messages /\ r.msg.role = "assistant"
         /\ r.msg.text \in Texts /\ r.msg.calls \in Seq(Tools)
         /\ r.stop \in StopReasons
  BY DEF Responses, Messages

LEMMA MessagesTyped ==
  /\ \A b \in Seq(Contents) : Results(b) \in Messages
  /\ \A t \in Texts : User(t) \in Messages
  <1>1. <<>> \in Seq(Tools) /\ <<>> \in Seq(Contents)
    BY EmptySeq
  <1>2. QED
    BY <1>1, AgentLoopAssumption DEF Results, User, Message, Messages

LEMMA NoResponseTyped == NoResponse \in Responses
  <1>1. <<>> \in Seq(Tools) /\ <<>> \in Seq(Contents)
    BY EmptySeq
  <1>2. QED
    BY <1>1, AgentLoopAssumption DEF NoResponse, Response, Assistant, Message, Messages,
                Responses, StopReasons

LEMMA ContentsTyped ==
  \A w \in {"output", "error", "denied", "nothing"}, n \in Nat, b \in BOOLEAN :
    [what |-> w, seen |-> n, cut |-> b] \in Contents
  BY DEF Contents

\* Every record the loop appends is a record.
LEMMA RecordsTyped ==
  /\ \A b \in BOOLEAN : RunStart(b) \in Records
  /\ \A s \in Nat, m \in Messages : MessageRec(s, m) \in Records
  /\ \A s \in Nat, k \in Keys, r \in Responses : StepRec(s, k, r) \in Records
  /\ \A s \in Nat : SnapshotRec(s) \in Records /\ CancelledRec(s) \in Records
  /\ \A s \in Nat, t \in Tools, v \in Verdicts : PermissionRec(s, t, v) \in Records
  /\ \A s \in Nat, t \in Tools : TruncatedRec(s, t) \in Records
  /\ \A s \in Nat, t \in Tools, e \in {"read", "write"}, b \in BOOLEAN :
       ToolRec(s, t, e, b) \in Records
  /\ \A s \in Nat, n \in Nat : CompactionRec(s, n) \in Records
  /\ \A s \in Nat, r \in StopReasons, b \in BOOLEAN : RunEnd(s, r, b) \in Records
  <1>1. \A b \in BOOLEAN : RunStart(b) \in Records
    BY DEF Records, RunStart
  <1>2. \A s \in Nat, m \in Messages : MessageRec(s, m) \in Records
    BY DEF Records, MessageRec
  <1>3. \A s \in Nat, k \in Keys, r \in Responses : StepRec(s, k, r) \in Records
    BY DEF Records, StepRec
  <1>4. \A s \in Nat : SnapshotRec(s) \in Records /\ CancelledRec(s) \in Records
    BY DEF Records, SnapshotRec, CancelledRec
  <1>5. \A s \in Nat, t \in Tools, v \in Verdicts : PermissionRec(s, t, v) \in Records
    BY DEF Records, PermissionRec
  <1>6. \A s \in Nat, t \in Tools : TruncatedRec(s, t) \in Records
    BY DEF Records, TruncatedRec
  <1>7. \A s \in Nat, t \in Tools, e \in {"read", "write"}, b \in BOOLEAN :
          ToolRec(s, t, e, b) \in Records
    BY DEF Records, ToolRec
  <1>8. \A s \in Nat, n \in Nat : CompactionRec(s, n) \in Records
    BY DEF Records, CompactionRec
  <1>9. \A s \in Nat, r \in StopReasons, b \in BOOLEAN : RunEnd(s, r, b) \in Records
    BY DEF Records, RunEnd
  <1>10. QED
    BY <1>1, <1>2, <1>3, <1>4, <1>5, <1>6, <1>7, <1>8, <1>9

-----------------------------------------------------------------------------
(* Compaction *)

LEMMA SubSeqFacts ==
  ASSUME NEW S, NEW s \in Seq(S), NEW m \in Nat \ {0}, NEW n \in 0..Len(s)
  PROVE  /\ SubSeq(s, m, n) \in Seq(S)
         /\ Len(SubSeq(s, m, n)) = IF m <= n THEN n - m + 1 ELSE 0
  <1>1. Len(s) \in Nat
    BY LenProperties
  <1>2. \A i \in m..n : s[i] \in S
    BY <1>1, ElementOfSeq
  <1>3. m \in Int /\ n \in Int
    BY <1>1
  <1>4. QED
    BY <1>2, <1>3, SubSeqProperties

\* plan_compaction cuts a history into a head, a middle and a tail, in this order.
LEMMA SlicesInOrder ==
  ASSUME NEW ms \in Seq(Messages)
  PROVE  /\ HeadLength(ms) \in 0..Len(ms)
         /\ TailStart(ms) \in HeadLength(ms)..Len(ms)
         /\ Replaced(ms) \in Nat
  <1> DEFINE sys == IF ms # <<>> /\ ms[1].role = "system" THEN 1 ELSE 0
  <1>1. Len(ms) \in Nat /\ (ms # <<>> => Len(ms) # 0)
    BY EmptySeq, LenProperties
  <1>2. sys \in 0..Len(ms)
    BY <1>1
  <1>3. HeadLength(ms) = sys \/ (HeadLength(ms) = sys + 1 /\ Len(ms) > sys)
    BY DEF HeadLength
  <1> HIDE DEF sys
  <1>4. HeadLength(ms) \in 0..Len(ms)
    BY <1>1, <1>2, <1>3
  <1>5. KeepRecent \in Nat
    BY Bounds
  <1>6. TailStart(ms) \in HeadLength(ms)..Len(ms)
    BY <1>1, <1>4, <1>5 DEF TailStart
  <1>7. QED
    BY <1>1, <1>4, <1>6 DEF Replaced

LEMMA SliceTyped ==
  ASSUME NEW ms \in Seq(Messages)
  PROVE  Slice(ms) \in Seq(Messages)
  <1>1. HeadLength(ms) \in Nat /\ TailStart(ms) \in 0..Len(ms) /\ Len(ms) \in Nat
    BY SlicesInOrder, LenProperties
  <1>2. QED
    BY <1>1, SubSeqFacts DEF Slice

\* What apply_compaction makes of a history is a history.
LEMMA CompactionTyped ==
  ASSUME NEW ms \in Seq(Messages), NEW t \in Texts
  PROVE  Compacted(ms, t) \in Seq(Messages) /\ Compacted(ms, t) # <<>>
  <1> DEFINE head == SubSeq(ms, 1, HeadLength(ms))
             new  == <<User(t)>>
             tail == SubSeq(ms, TailStart(ms) + 1, Len(ms))
  <1>1. /\ Len(ms) \in Nat /\ HeadLength(ms) \in 0..Len(ms)
        /\ TailStart(ms) \in 0..Len(ms)
    BY SlicesInOrder, LenProperties
  <1>2. head \in Seq(Messages)
    BY <1>1, SubSeqFacts
  <1>3. tail \in Seq(Messages)
    BY <1>1, SubSeqFacts
  <1>4. new \in Seq(Messages) /\ Len(new) = 1
    <2>1. User(t) \in Messages
      BY MessagesTyped
    <2>2. QED
      BY <2>1
  <1>5. Compacted(ms, t) = (head \o new) \o tail
    BY DEF Compacted
  <1> HIDE DEF head, new, tail
  <1>6. head \o new \in Seq(Messages) /\ Len(head \o new) = Len(head) + 1
    <2>1. head \o new \in Seq(Messages) /\ Len(head \o new) = Len(head) + Len(new)
      BY <1>2, <1>4, ConcatProperties
    <2>2. QED
      BY <1>4, <2>1
  <1>7. /\ (head \o new) \o tail \in Seq(Messages)
        /\ Len((head \o new) \o tail) = Len(head) + 1 + Len(tail)
    <2> DEFINE front == head \o new
    <2>1. front \in Seq(Messages) /\ Len(front) = Len(head) + 1
      BY <1>6
    <2> HIDE DEF front
    <2>2. front \o tail \in Seq(Messages) /\ Len(front \o tail) = Len(front) + Len(tail)
      BY <1>3, <2>1, ConcatProperties
    <2>3. QED
      BY <2>1, <2>2 DEF front
  <1>8. Len(head) \in Nat /\ Len(tail) \in Nat
    BY <1>2, <1>3, LenProperties
  <1>9. (head \o new) \o tail # <<>>
    BY <1>7, <1>8, EmptySeq
  <1>10. QED
    BY <1>5, <1>7, <1>9

-----------------------------------------------------------------------------
(* Type correctness *)

InStep == {"check", "lookup", "turn", "decide", "dispatch", "fit", "result", "batch",
           "compact", "summarise", "splice"}

\* Inside the for loop the loop variable is below max_steps, so that the step after
\* it is still a legal value.
Typed == /\ TypeOK
         /\ pc \in InStep => step < MaxSteps
         /\ pc = "start" => logged = 0

LEMMA TypedInit == Init => Typed
  <1> SUFFICES ASSUME Init
               PROVE  Typed
    OBVIOUS
  <1>1. /\ messages \in Seq(Messages) /\ messages # <<>>
        /\ agent.config \in Configs /\ agent.resumed \in BOOLEAN
        /\ agent.cache = NoCache
    <2>1. PICK c \in Configs, h \in Histories :
            /\ agent = [config |-> c, source |-> <<>>, cache |-> NoCache,
                      resumed |-> h.resumed]
            /\ messages = h.messages
      BY DEF Init
    <2>2. QED
      BY <2>1, HistoriesTyped
  <1>2. <<>> \in Seq(Records) /\ <<>> \in Seq(Contents)
    BY EmptySeq
  <1>3. response \in Responses
    BY NoResponseTyped DEF Init
  <1>4. content \in Contents
    BY DEF Init, NoContent, Contents
  <1>5. MaxSteps \in Nat
    BY Bounds
  <1>6. \A k \in DOMAIN agent.cache : agent.cache[k] \in Responses
    BY <1>1 DEF NoCache
  <1>7. DOMAIN snaps = {}
    BY DEF Init
  <1>8. /\ pc = "start" /\ step \in 0..MaxSteps /\ logged = 0
        /\ stop \in StopReasons /\ broke \in BOOLEAN /\ token \in BOOLEAN
        /\ world \in Nat /\ live \in Nat /\ late \in Nat
        /\ tape \in Seq(Records) /\ batch \in Seq(Contents) /\ grants = {}
    <2>1. pc = "start" /\ step \in 0..MaxSteps /\ logged = 0
      BY <1>5 DEF Init
    <2>2. stop \in StopReasons /\ broke \in BOOLEAN /\ token \in BOOLEAN
      BY DEF Init, StopReasons
    <2>3. world \in Nat /\ live \in Nat /\ late \in Nat
      BY DEF Init
    <2>4. tape \in Seq(Records) /\ batch \in Seq(Contents) /\ grants = {}
      BY <1>2 DEF Init
    <2>5. QED
      BY <2>1, <2>2, <2>3, <2>4
  <1>9. pc \in PCs /\ ~InBatch /\ pc \notin InStep
    BY <1>8 DEF PCs, InBatch, InStep
  <1>10. QED
    BY <1>1, <1>3, <1>4, <1>6, <1>7, <1>8, <1>9 DEF Typed, TypeOK

LEMMA TapeGrows ==
  ASSUME TypeOK, NEW r \in Records, Put(r)
  PROVE  tape' \in Seq(Records)
  BY AppendFacts DEF TypeOK, Put

LEMMA KeysTyped ==
  ASSUME TypeOK
  PROVE  Key \in Keys /\ SummaryKey \in Keys
  <1>1. Slice(messages) \in Seq(Messages)
    BY SliceTyped DEF TypeOK
  <1>2. QED
    BY <1>1 DEF TypeOK, Key, SummaryKey, TurnKey, CompactionKey, Keys

LEMMA CallTyped ==
  ASSUME TypeOK, InBatch
  PROVE  Call \in Tools
  <1>1. response.msg.calls \in Seq(Tools)
    BY ResponseParts DEF TypeOK
  <1>2. Len(batch) + 1 \in 1..Len(response.msg.calls)
    BY <1>1, LenProperties DEF TypeOK
  <1>3. QED
    BY <1>1, <1>2, ElementOfSeq DEF Call

\* A turn, from the cache or from the model.
LEMMA AnsweredTyped ==
  ASSUME Typed, pc \in {"lookup", "turn"}, NEW r \in Responses, Answered(r), live' \in Nat
  PROVE  Typed'
  <1>1. r.msg \in Messages /\ r.stop \in StopReasons /\ r.msg.calls \in Seq(Tools)
    BY ResponseParts
  <1>2. messages' \in Seq(Messages) /\ messages' # <<>>
        /\ Len(messages') = Len(messages) + 1
    BY <1>1, AppendFacts DEF Answered, Typed, TypeOK
  <1>3. step \in Nat
    BY Bounds DEF Typed, TypeOK
  <1>4. StepRec(step, Key, r) \in Records
    BY <1>3, KeysTyped, RecordsTyped DEF Typed
  <1>5. tape' \in Seq(Records)
    BY <1>4, TapeGrows DEF Answered, Typed
  <1>6. batch' = <<>> /\ batch' \in Seq(Contents) /\ Len(batch') = 0
    BY EmptySeq DEF Answered
  <1>7. r.msg.calls # <<>> => Len(r.msg.calls) > 0
    BY <1>1, EmptySeq
  <1>8. late' \in Nat
    BY DEF Answered, Typed, TypeOK
  <1>9. InBatch' => Len(batch') < Len(response'.msg.calls)
    BY <1>6, <1>7 DEF InBatch, Answered, WantsTools
  <1>10. pc' \in {"decide", "end"} /\ response' = r
    BY DEF Answered
  <1>11. UNCHANGED <<agent, logged, step, broke, content, token, grants, world, snaps>>
         /\ stop' = r.stop
    BY DEF Answered, built, outside
  <1>12. QED
    BY <1>1, <1>2, <1>5, <1>6, <1>8, <1>9, <1>10, <1>11 DEF Typed, TypeOK, PCs, InStep

\* A summary, from the cache or from the model.
LEMMA SummarisedTyped ==
  ASSUME Typed, pc \in {"compact", "summarise"}, NEW r \in Responses, Summarised(r),
         live' \in Nat
  PROVE  Typed'
  <1>1. step \in Nat /\ step < MaxSteps /\ MaxSteps \in Nat
    BY Bounds DEF Typed, TypeOK, InStep
  <1>2. StepRec(step, SummaryKey, r) \in Records
    BY <1>1, KeysTyped, RecordsTyped DEF Typed
  <1>3. tape' \in Seq(Records)
    BY <1>2, TapeGrows DEF Summarised, Typed
  <1>4. step' \in 0..MaxSteps /\ (pc' \in InStep => step' < MaxSteps)
    <2>1. (pc' = "top" /\ step' = step + 1) \/ (pc' = "splice" /\ step' = step)
      BY DEF Summarised
    <2>2. QED
      BY <1>1, <2>1 DEF InStep
  <1>5. pc' \in {"top", "splice"} /\ response' = r
    BY DEF Summarised
  <1>6. UNCHANGED <<agent, logged, messages, stop, broke, batch, content, token, grants,
                    world, snaps, late>>
    BY DEF Summarised, built, outside
  <1>7. QED
    BY <1>3, <1>4, <1>5, <1>6 DEF Typed, TypeOK, PCs, InBatch

\* The steps of one call leave the conversation and the response alone.
LEMMA CallStepsTyped ==
  Typed /\ (Decide \/ NoPolicy \/ Dispatch \/ Fit \/ RecordResult) => Typed'
  <1> SUFFICES ASSUME Typed, Decide \/ NoPolicy \/ Dispatch \/ Fit \/ RecordResult
               PROVE  Typed'
    OBVIOUS
  <1> USE DEF Typed, TypeOK
  <1>1. InBatch /\ pc \in InStep
    BY DEF Decide, NoPolicy, Dispatch, Fit, RecordResult, InBatch, InStep
  <1>2. Call \in Tools /\ step \in Nat
    BY <1>1, CallTyped, Bounds
  <1>3. UNCHANGED <<agent, logged, step, stop, broke, messages, response, token, snaps,
                    live, late>>
    BY DEF Decide, NoPolicy, Dispatch, Fit, RecordResult, built, flow, talk, outside, counts
  <1>4. CASE Decide
    <2>1. PICK verdict \in Verdicts :
            NextCall(verdict) /\ (grants' = grants \/ (grants' = grants \cup {Call} /\ Call \in Asking))
      BY <1>4 DEF Decide, Verdicts
    <2>2. PermissionRec(step, Call, verdict) \in Records
      BY <1>2, RecordsTyped
    <2>3. tape' \in Seq(Records)
      BY <2>1, <2>2, TapeGrows DEF NextCall
    <2>4. content' \in Contents /\ pc' \in {"dispatch", "fit"}
      <3>1. \/ content' = content
            \/ content' = [what |-> "denied", seen |-> 0, cut |-> FALSE]
        BY <2>1 DEF NextCall
      <3>2. QED
        BY <2>1, <3>1, ContentsTyped DEF NextCall
    <2>5. UNCHANGED <<batch, world>> /\ grants' \subseteq Asking
      BY <1>4, <2>1 DEF Decide
    <2>6. QED
      BY <1>1, <1>3, <2>3, <2>4, <2>5 DEF PCs, InBatch, InStep
  <1>5. CASE NoPolicy
    BY <1>1, <1>3, <1>5 DEF NoPolicy, talk, outside, PCs, InBatch, InStep
  <1>6. CASE Dispatch
    <2>1. content' \in Contents /\ world' \in Nat
      <3>1. \/ content' = [what |-> "error", seen |-> 0, cut |-> FALSE]
            \/ \E n \in Nat : content' = [what |-> "output", seen |-> n, cut |-> FALSE]
        BY <1>6 DEF Dispatch
      <3>2. content' \in Contents
        BY <3>1, ContentsTyped
      <3>3. world' = world \/ world' = world + 1
        BY <1>6 DEF Dispatch
      <3>4. QED
        BY <3>2, <3>3
    <2>2. pc' = "fit" /\ UNCHANGED <<tape, batch, grants>>
      BY <1>6 DEF Dispatch
    <2>3. QED
      BY <1>1, <1>3, <2>1, <2>2 DEF PCs, InBatch, InStep
  <1>7. CASE Fit
    <2>1. TruncatedRec(step, Call) \in Records
      BY <1>2, RecordsTyped
    <2>2. tape' \in Seq(Records)
      BY <1>7, <2>1, TapeGrows DEF Fit
    <2>3. content' \in Contents /\ pc' = "result"
      BY <1>7 DEF Fit, Contents
    <2>4. UNCHANGED <<batch, world, grants>>
      BY <1>7 DEF Fit, outside
    <2>5. QED
      BY <1>1, <1>3, <2>2, <2>3, <2>4 DEF PCs, InBatch, InStep
  <1>8. CASE RecordResult
    <2> DEFINE failed == content.what \in {"error", "denied"}
    <2>1. ToolRec(step, Call, Effect(Call), failed) \in Records
      <3>1. failed \in BOOLEAN /\ Effect(Call) \in {"read", "write"}
        BY DEF Effect
      <3> HIDE DEF failed
      <3>2. QED
        BY <1>2, <3>1, RecordsTyped
    <2>2. tape' \in Seq(Records)
      BY <1>8, <2>1, TapeGrows DEF RecordResult
    <2>3. batch' \in Seq(Contents) /\ Len(batch') = Len(batch) + 1
      BY <1>8, AppendFacts DEF RecordResult
    <2>4. Len(batch) \in Nat /\ Len(response.msg.calls) \in Nat
      BY ResponseParts, LenProperties
    <2>5. pc' \in {"batch", "decide"} /\ (pc' = "decide" => Len(batch') < Len(response.msg.calls))
      BY <1>1, <1>8, <2>3, <2>4 DEF RecordResult
    <2>6. UNCHANGED <<content, world, grants>>
      BY <1>8 DEF RecordResult, outside
    <2>7. QED
      BY <1>1, <1>3, <2>2, <2>3, <2>5, <2>6 DEF PCs, InBatch, InStep
  <1>9. QED
    BY <1>4, <1>5, <1>6, <1>7, <1>8

\* The steps around the turns: nothing here touches a batch in progress.
LEMMA FrameStepsTyped ==
  Typed /\ (Start \/ LogMessage \/ Ceiling \/ BeginStep \/ CheckToken \/ RecordCancelled \/ Close)
    => Typed'
  <1> SUFFICES ASSUME Typed,
                      Start \/ LogMessage \/ Ceiling \/ BeginStep \/ CheckToken
                        \/ RecordCancelled \/ Close
               PROVE  Typed'
    OBVIOUS
  <1> USE DEF Typed, TypeOK
  <1>1. UNCHANGED <<agent, messages, response, batch, content, token, grants, world, live, late>>
    BY DEF Start, LogMessage, Ceiling, BeginStep, CheckToken, RecordCancelled, Close,
           built, flow, talk, outside, counts
  <1>2. step \in Nat /\ MaxSteps \in Nat
    BY Bounds
  <1>3. CASE Start
    <2>1. RunStart(agent.resumed) \in Records
      BY RecordsTyped
    <2>2. tape' \in Seq(Records)
      BY <1>3, <2>1, TapeGrows DEF Start
    <2>3. UNCHANGED <<logged, step, stop, broke, snaps>> /\ pc' = "log"
      BY <1>3 DEF Start, built, flow, outside
    <2>4. pc' = "log" => logged' < Len(messages')
      <3>1. logged = 0 /\ Len(messages) > 0
        BY <1>3, EmptySeq DEF Start
      <3>2. QED
        BY <1>1, <2>3, <3>1
    <2>5. QED
      BY <1>1, <2>2, <2>3, <2>4 DEF PCs, InBatch, InStep
  <1>4. CASE LogMessage
    <2>1. Len(messages) \in Nat /\ logged + 1 \in 1..Len(messages)
      BY <1>4, LenProperties DEF LogMessage
    <2>2. MessageRec(0, messages[logged + 1]) \in Records
      BY <2>1, ElementOfSeq, RecordsTyped
    <2>3. tape' \in Seq(Records)
      BY <1>4, <2>2, TapeGrows DEF LogMessage
    <2>4. UNCHANGED <<step, stop, broke, snaps>> /\ logged' = logged + 1
      BY <1>4 DEF LogMessage, flow, outside
    <2>5. pc' \in {"log", "top"} /\ (pc' = "log" => logged' < Len(messages'))
      BY <1>1, <1>4, <2>1, <2>4 DEF LogMessage
    <2>6. QED
      BY <1>1, <2>1, <2>3, <2>4, <2>5 DEF PCs, InBatch, InStep
  <1>5. CASE Ceiling
    <2>1. step' \in 0..MaxSteps /\ stop' \in StopReasons
      BY <1>2, <1>5 DEF Ceiling, StopReasons
    <2>2. pc' = "end" /\ UNCHANGED <<logged, tape, broke, snaps>>
      BY <1>5 DEF Ceiling, built, outside
    <2>3. QED
      BY <1>1, <2>1, <2>2 DEF PCs, InBatch, InStep
  <1>6. CASE BeginStep
    <2>1. SnapshotRec(step) \in Records
      BY <1>2, RecordsTyped
    <2>2. tape' \in Seq(Records)
      BY <1>6, <2>1, TapeGrows DEF BeginStep
    <2>3. /\ DOMAIN snaps' \subseteq 0..MaxSteps
          /\ \A s \in DOMAIN snaps' : snaps'[s] \in Nat
      BY <1>6 DEF BeginStep
    <2>4. pc' = "check" /\ step < MaxSteps /\ UNCHANGED <<logged, step, stop, broke>>
      BY <1>6 DEF BeginStep, built, flow
    <2>5. QED
      BY <1>1, <2>2, <2>3, <2>4 DEF PCs, InBatch, InStep
  <1>7. CASE CheckToken
    <2>1. /\ pc' \in {"end", "lookup"} /\ pc \in InStep /\ broke' = token
          /\ UNCHANGED <<logged, step, tape, stop, snaps>>
      BY <1>7 DEF CheckToken, built, outside, InStep
    <2>2. QED
      BY <1>1, <2>1 DEF PCs, InBatch, InStep
  <1>8. CASE RecordCancelled \/ Close
    <2>1. CancelledRec(step) \in Records /\ RunEnd(step, stop, broke) \in Records
      BY <1>2, RecordsTyped
    <2>2. tape' \in Seq(Records)
      BY <1>8, <2>1, TapeGrows DEF RecordCancelled, Close
    <2>3. pc' \in {"close", "done"} /\ UNCHANGED <<logged, step, stop, broke, snaps>>
      BY <1>8 DEF RecordCancelled, Close, built, flow, outside
    <2>4. QED
      BY <1>1, <2>2, <2>3 DEF PCs, InBatch, InStep, Terminal
  <1>9. QED
    BY <1>3, <1>4, <1>5, <1>6, <1>7, <1>8

\* The end of a step.
LEMMA StepEndsTyped == Typed /\ (RecordBatch \/ Splice) => Typed'
  <1> SUFFICES ASSUME Typed, RecordBatch \/ Splice
               PROVE  Typed'
    OBVIOUS
  <1> USE DEF Typed, TypeOK
  <1>1. step \in Nat /\ MaxSteps \in Nat /\ step < MaxSteps
    BY Bounds DEF RecordBatch, Splice, InStep
  <1>2. UNCHANGED <<agent, logged, stop, broke, response, batch, content, token, grants,
                    world, snaps, live, late>>
    BY DEF RecordBatch, Splice, built, outside, counts
  <1>3. CASE RecordBatch
    <2>1. Results(batch) \in Messages
      BY MessagesTyped
    <2>2. messages' \in Seq(Messages) /\ messages' # <<>>
      BY <1>3, <2>1, AppendFacts DEF RecordBatch
    <2>3. tape' \in Seq(Records)
      BY <1>1, <1>3, <2>1, RecordsTyped, TapeGrows DEF RecordBatch
    <2>4. (pc' = "compact" /\ step' = step) \/ (pc' = "top" /\ step' = step + 1)
      BY <1>3 DEF RecordBatch
    <2>5. QED
      BY <1>1, <1>2, <2>2, <2>3, <2>4 DEF PCs, InBatch, InStep
  <1>4. CASE Splice
    <2>1. messages' \in Seq(Messages) /\ messages' # <<>>
      BY <1>4, ResponseParts, CompactionTyped DEF Splice
    <2>2. CompactionRec(step, Replaced(messages)) \in Records
      BY <1>1, SlicesInOrder, RecordsTyped
    <2>3. tape' \in Seq(Records)
      BY <1>4, <2>2, TapeGrows DEF Splice
    <2>4. pc' = "top" /\ step' = step + 1
      BY <1>4 DEF Splice
    <2>5. QED
      BY <1>1, <1>2, <2>1, <2>3, <2>4 DEF PCs, InBatch, InStep
  <1>5. QED
    BY <1>3, <1>4

LEMMA TypedNext == Typed /\ [Next]_vars => Typed'
  <1> SUFFICES ASSUME Typed, [Next]_vars
               PROVE  Typed'
    OBVIOUS
  <1>1. CASE Start \/ LogMessage \/ Ceiling \/ BeginStep \/ CheckToken \/ RecordCancelled \/ Close
    BY <1>1, FrameStepsTyped
  <1>2. CASE Decide \/ NoPolicy \/ Dispatch \/ Fit \/ RecordResult
    BY <1>2, CallStepsTyped
  <1>3. CASE RecordBatch \/ Splice
    BY <1>3, StepEndsTyped
  <1>4. CASE ServedFromCache
    BY <1>4, AnsweredTyped DEF ServedFromCache, Typed, TypeOK
  <1>5. CASE TurnReturns
    BY <1>5, AnsweredTyped, OffersTyped DEF TurnReturns, Typed, TypeOK
  <1>6. CASE SummaryFromCache
    BY <1>6, SummarisedTyped DEF SummaryFromCache, Typed, TypeOK
  <1>7. CASE SummaryReturns
    BY <1>7, SummarisedTyped, OffersTyped DEF SummaryReturns, Typed, TypeOK
  <1>8. CASE AskModel \/ AskSummary
    BY <1>8 DEF AskModel, AskSummary, Typed, TypeOK, PCs, InBatch, InStep,
                built, flow, talk, outside
  <1>9. CASE TurnCancelled
    BY <1>9 DEF TurnCancelled, Typed, TypeOK, PCs, InBatch, InStep, built, talk, outside, counts
  <1>10. CASE ProviderFails \/ Crash
    BY <1>10 DEF ProviderFails, Crash, Typed, TypeOK, PCs, InBatch, InStep, Terminal,
                 built, flow, talk, outside, counts
  <1>11. CASE Cancel
    BY <1>11 DEF Cancel, Typed, TypeOK, InBatch, built, flow, talk, counts
  <1>12. CASE UNCHANGED vars
    BY <1>12 DEF vars, Typed, TypeOK, InBatch, built, flow, talk, outside, counts
  <1>13. QED
    BY <1>1, <1>2, <1>3, <1>4, <1>5, <1>6, <1>7, <1>8, <1>9, <1>10, <1>11, <1>12
    DEF Next, Loop

\* Every variable of a run keeps its type; in particular a batch never outgrows the
\* calls it answers, so `calls[len(batch)]` is there whenever the loop acts on it.
THEOREM TypeCorrect == Spec => []TypeOK
  <1>1. Typed => TypeOK
    BY DEF Typed
  <1>2. QED
    BY TypedInit, TypedNext, <1>1, PTL DEF Spec

-----------------------------------------------------------------------------
(* What is sent to a provider *)

\* Without a budget there is no compaction, and a run is started on a history
\* that could be sent as it stands.
Uncompacted == ~HasBudget /\ \A h \in Histories : Sendable(h.messages)

LEMMA AnswerKeepsPaired ==
  ASSUME NEW ms \in Seq(Messages), NEW m \in Messages, Sendable(ms), m.role = "assistant"
  PROVE  Paired(Append(ms, m))
  <1> DEFINE new == Append(ms, m)
  <1>1. Len(ms) \in Nat /\ (ms # <<>> => Len(ms) > 0)
    BY EmptySeq, LenProperties
  <1>2. /\ new \in Seq(Messages) /\ Len(new) = Len(ms) + 1
        /\ \A i \in 1..Len(ms) : new[i] = ms[i]
        /\ new[Len(ms) + 1] = m
    BY AppendFacts
  <1> HIDE DEF new
  <1>3. ASSUME NEW i \in 1..Len(new) - 1, Dangling(new[i])
        PROVE  new[i+1].role = "tool_results" /\ Len(new[i+1].results) = Len(new[i].calls)
    <2>1. i \in 1..Len(ms) /\ Dangling(ms[i])
      BY <1>1, <1>2, <1>3
    <2>2. i # Len(ms)
      BY <1>1, <2>1, EmptySeq DEF Sendable
    <2>3. QED
      BY <1>1, <1>2, <2>1, <2>2 DEF Sendable, Paired
  <1>4. ASSUME NEW i \in 1..Len(new), new[i].role = "tool_results"
        PROVE  i > 1 /\ Dangling(new[i-1])
    <2>1. i \in 1..Len(ms) /\ ms[i].role = "tool_results"
      BY <1>1, <1>2, <1>4
    <2>2. i > 1 /\ Dangling(ms[i-1])
      BY <2>1 DEF Sendable, Paired
    <2>3. QED
      BY <1>1, <1>2, <2>1, <2>2
  <1>5. QED
    BY <1>3, <1>4 DEF Paired, new

LEMMA ResultsMakeSendable ==
  ASSUME NEW ms \in Seq(Messages), NEW m \in Messages, Paired(ms), ms # <<>>,
         Dangling(ms[Len(ms)]), m.role = "tool_results",
         Len(m.results) = Len(ms[Len(ms)].calls)
  PROVE  Sendable(Append(ms, m))
  <1> DEFINE new == Append(ms, m)
  <1>1. Len(ms) \in Nat /\ Len(ms) > 0
    BY EmptySeq, LenProperties
  <1>2. /\ new \in Seq(Messages) /\ Len(new) = Len(ms) + 1
        /\ \A i \in 1..Len(ms) : new[i] = ms[i]
        /\ new[Len(ms) + 1] = m
    BY AppendFacts
  <1> HIDE DEF new
  <1>3. ASSUME NEW i \in 1..Len(new) - 1, Dangling(new[i])
        PROVE  new[i+1].role = "tool_results" /\ Len(new[i+1].results) = Len(new[i].calls)
    <2>1. i \in 1..Len(ms) /\ Dangling(ms[i])
      BY <1>1, <1>2, <1>3
    <2>2. CASE i = Len(ms)
      BY <1>1, <1>2, <2>2
    <2>3. CASE i # Len(ms)
      BY <1>1, <1>2, <2>1, <2>3 DEF Paired
    <2>4. QED
      BY <2>2, <2>3
  <1>4. ASSUME NEW i \in 1..Len(new), new[i].role = "tool_results"
        PROVE  i > 1 /\ Dangling(new[i-1])
    <2>1. CASE i = Len(ms) + 1
      BY <1>1, <1>2, <2>1
    <2>2. CASE i # Len(ms) + 1
      <3>1. i \in 1..Len(ms) /\ ms[i].role = "tool_results"
        BY <1>1, <1>2, <1>4, <2>2
      <3>2. i > 1 /\ Dangling(ms[i-1])
        BY <3>1 DEF Paired
      <3>3. QED
        BY <1>1, <1>2, <3>1, <3>2
    <2>3. QED
      BY <2>1, <2>2
  <1>5. ~Dangling(new[Len(new)])
    BY <1>1, <1>2 DEF Dangling
  <1>6. QED
    BY <1>3, <1>4, <1>5 DEF Sendable, Paired, new

\* Between two requests the conversation may end with calls; then the loop is in the
\* batch that answers them, and nowhere else.
TalkInv ==
  /\ Paired(messages)
  /\ pc \in {"start", "log", "top", "check", "lookup", "turn"} => Sendable(messages)
  /\ InBatch \/ pc = "batch" =>
       messages[Len(messages)] = response.msg /\ response.msg.calls # <<>>
  /\ pc = "batch" => Len(batch) = Len(response.msg.calls)
  /\ pc \notin {"compact", "summarise", "splice"}

LEMMA TalkInit ==
  ASSUME Uncompacted
  PROVE  Init => TalkInv
  <1> SUFFICES ASSUME Init
               PROVE  TalkInv
    OBVIOUS
  <1>1. Sendable(messages)
    BY DEF Init, Uncompacted
  <1>2. pc = "start"
    BY DEF Init
  <1>3. QED
    BY <1>1, <1>2 DEF TalkInv, Sendable, InBatch

LEMMA TalkAnswered ==
  ASSUME Typed, TalkInv, pc \in {"lookup", "turn"}, NEW r \in Responses, Answered(r)
  PROVE  TalkInv'
  <1>1. messages \in Seq(Messages) /\ r.msg \in Messages /\ r.msg.role = "assistant"
    BY ResponseParts DEF Typed, TypeOK
  <1>2. messages' = Append(messages, r.msg) /\ response' = r
    BY DEF Answered
  <1>3. Paired(messages')
    BY <1>1, <1>2, AnswerKeepsPaired DEF TalkInv
  <1>4. messages'[Len(messages')] = r.msg
    BY <1>1, <1>2, AppendFacts
  <1>5. pc' = "end" \/ (pc' = "decide" /\ r.msg.calls # <<>>)
    BY DEF Answered, WantsTools
  <1>6. QED
    BY <1>2, <1>3, <1>4, <1>5 DEF TalkInv, InBatch

LEMMA TalkBatch ==
  ASSUME Uncompacted, Typed, TalkInv, RecordBatch
  PROVE  TalkInv'
  <1>1. messages \in Seq(Messages) /\ messages # <<>> /\ Results(batch) \in Messages
    BY MessagesTyped DEF Typed, TypeOK
  <1>2. /\ messages[Len(messages)] = response.msg /\ response.msg.calls # <<>>
        /\ Len(batch) = Len(response.msg.calls)
    BY DEF RecordBatch, TalkInv
  <1>3. Dangling(messages[Len(messages)])
    BY <1>2, ResponseParts DEF Dangling, Typed, TypeOK
  <1>4. Results(batch).role = "tool_results" /\ Results(batch).results = batch
    BY DEF Results, Message
  <1>5. Sendable(messages')
    BY <1>1, <1>2, <1>3, <1>4, ResultsMakeSendable DEF RecordBatch, TalkInv
  <1>6. pc' = "top"
    BY DEF RecordBatch, Due, Uncompacted
  <1>7. QED
    BY <1>5, <1>6 DEF TalkInv, Sendable, InBatch

LEMMA TalkNext == Uncompacted /\ Typed /\ TalkInv /\ [Next]_vars => TalkInv'
  <1> SUFFICES ASSUME Uncompacted, Typed, TalkInv, [Next]_vars
               PROVE  TalkInv'
    OBVIOUS
  <1>1. CASE Decide \/ NoPolicy \/ Dispatch \/ Fit
    <2>1. /\ UNCHANGED <<messages, response, batch>>
          /\ InBatch /\ pc' \in {"dispatch", "fit", "result"}
      BY <1>1 DEF Decide, NoPolicy, Dispatch, Fit, NextCall, talk, InBatch
    <2>2. QED
      BY <2>1 DEF TalkInv, InBatch
  <1>2. CASE RecordResult
    <2>1. UNCHANGED <<messages, response>> /\ InBatch /\ pc' \in {"batch", "decide"}
      BY <1>2 DEF RecordResult, InBatch
    <2>2. pc' = "batch" => Len(batch') = Len(response'.msg.calls)
      BY <1>2, AppendFacts DEF RecordResult, Typed, TypeOK
    <2>3. QED
      BY <2>1, <2>2 DEF TalkInv, InBatch
  <1>3. CASE Start \/ LogMessage \/ BeginStep \/ CheckToken \/ AskModel
    <2>1. /\ UNCHANGED <<messages, response, batch>>
          /\ pc \in {"start", "log", "top", "check", "lookup"}
          /\ pc' \in {"log", "top", "check", "lookup", "turn", "end"}
      BY <1>3 DEF Start, LogMessage, BeginStep, CheckToken, AskModel, talk
    <2>2. QED
      BY <2>1 DEF TalkInv, InBatch
  <1>4. CASE Ceiling \/ TurnCancelled \/ ProviderFails \/ RecordCancelled \/ Close \/ Crash
    <2>1. /\ UNCHANGED <<messages, response, batch>>
          /\ pc' \in {"end", "close", "done", "raised", "crashed"}
      BY <1>4 DEF Ceiling, TurnCancelled, ProviderFails, RecordCancelled, Close, Crash, talk
    <2>2. QED
      BY <2>1 DEF TalkInv, InBatch
  <1>5. CASE ServedFromCache
    BY <1>5, TalkAnswered DEF ServedFromCache, Typed, TypeOK
  <1>6. CASE TurnReturns
    BY <1>6, TalkAnswered, OffersTyped DEF TurnReturns
  <1>7. CASE RecordBatch
    BY <1>7, TalkBatch
  <1>8. CASE SummaryFromCache \/ AskSummary \/ SummaryReturns \/ Splice
    BY <1>8 DEF SummaryFromCache, AskSummary, SummaryReturns, Splice, TalkInv
  <1>9. CASE Cancel \/ UNCHANGED vars
    <2>1. UNCHANGED <<pc, messages, response, batch>>
      BY <1>9 DEF Cancel, vars, talk
    <2>2. QED
      BY <2>1 DEF TalkInv, InBatch
  <1>10. QED
    BY <1>1, <1>2, <1>3, <1>4, <1>5, <1>6, <1>7, <1>8, <1>9 DEF Next, Loop

\* However a run without compaction goes - failed tools, refused calls, unknown
\* tools, a cancellation - every request it makes is one a provider accepts.
THEOREM RequestsSendableHolds ==
  ASSUME Uncompacted
  PROVE  Spec => []RequestsSendable
  <1>1. Init => TalkInv
    BY TalkInit
  <1>2. TalkInv => RequestsSendable
    BY DEF TalkInv, RequestsSendable, Asks
  <1>3. Typed /\ TalkInv /\ [Next]_vars => TalkInv'
    BY TalkNext
  <1>4. QED
    BY TypedInit, TypedNext, <1>1, <1>2, <1>3, PTL DEF Spec

-----------------------------------------------------------------------------
(* What goes on after a cancellation *)

\* A turn recorded late was past the token check; the next check is still ahead.
LateInv == late = 0 \/ (late = 1 /\ token /\ pc \notin {"lookup", "turn"})

LEMMA LateNext == LateInv /\ [Next]_vars => LateInv'
  <1> SUFFICES ASSUME LateInv, [Next]_vars
               PROVE  LateInv'
    OBVIOUS
  <1> USE DEF LateInv
  <1>1. CASE ServedFromCache \/ TurnReturns
    BY <1>1 DEF ServedFromCache, TurnReturns, Answered, outside
  <1>2. CASE AskModel \/ CheckToken
    BY <1>2 DEF AskModel, CheckToken, outside, counts
  <1>3. CASE Start \/ LogMessage \/ Ceiling \/ BeginStep
    BY <1>3 DEF Start, LogMessage, Ceiling, BeginStep, outside, counts
  <1>4. CASE TurnCancelled \/ ProviderFails \/ RecordCancelled \/ Close \/ Crash
    BY <1>4 DEF TurnCancelled, ProviderFails, RecordCancelled, Close, Crash, outside, counts
  <1>5. CASE Decide \/ NoPolicy
    BY <1>5 DEF Decide, NoPolicy, NextCall, outside, counts
  <1>6. CASE Dispatch \/ Fit \/ RecordResult \/ RecordBatch
    BY <1>6 DEF Dispatch, Fit, RecordResult, RecordBatch, outside, counts
  <1>7. CASE SummaryFromCache \/ AskSummary \/ SummaryReturns \/ Splice
    BY <1>7 DEF SummaryFromCache, AskSummary, SummaryReturns, Summarised, Splice, outside, counts
  <1>8. CASE Cancel \/ UNCHANGED vars
    BY <1>8 DEF Cancel, vars, outside, counts
  <1>9. QED
    BY <1>1, <1>2, <1>3, <1>4, <1>5, <1>6, <1>7, <1>8 DEF Next, Loop

\* One turn at most is recorded after the token was set, whatever batch, summary or
\* cache hit the cancellation found the loop in.
THEOREM AtMostOneLateTurnHolds == Spec => []AtMostOneLateTurn
  <1>1. Init => LateInv
    BY DEF Init, LateInv
  <1>2. LateInv => AtMostOneLateTurn
    BY DEF LateInv, AtMostOneLateTurn
  <1>3. QED
    BY <1>1, <1>2, LateNext, PTL DEF Spec

-----------------------------------------------------------------------------
(* What the policy has to have said *)

\* When a call is about to run, its permission is the last thing on the tape.
LicenceInv ==
  HasPolicy /\ pc = "dispatch" => tape[Len(tape)] = PermissionRec(step, Call, "allow")

LEMMA LicenceNext == Typed /\ LicenceInv /\ [Next]_vars => LicenceInv'
  <1> SUFFICES ASSUME Typed, LicenceInv, [Next]_vars, HasPolicy, pc' = "dispatch"
               PROVE  tape'[Len(tape')] = PermissionRec(step', Call', "allow")
    BY DEF LicenceInv
  <1>1. CASE Decide
    <2>1. /\ Put(PermissionRec(step, Call, "allow"))
          /\ UNCHANGED <<step, response, batch>>
      BY <1>1 DEF Decide, NextCall, flow
    <2>2. InBatch
      BY <1>1 DEF Decide, InBatch
    <2>3. PermissionRec(step, Call, "allow") \in Records
      BY <2>2, CallTyped, Bounds, RecordsTyped DEF Typed, TypeOK, Verdicts
    <2>4. tape'[Len(tape')] = PermissionRec(step, Call, "allow")
      BY <2>1, <2>3, AppendFacts DEF Put, Typed, TypeOK
    <2>5. QED
      BY <2>1, <2>4 DEF Call
  <1>2. CASE Cancel \/ UNCHANGED vars
    <2>1. UNCHANGED <<pc, tape, step, response, batch>>
      BY <1>2 DEF Cancel, vars, flow, talk
    <2>2. QED
      BY <2>1 DEF LicenceInv, Call
  <1>3. CASE ~(Decide \/ Cancel \/ UNCHANGED vars)
    BY <1>3 DEF Next, Loop, Start, LogMessage, Ceiling, BeginStep, CheckToken,
       ServedFromCache, AskModel, TurnReturns, TurnCancelled, ProviderFails, Answered,
       NoPolicy, Dispatch, Fit, RecordResult, RecordBatch, SummaryFromCache, AskSummary,
       SummaryReturns, Summarised, Splice, RecordCancelled, Close, Crash
  <1>4. QED
    BY <1>1, <1>2, <1>3

\* With a policy set, no step changes the workspace unless the permission for that
\* call of that step is the record the tape ends in.
THEOREM NothingRunsUnlicensedHolds == Spec => NothingRunsUnlicensed
  <1> DEFINE Licensed ==
        HasPolicy /\ world' # world => tape[Len(tape)] = PermissionRec(step, Call, "allow")
  <1>1. Init => LicenceInv
    BY DEF Init, LicenceInv
  <1>2. LicenceInv /\ [Next]_vars => [Licensed]_vars
    <2> SUFFICES ASSUME LicenceInv, Next, HasPolicy, world' # world
                 PROVE  tape[Len(tape)] = PermissionRec(step, Call, "allow")
      OBVIOUS
    <2>1. pc = "dispatch"
      BY DEF Next, Loop, Start, LogMessage, Ceiling, BeginStep, CheckToken, ServedFromCache,
         AskModel, TurnReturns, TurnCancelled, ProviderFails, Answered, Decide, NoPolicy,
         Dispatch, Fit, RecordResult, RecordBatch, SummaryFromCache, AskSummary,
         SummaryReturns, Summarised, Splice, RecordCancelled, Close, Crash, Cancel,
         outside
    <2>2. QED
      BY <2>1 DEF LicenceInv
  <1>3. QED
    BY TypedInit, TypedNext, <1>1, <1>2, LicenceNext, PTL DEF Spec, NothingRunsUnlicensed

-----------------------------------------------------------------------------
(* What compaction does to a conversation *)

\* A history that begins with the system prompt and the task.
Heads(ms) == Len(ms) >= 2 /\ ms[1].role = "system" /\ ms[2].role = "user"

\* Counted from the end, results are at even places (d = 0) or at odd ones (d = 1):
\* turns follow turns, with no word of a human between them.
Aligned(ms, d) == \A i \in 1..Len(ms) : ms[i].role = "tool_results" => (Len(ms) - i) % 2 = d

\* The histories of run(), and those of resume() without a nudge. keep_recent is 6
\* where nobody says otherwise; AgentLoop_split shows what a nudge can lead to.
WholeTurns ==
  /\ KeepRecent % 2 = 0
  /\ \A h \in Histories : Heads(h.messages) /\ Sendable(h.messages) /\ Aligned(h.messages, 0)

LEMMA CutFacts ==
  ASSUME NEW ms \in Seq(Messages), Heads(ms), Worthwhile(ms)
  PROVE  /\ HeadLength(ms) = 2 /\ TailStart(ms) = Len(ms) - KeepRecent
         /\ Len(ms) \in Nat /\ KeepRecent \in Nat /\ Len(ms) >= KeepRecent + 6
  <1>1. Len(ms) \in Nat /\ ms # <<>>
    BY LenProperties, EmptySeq DEF Heads
  <1>2. HeadLength(ms) = 2
    BY <1>1 DEF Heads, HeadLength
  <1>3. KeepRecent \in Nat
    BY Bounds
  <1>4. QED
    BY <1>1, <1>2, <1>3 DEF Worthwhile, Replaced, TailStart

\* apply_compaction, message by message: the head, the summary, the tail.
LEMMA CompactedAt ==
  ASSUME NEW ms \in Seq(Messages), NEW t \in Texts, Heads(ms), Worthwhile(ms)
  PROVE  /\ Len(Compacted(ms, t)) = KeepRecent + 3
         /\ Compacted(ms, t)[1] = ms[1] /\ Compacted(ms, t)[2] = ms[2]
         /\ Compacted(ms, t)[3] = User(t)
         /\ \A p \in 1..KeepRecent : Compacted(ms, t)[p + 3] = ms[TailStart(ms) + p]
         /\ LET tail == SubSeq(ms, TailStart(ms) + 1, Len(ms))
            IN  /\ tail \in Seq(Messages) /\ Len(tail) = KeepRecent
                /\ \A p \in 1..KeepRecent : tail[p] = ms[TailStart(ms) + p]
  <1> DEFINE head == SubSeq(ms, 1, HeadLength(ms))
             new  == <<User(t)>>
             tail == SubSeq(ms, TailStart(ms) + 1, Len(ms))
             T    == TailStart(ms)
  <1>1. /\ HeadLength(ms) = 2 /\ T = Len(ms) - KeepRecent
        /\ Len(ms) \in Nat /\ KeepRecent \in Nat /\ Len(ms) >= KeepRecent + 6
        /\ T \in Nat /\ T + KeepRecent = Len(ms)
    BY CutFacts
  <1> HIDE DEF T
  <1>2. \A i \in 1..Len(ms) : ms[i] \in Messages
    BY ElementOfSeq
  <1>3. head \in Seq(Messages) /\ Len(head) = 2 /\ head[1] = ms[1] /\ head[2] = ms[2]
    <2>1. \A i \in 1..2 : ms[i] \in Messages
      BY <1>1, <1>2
    <2>2. QED
      BY <1>1, <2>1, SubSeqProperties
  <1>4. tail \in Seq(Messages) /\ Len(tail) = KeepRecent
        /\ \A p \in 1..KeepRecent : tail[p] = ms[T + p]
    <2>1. \A i \in T + 1..Len(ms) : ms[i] \in Messages
      BY <1>1, <1>2
    <2>2. T + 1 \in Int /\ Len(ms) \in Int
      BY <1>1
    <2>3. /\ tail \in Seq(Messages)
          /\ Len(tail) = IF T + 1 <= Len(ms) THEN Len(ms) - (T + 1) + 1 ELSE 0
          /\ \A i \in 1..Len(ms) - (T + 1) + 1 : tail[i] = ms[T + 1 + i - 1]
      BY <2>1, <2>2, SubSeqProperties DEF T
    <2> HIDE DEF tail
    <2>4. Len(ms) - (T + 1) + 1 = KeepRecent /\ (T + 1 <= Len(ms) <=> KeepRecent > 0)
      BY <1>1
    <2>5. \A p \in 1..KeepRecent : T + 1 + p - 1 = T + p
      BY <1>1
    <2>6. QED
      BY <1>1, <2>3, <2>4, <2>5
  <1>5. new \in Seq(Messages) /\ Len(new) = 1 /\ new[1] = User(t)
    BY MessagesTyped
  <1> HIDE DEF head, new, tail
  <1> DEFINE front == head \o new
  <1>6. front \in Seq(Messages) /\ Len(front) = 3
        /\ front[1] = ms[1] /\ front[2] = ms[2] /\ front[3] = User(t)
    <2>1. /\ front \in Seq(Messages) /\ Len(front) = Len(head) + Len(new)
          /\ \A i \in 1..Len(head) + Len(new) : front[i] = IF i <= Len(head) THEN head[i] ELSE new[i - Len(head)]
      BY <1>3, <1>5, ConcatProperties
    <2> HIDE DEF front
    <2>2. QED
      BY <1>3, <1>5, <2>1
  <1> HIDE DEF front
  <1>7. /\ Len(front \o tail) = 3 + KeepRecent
        /\ \A i \in 1..3 : (front \o tail)[i] = front[i]
        /\ \A p \in 1..KeepRecent : (front \o tail)[p + 3] = tail[p]
    <2>1. /\ Len(front \o tail) = Len(front) + Len(tail)
          /\ \A i \in 1..Len(front) + Len(tail) :
               (front \o tail)[i] = IF i <= Len(front) THEN front[i] ELSE tail[i - Len(front)]
      BY <1>4, <1>6, ConcatProperties
    <2> DEFINE whole == front \o tail
    <2> HIDE DEF whole
    <2>2. /\ Len(whole) = 3 + KeepRecent
          /\ \A i \in 1..3 + KeepRecent : whole[i] = IF i <= 3 THEN front[i] ELSE tail[i - 3]
      BY <1>4, <1>6, <2>1 DEF whole
    <2>3. \A p \in 1..KeepRecent : p + 3 \in 1..3 + KeepRecent /\ ~(p + 3 <= 3) /\ (p + 3) - 3 = p
      BY <1>1
    <2>4. \A i \in 1..3 : i \in 1..3 + KeepRecent /\ i <= 3
      BY <1>1
    <2>5. \A i \in 1..3 : whole[i] = front[i]
      BY <2>2, <2>4
    <2>6. \A p \in 1..KeepRecent : whole[p + 3] = tail[p]
      BY <2>2, <2>3
    <2>7. QED
      BY <2>2, <2>5, <2>6 DEF whole
  <1>8. Compacted(ms, t) = front \o tail
    BY DEF Compacted, front, head, new, tail
  <1>9. /\ Len(Compacted(ms, t)) = KeepRecent + 3
        /\ Compacted(ms, t)[1] = ms[1] /\ Compacted(ms, t)[2] = ms[2]
        /\ Compacted(ms, t)[3] = User(t)
        /\ \A p \in 1..KeepRecent : Compacted(ms, t)[p + 3] = ms[T + p]
    <2>1. 3 + KeepRecent = KeepRecent + 3 /\ 1 \in 1..3 /\ 2 \in 1..3 /\ 3 \in 1..3
      BY <1>1
    <2>2. QED
      BY <1>4, <1>6, <1>7, <1>8, <2>1
  <1>10. QED
    BY <1>4, <1>9 DEF T, tail

\* The cut falls between two turns.
LEMMA CutIsClean ==
  ASSUME NEW ms \in Seq(Messages), KeepRecent % 2 = 0, Heads(ms), Worthwhile(ms),
         Aligned(ms, 0), KeepRecent > 0
  PROVE  ms[TailStart(ms) + 1].role # "tool_results"
  <1>1. /\ TailStart(ms) = Len(ms) - KeepRecent /\ Len(ms) \in Nat /\ KeepRecent \in Nat
        /\ Len(ms) >= KeepRecent + 6
    BY CutFacts
  <1> DEFINE T == TailStart(ms)
  <1>2. T + 1 \in 1..Len(ms)
    <2> HIDE DEF T
    <2>1. T = Len(ms) - KeepRecent
      BY <1>1 DEF T
    <2>2. QED
      BY <1>1, <2>1
  <1>3. PICK i \in 1..Len(ms) : i = TailStart(ms) + 1
    BY <1>2
  <1>4. Len(ms) - i = KeepRecent - 1 /\ (KeepRecent - 1) % 2 = 1
    BY <1>1, <1>3
  <1>5. QED
    BY <1>3, <1>4 DEF Aligned

LEMMA CompactedSendable ==
  ASSUME NEW ms \in Seq(Messages), NEW t \in Texts, KeepRecent % 2 = 0,
         Heads(ms), Worthwhile(ms), Aligned(ms, 0), Sendable(ms)
  PROVE  Heads(Compacted(ms, t)) /\ Aligned(Compacted(ms, t), 0) /\ Sendable(Compacted(ms, t))
  <1> DEFINE new == Compacted(ms, t)
             T   == TailStart(ms)
  <1>1. /\ T = Len(ms) - KeepRecent /\ Len(ms) \in Nat /\ KeepRecent \in Nat /\ T \in Nat
        /\ Len(ms) >= KeepRecent + 6 /\ T + KeepRecent = Len(ms)
    BY CutFacts
  <1>2. /\ Len(new) = KeepRecent + 3 /\ new[1] = ms[1] /\ new[2] = ms[2] /\ new[3] = User(t)
        /\ \A p \in 1..KeepRecent : new[p + 3] = ms[T + p]
    BY CompactedAt
  <1>3. KeepRecent > 0 => ms[T + 1].role # "tool_results"
    BY CutIsClean
  <1> HIDE DEF new, T
  <1>4. new[1].role = "system" /\ new[2].role = "user" /\ new[3].role = "user"
    BY <1>2 DEF Heads, User, Message
  \* A message of the new history is one of the first three or one that is kept.
  <1>5. \A i \in 1..Len(new) : i \in {1, 2, 3} \/ \E p \in 1..KeepRecent : i = p + 3
    <2> TAKE i \in 1..Len(new)
    <2>1. CASE i <= 3
      BY <2>1
    <2>2. CASE i > 3
      <3>1. i - 3 \in 1..KeepRecent /\ i = (i - 3) + 3
        BY <1>1, <1>2, <2>2
      <3>2. QED
        BY <3>1
    <2>3. QED
      BY <2>1, <2>2
  <1>6. \A p \in 1..KeepRecent : T + p \in 1..Len(ms) /\ Len(ms) - (T + p) = KeepRecent - p
                                 /\ Len(new) - (p + 3) = KeepRecent - p
    BY <1>1, <1>2
  <1>7. ASSUME NEW i \in 1..Len(new), new[i].role = "tool_results"
        PROVE  (Len(new) - i) % 2 = 0 /\ i > 1 /\ Dangling(new[i - 1])
    <2>1. PICK p \in 1..KeepRecent : i = p + 3
      BY <1>4, <1>5, <1>7
    <2>2. ms[T + p].role = "tool_results" /\ T + p \in 1..Len(ms)
      BY <1>2, <1>6, <1>7, <2>1
    <2>3. (Len(new) - i) % 2 = 0
      <3>1. (Len(ms) - (T + p)) % 2 = 0
        BY <2>2 DEF Aligned
      <3>2. QED
        BY <1>6, <2>1, <3>1
    <2>4. p # 1
      BY <1>1, <1>3, <2>2
    <2>5. p - 1 \in 1..KeepRecent /\ i - 1 = (p - 1) + 3 /\ (T + p) - 1 = T + (p - 1) /\ i > 1
      BY <1>1, <2>1, <2>4
    <2>6. Dangling(ms[(T + p) - 1])
      BY <2>2 DEF Sendable, Paired
    <2>7. new[(p - 1) + 3] = ms[T + (p - 1)]
      BY <1>2, <2>5
    <2>8. QED
      BY <2>3, <2>5, <2>6, <2>7
  <1>8. ASSUME NEW i \in 1..Len(new) - 1, Dangling(new[i])
        PROVE  new[i + 1].role = "tool_results" /\ Len(new[i + 1].results) = Len(new[i].calls)
    <2>1. i \in 1..Len(new)
      BY <1>1, <1>2
    <2>2. PICK p \in 1..KeepRecent : i = p + 3
      BY <1>4, <1>5, <1>8, <2>1 DEF Dangling
    <2>3. /\ p + 1 \in 1..KeepRecent /\ i + 1 = (p + 1) + 3 /\ T + p \in 1..Len(ms) - 1
          /\ (T + p) + 1 = T + (p + 1)
      <3>1. p + 3 \in 1..(KeepRecent + 3) - 1
        BY <1>2, <2>2
      <3>2. p <= KeepRecent - 1
        BY <1>1, <3>1
      <3>3. QED
        BY <1>1, <2>2, <3>2
    <2>4. new[i] = ms[T + p] /\ new[i + 1] = ms[(T + p) + 1]
      BY <1>2, <2>2, <2>3
    <2>5. QED
      BY <1>8, <2>3, <2>4 DEF Sendable, Paired
  <1>9. ~Dangling(new[Len(new)])
    <2>1. CASE KeepRecent = 0
      BY <1>2, <1>4, <2>1 DEF Dangling
    <2>2. CASE KeepRecent > 0
      <3>1. KeepRecent \in 1..KeepRecent
        BY <1>1, <2>2
      <3>2. new[Len(new)] = ms[Len(ms)]
        BY <1>1, <1>2, <3>1
      <3>3. ms # <<>>
        BY <1>1, EmptySeq
      <3>4. QED
        BY <3>2, <3>3 DEF Sendable
    <2>3. QED
      BY <1>1, <2>1, <2>2
  <1>10. Heads(new)
    BY <1>1, <1>2, <1>4 DEF Heads
  <1>11. QED
    BY <1>7, <1>8, <1>9, <1>10 DEF Aligned, Sendable, Paired, new

LEMMA AlignedAppend ==
  ASSUME NEW ms \in Seq(Messages), NEW m \in Messages, NEW d \in {0, 1}, Aligned(ms, d),
         m.role = "tool_results" => d = 1
  PROVE  Aligned(Append(ms, m), 1 - d)
  <1> DEFINE new == Append(ms, m)
  <1>1. /\ Len(ms) \in Nat /\ Len(new) = Len(ms) + 1 /\ new[Len(ms) + 1] = m
        /\ \A i \in 1..Len(ms) : new[i] = ms[i]
    BY AppendFacts, LenProperties
  <1> HIDE DEF new
  <1>2. ASSUME NEW i \in 1..Len(new), new[i].role = "tool_results"
        PROVE  (Len(new) - i) % 2 = 1 - d
    <2>1. CASE i = Len(ms) + 1
      <3>1. Len(new) - i = 0 /\ d = 1
        BY <1>1, <1>2, <2>1
      <3>2. QED
        BY <3>1
    <2>2. CASE i # Len(ms) + 1
      <3>1. i \in 1..Len(ms) /\ (Len(ms) - i) % 2 = d
        BY <1>1, <1>2, <2>2 DEF Aligned
      <3>2. (Len(ms) + 1 - i) % 2 = 1 - d
        BY <1>1, <3>1
      <3>3. QED
        BY <1>1, <3>2
    <2>3. QED
      BY <2>1, <2>2
  <1>3. QED
    BY <1>2 DEF Aligned, new

LEMMA HeadsAppend ==
  ASSUME NEW ms \in Seq(Messages), NEW m \in Messages, Heads(ms)
  PROVE  Heads(Append(ms, m)) /\ Append(ms, m)[1] = ms[1] /\ Append(ms, m)[2] = ms[2]
  <1>1. /\ Len(ms) \in Nat /\ Len(Append(ms, m)) = Len(ms) + 1
        /\ \A i \in 1..Len(ms) : Append(ms, m)[i] = ms[i]
    BY AppendFacts, LenProperties
  <1>2. 1 \in 1..Len(ms) /\ 2 \in 1..Len(ms)
    BY <1>1 DEF Heads
  <1>3. QED
    BY <1>1, <1>2 DEF Heads

\* With compaction as without it a conversation is whole but for the batch in hand, and
\* results stand where the cut between the old and the recent cannot part them from
\* their calls. A compaction is only begun on what is worth it.
Whole == {"start", "log", "top", "check", "lookup", "turn", "compact", "summarise", "splice"}
CutInv ==
  /\ Heads(messages)
  /\ pc \in Whole => Sendable(messages) /\ Aligned(messages, 0)
  /\ InBatch \/ pc = "batch" =>
       /\ Paired(messages) /\ Aligned(messages, 1)
       /\ messages[Len(messages)] = response.msg /\ response.msg.calls # <<>>
  /\ pc = "batch" => Len(batch) = Len(response.msg.calls)
  /\ pc \in {"compact", "summarise", "splice"} => Worthwhile(messages)

LEMMA CutInit ==
  ASSUME WholeTurns
  PROVE  Init => CutInv
  <1> SUFFICES ASSUME Init
               PROVE  CutInv
    OBVIOUS
  <1>1. Heads(messages) /\ Sendable(messages) /\ Aligned(messages, 0)
    BY DEF Init, WholeTurns
  <1>2. pc = "start"
    BY DEF Init
  <1>3. QED
    BY <1>1, <1>2 DEF CutInv, InBatch

LEMMA CutAnswered ==
  ASSUME Typed, CutInv, pc \in {"lookup", "turn"}, NEW r \in Responses, Answered(r)
  PROVE  CutInv'
  <1>1. messages \in Seq(Messages) /\ r.msg \in Messages /\ r.msg.role = "assistant"
    BY ResponseParts DEF Typed, TypeOK
  <1>2. messages' = Append(messages, r.msg) /\ response' = r
    BY DEF Answered
  <1>3. Sendable(messages) /\ Aligned(messages, 0) /\ Heads(messages)
    BY DEF CutInv, Whole
  <1>4. Paired(messages')
    BY <1>1, <1>2, <1>3, AnswerKeepsPaired
  <1>5. Aligned(messages', 1)
    <2>1. Aligned(Append(messages, r.msg), 1 - 0)
      BY <1>1, <1>3, AlignedAppend
    <2>2. QED
      BY <1>2, <2>1
  <1>6. Heads(messages')
    BY <1>1, <1>2, <1>3, HeadsAppend
  <1>7. messages'[Len(messages')] = r.msg
    BY <1>1, <1>2, AppendFacts
  <1>8. pc' = "end" \/ (pc' = "decide" /\ r.msg.calls # <<>>)
    BY DEF Answered, WantsTools
  <1>9. QED
    BY <1>2, <1>4, <1>5, <1>6, <1>7, <1>8 DEF CutInv, Whole, InBatch

LEMMA CutBatch ==
  ASSUME Typed, CutInv, RecordBatch
  PROVE  CutInv'
  <1>1. messages \in Seq(Messages) /\ messages # <<>> /\ Results(batch) \in Messages
    BY MessagesTyped DEF Typed, TypeOK
  <1>2. /\ messages[Len(messages)] = response.msg /\ response.msg.calls # <<>>
        /\ Len(batch) = Len(response.msg.calls)
        /\ Paired(messages) /\ Aligned(messages, 1) /\ Heads(messages)
    BY DEF RecordBatch, CutInv
  <1>3. Dangling(messages[Len(messages)])
    BY <1>2, ResponseParts DEF Dangling, Typed, TypeOK
  <1>4. Results(batch).role = "tool_results" /\ Results(batch).results = batch
    BY DEF Results, Message
  <1>5. messages' = Append(messages, Results(batch))
    BY DEF RecordBatch
  <1>6. Sendable(messages')
    BY <1>1, <1>2, <1>3, <1>4, <1>5, ResultsMakeSendable
  <1>7. Aligned(messages', 0)
    <2>1. Aligned(Append(messages, Results(batch)), 1 - 1)
      BY <1>1, <1>2, AlignedAppend
    <2>2. QED
      BY <1>5, <2>1
  <1>8. Heads(messages')
    BY <1>1, <1>2, <1>5, HeadsAppend
  <1>9. pc' = "top" \/ (pc' = "compact" /\ Worthwhile(messages'))
    BY DEF RecordBatch
  <1>10. QED
    BY <1>6, <1>7, <1>8, <1>9 DEF CutInv, Whole, InBatch

LEMMA CutSplice ==
  ASSUME WholeTurns, Typed, CutInv, Splice
  PROVE  CutInv'
  <1>1. /\ messages \in Seq(Messages) /\ response.msg.text \in Texts
        /\ messages' = Compacted(messages, response.msg.text) /\ pc' = "top"
    BY ResponseParts DEF Splice, Typed, TypeOK
  <1>2. Heads(messages) /\ Worthwhile(messages) /\ Aligned(messages, 0) /\ Sendable(messages)
    BY DEF Splice, CutInv, Whole
  <1>3. Heads(messages') /\ Aligned(messages', 0) /\ Sendable(messages')
    BY <1>1, <1>2, CompactedSendable DEF WholeTurns
  <1>4. QED
    BY <1>1, <1>3 DEF CutInv, InBatch

LEMMA CutNext == WholeTurns /\ Typed /\ CutInv /\ [Next]_vars => CutInv'
  <1> SUFFICES ASSUME WholeTurns, Typed, CutInv, [Next]_vars
               PROVE  CutInv'
    OBVIOUS
  <1>1. CASE Decide \/ NoPolicy \/ Dispatch \/ Fit
    <2>1. /\ UNCHANGED <<messages, response, batch>>
          /\ InBatch /\ pc' \in {"dispatch", "fit", "result"}
      BY <1>1 DEF Decide, NoPolicy, Dispatch, Fit, NextCall, talk, InBatch
    <2>2. QED
      BY <2>1 DEF CutInv, InBatch, Whole
  <1>2. CASE RecordResult
    <2>1. UNCHANGED <<messages, response>> /\ InBatch /\ pc' \in {"batch", "decide"}
      BY <1>2 DEF RecordResult, InBatch
    <2>2. pc' = "batch" => Len(batch') = Len(response'.msg.calls)
      BY <1>2, AppendFacts DEF RecordResult, Typed, TypeOK
    <2>3. QED
      BY <2>1, <2>2 DEF CutInv, InBatch, Whole
  <1>3. CASE Start \/ LogMessage \/ BeginStep \/ CheckToken \/ AskModel
    <2>1. /\ UNCHANGED <<messages, response, batch>>
          /\ pc \in {"start", "log", "top", "check", "lookup"}
          /\ pc' \in {"log", "top", "check", "lookup", "turn", "end"}
      BY <1>3 DEF Start, LogMessage, BeginStep, CheckToken, AskModel, talk
    <2>2. QED
      BY <2>1 DEF CutInv, InBatch, Whole
  <1>4. CASE Ceiling \/ TurnCancelled \/ ProviderFails \/ RecordCancelled \/ Close \/ Crash
    <2>1. /\ UNCHANGED <<messages, response, batch>>
          /\ pc' \in {"end", "close", "done", "raised", "crashed"}
      BY <1>4 DEF Ceiling, TurnCancelled, ProviderFails, RecordCancelled, Close, Crash, talk
    <2>2. QED
      BY <2>1 DEF CutInv, InBatch, Whole
  <1>5. CASE ServedFromCache
    BY <1>5, CutAnswered DEF ServedFromCache, Typed, TypeOK
  <1>6. CASE TurnReturns
    BY <1>6, CutAnswered, OffersTyped DEF TurnReturns
  <1>7. CASE RecordBatch
    BY <1>7, CutBatch
  <1>8. CASE SummaryFromCache \/ AskSummary \/ SummaryReturns
    <2>1. /\ UNCHANGED messages /\ pc \in {"compact", "summarise"}
          /\ pc' \in {"summarise", "splice", "top"}
      BY <1>8 DEF SummaryFromCache, AskSummary, SummaryReturns, Summarised, talk
    <2>2. QED
      BY <2>1 DEF CutInv, InBatch, Whole
  <1>9. CASE Splice
    BY <1>9, CutSplice
  <1>10. CASE Cancel \/ UNCHANGED vars
    <2>1. UNCHANGED <<pc, messages, response, batch>>
      BY <1>10 DEF Cancel, vars, talk
    <2>2. QED
      BY <2>1 DEF CutInv, InBatch
  <1>11. QED
    BY <1>1, <1>2, <1>3, <1>4, <1>5, <1>6, <1>7, <1>8, <1>9, <1>10 DEF Next, Loop

\* With an even keep_recent, and no nudge after the task, every request is one a
\* provider accepts however often the history is compacted under it.
THEOREM CompactedRequestsSendable ==
  ASSUME WholeTurns
  PROVE  Spec => []RequestsSendable
  <1>1. Init => CutInv
    BY CutInit
  <1>2. CutInv => RequestsSendable
    BY DEF CutInv, Whole, RequestsSendable, Asks
  <1>3. Typed /\ CutInv /\ [Next]_vars => CutInv'
    BY CutNext
  <1>4. QED
    BY TypedInit, TypedNext, <1>1, <1>2, <1>3, PTL DEF Spec

\* Under the same condition a compaction shortens the history, leaves its most recent
\* turns as they were at the end of it, and parts no result from its call.
THEOREM CompactionKeepsTurnsHolds ==
  ASSUME WholeTurns
  PROVE  Spec => CompactionKeepsTurns
  <1> DEFINE kept == SubSeq(messages, TailStart(messages) + 1, Len(messages))
             Keeps == pc = "splice" /\ pc' = "top" =>
                        /\ Len(messages') < Len(messages)
                        /\ IsSuffix(kept, messages')
                        /\ kept # <<>> => kept[1].role # "tool_results"
  <1>1. Init => CutInv
    BY CutInit
  <1>2. Typed /\ CutInv /\ [Next]_vars => [Keeps]_vars
    <2> SUFFICES ASSUME Typed, CutInv, Next, pc = "splice", pc' = "top"
                 PROVE  /\ Len(messages') < Len(messages)
                        /\ IsSuffix(kept, messages')
                        /\ kept # <<>> => kept[1].role # "tool_results"
      OBVIOUS
    <2>1. Splice
      BY DEF Next, Loop, Start, LogMessage, Ceiling, BeginStep, CheckToken, ServedFromCache,
         AskModel, TurnReturns, TurnCancelled, ProviderFails, Answered, Decide, NoPolicy,
         Dispatch, Fit, RecordResult, RecordBatch, SummaryFromCache, AskSummary,
         SummaryReturns, Summarised, RecordCancelled, Close, Crash, Cancel
    <2> DEFINE new == Compacted(messages, response.msg.text)
               T   == TailStart(messages)
    <2>2. /\ messages \in Seq(Messages) /\ response.msg.text \in Texts /\ messages' = new
          /\ Heads(messages) /\ Worthwhile(messages) /\ Aligned(messages, 0)
      BY <2>1, ResponseParts DEF Splice, CutInv, Whole, Typed, TypeOK
    <2>3. /\ T = Len(messages) - KeepRecent /\ Len(messages) \in Nat /\ KeepRecent \in Nat
          /\ Len(messages) >= KeepRecent + 6
      BY <2>2, CutFacts
    <2>4. /\ Len(new) = KeepRecent + 3
          /\ \A p \in 1..KeepRecent : new[p + 3] = messages[T + p]
          /\ kept \in Seq(Messages) /\ Len(kept) = KeepRecent
          /\ \A p \in 1..KeepRecent : kept[p] = messages[T + p]
      BY <2>2, CompactedAt
    <2>5. new \in Seq(Messages)
      BY <2>2, CompactionTyped
    <2>6. KeepRecent > 0 => messages[T + 1].role # "tool_results"
      BY <2>2, CutIsClean DEF WholeTurns
    <2> HIDE DEF new, kept, T
    <2>7. kept = SubSeq(new, Len(new) - Len(kept) + 1, Len(new))
      <3> DEFINE tail == SubSeq(new, 4, KeepRecent + 3)
      <3>1. \A i \in 4..KeepRecent + 3 : new[i] \in Messages
        BY <2>3, <2>4, <2>5, ElementOfSeq
      <3>2. /\ tail \in Seq(Messages)
            /\ Len(tail) = IF 4 <= KeepRecent + 3 THEN (KeepRecent + 3) - 4 + 1 ELSE 0
            /\ \A p \in 1..(KeepRecent + 3) - 4 + 1 : tail[p] = new[4 + p - 1]
        <4>1. 4 \in Int /\ KeepRecent + 3 \in Int
          BY <2>3
        <4>2. QED
          BY <3>1, <4>1, SubSeqProperties
      <3> HIDE DEF tail
      <3>3. (KeepRecent + 3) - 4 + 1 = KeepRecent /\ (4 <= KeepRecent + 3 <=> KeepRecent > 0)
            /\ \A p \in 1..KeepRecent : 4 + p - 1 = p + 3
        <4>1. KeepRecent \in Nat
          BY <2>3
        <4>2. \A p \in 1..KeepRecent : 4 + p - 1 = p + 3
          BY <4>1
        <4>3. QED
          BY <4>1, <4>2
      <3>4. Len(tail) = Len(kept) /\ \A p \in 1..Len(kept) : tail[p] = kept[p]
        <4>1. Len(kept) = KeepRecent /\ KeepRecent \in Nat
          BY <2>3, <2>4
        <4>2. Len(tail) = KeepRecent
          BY <3>2, <3>3, <4>1
        <4>3. \A p \in 1..KeepRecent : tail[p] = new[p + 3]
          BY <3>2, <3>3
        <4>4. \A p \in 1..KeepRecent : new[p + 3] = kept[p]
          BY <2>4
        <4>5. QED
          BY <4>1, <4>2, <4>3, <4>4
      <3>5. tail = kept
        BY <2>4, <3>2, <3>4, SeqEqual
      <3>6. Len(new) - Len(kept) + 1 = 4
        BY <2>3, <2>4
      <3>7. QED
        BY <2>4, <3>5, <3>6 DEF tail
    <2>8. kept # <<>> => KeepRecent > 0
      BY <2>3, <2>4, EmptySeq
    <2>9. KeepRecent > 0 => kept[1] = messages[T + 1]
      BY <2>3, <2>4
    <2>10. Len(new) < Len(messages) /\ Len(kept) <= Len(new)
      BY <2>3, <2>4
    <2>11. QED
      BY <2>2, <2>6, <2>7, <2>8, <2>9, <2>10 DEF IsSuffix
  <1>3. Typed /\ CutInv /\ [Next]_vars => CutInv'
    BY CutNext
  <1>4. CompactionKeepsTurns <=> [][Keeps]_vars
    BY DEF CompactionKeepsTurns
  <1> HIDE DEF Keeps
  <1>5. QED
    BY TypedInit, TypedNext, <1>1, <1>2, <1>3, <1>4, PTL DEF Spec

-----------------------------------------------------------------------------
(***************************************************************************)
(* What a run leaves on its tape: that it is the conversation, tells the   *)
(* writes, and says how the run stopped.                                   *)
(*                                                                         *)
(* First come lemmas about the readers of a tape with one record more: a   *)
(* tape only ever grows by one at its end. Only is a recursion over the    *)
(* tape, so they begin by showing that the recursion has a solution; the   *)
(* induction is the one over sets of naturals, without an operator         *)
(* parameter.                                                              *)
(***************************************************************************)

-----------------------------------------------------------------------------
(* Induction over the naturals *)

\* A set of naturals that is not empty has a least member.
LEMMA LeastNumber ==
  ASSUME NEW T, T \subseteq Nat, T # {}
  PROVE  \E m \in T : \A k \in T : m <= k
  <1> DEFINE R == OpToRel(<, Nat)
  <1>1. R = {p \in Nat \X Nat : p[1] < p[2]}
    BY DEF OpToRel
  <1>2. IsWellFoundedOn(R, Nat)
    BY NatLessThanWellFounded
  <1> HIDE DEF R
  <1>3. PICK m \in T : \A k \in T : ~(<<k, m>> \in R)
    BY <1>2, WFMin
  <1>4. \A k \in T : ~(k < m)
    BY <1>1, <1>3
  <1>5. QED
    BY <1>4

\* What holds of zero and is handed on by every number holds of all of them.
LEMMA SetInduction ==
  ASSUME NEW S, 0 \in S, \A n \in Nat : n \in S => n + 1 \in S
  PROVE  \A n \in Nat : n \in S
  <1> DEFINE T == {n \in Nat : n \notin S}
  <1>1. SUFFICES ASSUME T # {}
                 PROVE  FALSE
    OBVIOUS
  <1>2. PICK m \in T : \A k \in T : m <= k
    <2>1. T \subseteq Nat
      OBVIOUS
    <2> HIDE DEF T
    <2>2. QED
      BY <1>1, <2>1, LeastNumber
  <1>3. m \in Nat /\ m # 0 /\ m - 1 \in Nat
    BY <1>2
  <1>4. m - 1 \in S
    BY <1>2, <1>3
  <1>5. QED
    BY <1>2, <1>3, <1>4

-----------------------------------------------------------------------------
(* The recursion in Only *)

\* f solves it as far as n.
Grown(f, s, places, n) ==
  f = [k \in 0..n |-> IF k = 0 THEN <<>>
                      ELSE IF k \in places THEN Append(f[k-1], s[k]) ELSE f[k-1]]

\* The same, one number at a time.
LEMMA GrownAt ==
  ASSUME NEW f, NEW s, NEW places, NEW n \in Nat, Grown(f, s, places, n)
  PROVE  /\ f[0] = <<>>
         /\ \A k \in 1..n : f[k] = IF k \in places THEN Append(f[k-1], s[k]) ELSE f[k-1]
  <1>1. \A k \in 0..n : f[k] = IF k = 0 THEN <<>> ELSE IF k \in places THEN Append(f[k-1], s[k])
                                                                        ELSE f[k-1]
    BY DEF Grown
  <1>2. 0 \in 0..n /\ \A k \in 1..n : k \in 0..n /\ k # 0
    OBVIOUS
  <1>3. QED
    BY <1>1, <1>2

\* A solution can be continued.
LEMMA GrownStep ==
  ASSUME NEW s, NEW places, NEW n \in Nat, NEW f, Grown(f, s, places, n)
  PROVE  \E g : Grown(g, s, places, n + 1)
  <1> DEFINE g == [k \in 0..n + 1 |-> IF k = n + 1 THEN IF k \in places THEN Append(f[n], s[k]) ELSE f[n] ELSE f[k]]
  <1>1. \A k \in 0..n : f[k] = IF k = 0 THEN <<>> ELSE IF k \in places THEN Append(f[k-1], s[k]) ELSE f[k-1]
    BY DEF Grown
  <1>2. \A k \in 0..n : g[k] = f[k]
    OBVIOUS
  <1>3. ASSUME NEW k \in 0..n + 1
        PROVE g[k] = IF k = 0 THEN <<>> ELSE IF k \in places THEN Append(g[k-1], s[k]) ELSE g[k-1]
    <2>1. CASE k = n + 1
      <3>1. g[k] = (IF k \in places THEN Append(f[n], s[k]) ELSE f[n]) /\ k # 0 /\ k - 1 = n
        BY <2>1
      <3>2. g[k-1] = f[n]
        BY <1>2, <3>1
      <3> HIDE DEF g
      <3>3. QED
        BY <3>1, <3>2
    <2>2. CASE k # n + 1
      <3>1. k \in 0..n /\ (k # 0 => k - 1 \in 0..n)
        BY <2>2
      <3> HIDE DEF g
      <3>2. QED
        BY <3>1, <1>1, <1>2
    <2>3. QED
      BY <2>1, <2>2
  <1>4. g = [k \in 0..n + 1 |-> g[k]]
    OBVIOUS
  <1> HIDE DEF g
  <1>5. g = [k \in 0..n + 1 |-> IF k = 0 THEN <<>> ELSE IF k \in places THEN Append(g[k-1], s[k]) ELSE g[k-1]]
    BY <1>3, <1>4
  <1>6. QED
    BY <1>5 DEF Grown

\* There is one as far as any number.
LEMMA GrownExists ==
  ASSUME NEW s, NEW places
  PROVE  \A n \in Nat : \E f : Grown(f, s, places, n)
  <1> DEFINE S == {n \in Nat : \E f : Grown(f, s, places, n)}
  <1>1. 0 \in S
    <2>1. Grown([k \in 0..0 |-> <<>>], s, places, 0)
      BY DEF Grown
    <2>2. QED
      BY <2>1
  <1>2. \A n \in Nat : n \in S => n + 1 \in S
    BY GrownStep
  <1>3. QED
    <2> HIDE DEF S
    <2>1. \A n \in Nat : n \in S
      BY <1>1, <1>2, SetInduction
    <2>2. QED
      BY <2>1 DEF S

\* So Only is the last value of one.
LEMMA OnlyIsGrown ==
  ASSUME NEW s, Len(s) \in Nat, NEW places
  PROVE  \E f : Grown(f, s, places, Len(s)) /\ Only(s, places) = f[Len(s)]
  <1> DEFINE f == CHOOSE f : Grown(f, s, places, Len(s))
  <1>1. Grown(f, s, places, Len(s))
    BY GrownExists
  <1>2. Only(s, places) = f[Len(s)]
    BY DEF Only, Grown
  <1>3. QED
    BY <1>1, <1>2

LEMMA OnlyEmpty == \A places : Only(<<>>, places) = <<>>
  <1> SUFFICES ASSUME NEW places
               PROVE  Only(<<>>, places) = <<>>
    OBVIOUS
  <1>1. Len(<<>>) = 0
    OBVIOUS
  <1>2. PICK f : Grown(f, <<>>, places, 0) /\ Only(<<>>, places) = f[0]
    BY <1>1, OnlyIsGrown
  <1>3. QED
    BY <1>2 DEF Grown

\* A record more: it is kept at the end, or left out.
LEMMA OnlyAppend ==
  ASSUME NEW T, NEW s \in Seq(T), NEW e \in T, NEW places, NEW more,
         \A i \in 1..Len(s) : i \in more <=> i \in places
  PROVE  Only(Append(s, e), more)
           = IF Len(s) + 1 \in more THEN Append(Only(s, places), e) ELSE Only(s, places)
  <1> DEFINE t == Append(s, e)
  <1>1. /\ Len(s) \in Nat /\ Len(t) = Len(s) + 1 /\ t[Len(s) + 1] = e
        /\ \A i \in 1..Len(s) : t[i] = s[i]
    BY AppendProperties, LenProperties
  <1> HIDE DEF t
  <1>2. PICK f : Grown(f, s, places, Len(s)) /\ Only(s, places) = f[Len(s)]
    BY <1>1, OnlyIsGrown
  <1>3. PICK g : Grown(g, t, more, Len(s) + 1) /\ Only(t, more) = g[Len(s) + 1]
    BY <1>1, OnlyIsGrown
  <1>4. /\ f[0] = <<>>
        /\ \A k \in 1..Len(s) : f[k] = IF k \in places THEN Append(f[k-1], s[k]) ELSE f[k-1]
    BY <1>1, <1>2, GrownAt
  <1>5. /\ g[0] = <<>>
        /\ \A k \in 1..Len(s) + 1 : g[k] = IF k \in more THEN Append(g[k-1], t[k]) ELSE g[k-1]
    BY <1>1, <1>3, GrownAt
  <1> DEFINE S == {n \in Nat : n <= Len(s) => f[n] = g[n]}
  <1>6. ASSUME NEW n \in Nat, n <= Len(s) => f[n] = g[n], n + 1 <= Len(s)
        PROVE  f[n + 1] = g[n + 1]
    <2>1. n <= Len(s) /\ n + 1 \in 1..Len(s) /\ n + 1 \in 1..Len(s) + 1 /\ (n + 1) - 1 = n
      BY <1>1, <1>6
    <2>2. QED
      BY <1>1, <1>4, <1>5, <1>6, <2>1
  <1>7. f[Len(s)] = g[Len(s)]
    <2>1. 0 \in S /\ \A n \in Nat : n \in S => n + 1 \in S
      BY <1>4, <1>5, <1>6
    <2> HIDE DEF S
    <2>2. Len(s) \in S
      BY <1>1, <2>1, SetInduction
    <2>3. QED
      BY <1>1, <2>2 DEF S
  <1>8. g[Len(s) + 1] = IF Len(s) + 1 \in more THEN Append(g[Len(s)], e) ELSE g[Len(s)]
    <2>1. Len(s) + 1 \in 1..Len(s) + 1 /\ (Len(s) + 1) - 1 = Len(s)
      BY <1>1
    <2>2. QED
      BY <1>1, <1>5, <2>1
  <1>9. QED
    BY <1>2, <1>3, <1>7, <1>8 DEF t

\* What is kept is of the type of the elements at the places kept.
LEMMA OnlyTyped ==
  ASSUME NEW U, NEW s, Len(s) \in Nat, NEW places,
         \A i \in 1..Len(s) : i \in places => s[i] \in U
  PROVE  Only(s, places) \in Seq(U)
  <1>1. PICK f : Grown(f, s, places, Len(s)) /\ Only(s, places) = f[Len(s)]
    BY OnlyIsGrown
  <1>2. /\ f[0] = <<>>
        /\ \A k \in 1..Len(s) : f[k] = IF k \in places THEN Append(f[k-1], s[k]) ELSE f[k-1]
    BY <1>1, GrownAt
  <1> DEFINE S == {n \in Nat : n <= Len(s) => f[n] \in Seq(U)}
  <1>3. ASSUME NEW n \in Nat, n <= Len(s) => f[n] \in Seq(U), n + 1 <= Len(s)
        PROVE  f[n + 1] \in Seq(U)
    <2>1. n <= Len(s) /\ n + 1 \in 1..Len(s) /\ (n + 1) - 1 = n
      BY <1>3
    <2>2. n + 1 \in places => Append(f[n], s[n + 1]) \in Seq(U)
      BY <1>3, <2>1, AppendProperties
    <2>3. QED
      BY <1>2, <1>3, <2>1, <2>2
  <1>4. 0 \in S /\ \A n \in Nat : n \in S => n + 1 \in S
    <2>1. 0 \in S
      BY <1>2, EmptySeq
    <2>2. ASSUME NEW n \in Nat, n \in S
          PROVE  n + 1 \in S
      <3>1. n + 1 <= Len(s) => f[n + 1] \in Seq(U)
        BY <1>3, <2>2
      <3>2. QED
        BY <3>1
    <2>3. QED
      BY <2>1, <2>2
  <1> HIDE DEF S
  <1>5. Len(s) \in S
    BY <1>4, SetInduction
  <1>6. QED
    BY <1>1, <1>5 DEF S

-----------------------------------------------------------------------------
(* What one record more does to the readers of a tape *)

LEMMA PlacesAppend ==
  ASSUME NEW R, NEW t \in Seq(R), NEW r \in R, NEW kinds
  PROVE  /\ \A i \in 1..Len(t) : i \in Places(Append(t, r), kinds) <=> i \in Places(t, kinds)
         /\ Len(t) + 1 \in Places(Append(t, r), kinds) <=> r.kind \in kinds
  <1>1. /\ Len(t) \in Nat /\ Len(Append(t, r)) = Len(t) + 1 /\ Append(t, r)[Len(t) + 1] = r
        /\ \A i \in 1..Len(t) : Append(t, r)[i] = t[i]
    BY AppendProperties, LenProperties
  <1>2. QED
    BY <1>1 DEF Places

LEMMA OfKindAppend ==
  ASSUME NEW R, NEW t \in Seq(R), NEW r \in R, NEW kinds
  PROVE  OfKind(Append(t, r), kinds)
           = IF r.kind \in kinds THEN Append(OfKind(t, kinds), r) ELSE OfKind(t, kinds)
  BY PlacesAppend, OnlyAppend DEF OfKind

LEMMA OfKindTyped ==
  ASSUME NEW R, NEW t \in Seq(R), NEW kinds
  PROVE  OfKind(t, kinds) \in Seq(R)
  <1>1. Len(t) \in Nat /\ \A i \in 1..Len(t) : t[i] \in R
    BY LenProperties, ElementOfSeq
  <1>2. QED
    BY <1>1, OnlyTyped DEF OfKind

LEMMA HistoryAppend ==
  ASSUME NEW R, NEW t \in Seq(R), NEW r \in R
  PROVE  HistoryOf(Append(t, r))
           = IF r.kind \in {"message", "step"} THEN Append(HistoryOf(t), Said(r)) ELSE HistoryOf(t)
  <1> DEFINE words == {Said(q) : q \in R}
             old   == [i \in 1..Len(t) |-> Said(t[i])]
             u     == Append(t, r)
             new   == [i \in 1..Len(u) |-> Said(u[i])]
  <1>1. /\ Len(t) \in Nat /\ Len(u) = Len(t) + 1 /\ u[Len(t) + 1] = r
        /\ \A i \in 1..Len(t) : u[i] = t[i] /\ t[i] \in R
    BY AppendProperties, LenProperties, ElementOfSeq
  <1> HIDE DEF u
  <1>2. old \in Seq(words) /\ Len(old) = Len(t) /\ Said(r) \in words
    BY <1>1
  <1>3. new = Append(old, Said(r))
    BY <1>1
  <1>4. /\ HistoryOf(t) = Only(old, Places(t, {"message", "step"}))
        /\ HistoryOf(u) = Only(new, Places(u, {"message", "step"}))
    BY DEF HistoryOf
  <1>5. /\ \A i \in 1..Len(t) : i \in Places(u, {"message", "step"})
                               <=> i \in Places(t, {"message", "step"})
        /\ Len(t) + 1 \in Places(u, {"message", "step"}) <=> r.kind \in {"message", "step"}
    BY PlacesAppend DEF u
  <1> HIDE DEF old, words, new
  <1>6. Only(new, Places(u, {"message", "step"}))
          = IF Len(old) + 1 \in Places(u, {"message", "step"})
            THEN Append(Only(old, Places(t, {"message", "step"})), Said(r))
            ELSE Only(old, Places(t, {"message", "step"}))
    BY <1>2, <1>3, <1>5, OnlyAppend
  <1>7. QED
    BY <1>2, <1>4, <1>5, <1>6 DEF u

LEMMA HistoryEmpty == HistoryOf(<<>>) = <<>>
  <1>1. [i \in 1..Len(<<>>) |-> Said(<<>>[i])] = <<>>
    OBVIOUS
  <1>2. QED
    BY <1>1, OnlyEmpty DEF HistoryOf

LEMMA HistoryTyped ==
  ASSUME NEW U, NEW R, NEW t \in Seq(R),
         \A r \in R : r.kind \in {"message", "step"} => Said(r) \in U
  PROVE  HistoryOf(t) \in Seq(U)
  <1> DEFINE s == [i \in 1..Len(t) |-> Said(t[i])]
             P == Places(t, {"message", "step"})
  <1>1. Len(t) \in Nat /\ \A i \in 1..Len(t) : t[i] \in R
    BY LenProperties, ElementOfSeq
  <1>2. Len(s) = Len(t) /\ \A i \in 1..Len(t) : i \in P => s[i] \in U
    BY <1>1 DEF Places
  <1>3. HistoryOf(t) = Only(s, P)
    BY DEF HistoryOf
  <1> HIDE DEF s, P
  <1>4. QED
    BY <1>1, <1>2, <1>3, OnlyTyped

LEMMA HasAppend ==
  ASSUME NEW R, NEW t \in Seq(R), NEW r \in R, NEW kind
  PROVE  Has(Append(t, r), kind) <=> Has(t, kind) \/ r.kind = kind
  <1>1. /\ Len(t) \in Nat /\ Len(Append(t, r)) = Len(t) + 1 /\ Append(t, r)[Len(t) + 1] = r
        /\ \A i \in 1..Len(t) : Append(t, r)[i] = t[i]
    BY AppendProperties, LenProperties
  <1>2. QED
    BY <1>1 DEF Has

LEMMA WritesAppend ==
  ASSUME NEW R, NEW t \in Seq(R), NEW r \in R
  PROVE  /\ IsFiniteSet(WritesOf(t)) /\ WritesOf(t) \subseteq 1..Len(t)
         /\ WritesOf(Append(t, r))
              = IF r.kind = "tool_result" /\ r.effect = "write"
                THEN WritesOf(t) \cup {Len(t) + 1} ELSE WritesOf(t)
  <1> DEFINE u == Append(t, r)
  <1>1. /\ Len(t) \in Nat /\ Len(u) = Len(t) + 1 /\ u[Len(t) + 1] = r
        /\ \A i \in 1..Len(t) : u[i] = t[i]
    BY AppendProperties, LenProperties
  <1>2. WritesOf(t) \subseteq 1..Len(t)
    BY DEF WritesOf, Places
  <1>3. IsFiniteSet(WritesOf(t))
    <2>1. IsFiniteSet(1..Len(t))
      BY <1>1, FS_Interval
    <2>2. QED
      BY <1>2, <2>1, FS_Subset
  <1> HIDE DEF u
  <1>4. ASSUME NEW i \in 1..Len(t)
        PROVE  i \in WritesOf(u) <=> i \in WritesOf(t)
    BY <1>1 DEF WritesOf, Places
  <1>5. Len(t) + 1 \in WritesOf(u) <=> r.kind = "tool_result" /\ r.effect = "write"
    BY <1>1 DEF WritesOf, Places
  <1>6. WritesOf(u) \subseteq 1..Len(t) \cup {Len(t) + 1}
    BY <1>1 DEF WritesOf, Places
  <1>7. WritesOf(u) = IF r.kind = "tool_result" /\ r.effect = "write"
                      THEN WritesOf(t) \cup {Len(t) + 1} ELSE WritesOf(t)
    <2>1. ASSUME NEW i
          PROVE  i \in WritesOf(u) <=> i \in WritesOf(t)
                   \/ (i = Len(t) + 1 /\ r.kind = "tool_result" /\ r.effect = "write")
      BY <1>1, <1>2, <1>4, <1>5, <1>6
    <2>2. QED
      BY <2>1
  <1>8. QED
    BY <1>2, <1>3, <1>7 DEF u

-----------------------------------------------------------------------------
(* The records the loop puts on the tape, and where it stands when it does *)

\* Records are told apart by their kind.
LEMMA KindOf ==
  /\ \A b : RunStart(b).kind = "run_start" /\ RunStart(b).step = 0
  /\ \A n, m : MessageRec(n, m).kind = "message" /\ MessageRec(n, m).step = n
               /\ MessageRec(n, m).msg = m
  /\ \A n, k, r : StepRec(n, k, r).kind = "step" /\ StepRec(n, k, r).step = n
                  /\ StepRec(n, k, r).response = r
  /\ \A n : SnapshotRec(n).kind = "snapshot" /\ SnapshotRec(n).step = n
  /\ \A n, t, v : PermissionRec(n, t, v).kind = "permission" /\ PermissionRec(n, t, v).step = n
  /\ \A n, t : TruncatedRec(n, t).kind = "truncated" /\ TruncatedRec(n, t).step = n
  /\ \A n, t, e, b : ToolRec(n, t, e, b).kind = "tool_result" /\ ToolRec(n, t, e, b).step = n
                     /\ ToolRec(n, t, e, b).tool = t /\ ToolRec(n, t, e, b).effect = e
  /\ \A n, m : CompactionRec(n, m).kind = "compaction" /\ CompactionRec(n, m).step = n
  /\ \A n : CancelledRec(n).kind = "cancelled" /\ CancelledRec(n).step = n
  /\ \A n, t, b : RunEnd(n, t, b).kind = "run_end" /\ RunEnd(n, t, b).step = n
                  /\ RunEnd(n, t, b).cancelled = b
  BY DEF RunStart, MessageRec, StepRec, SnapshotRec, PermissionRec, TruncatedRec, ToolRec,
         CompactionRec, CancelledRec, RunEnd

\* The steps that put a record which is neither the start, a message, a response, a
\* result nor the end of the run.
LEMMA AsidePut ==
  ASSUME Typed, BeginStep \/ Decide \/ Fit \/ Splice
  PROVE  \/ tape' = tape /\ ~Splice
         \/ \E r \in Records : /\ Put(r) /\ r.step = step
                              /\ r.kind \in {"snapshot", "permission", "truncated", "compaction"}
  <1>1. step \in Nat
    BY Bounds DEF Typed, TypeOK
  <1>2. CASE BeginStep
    <2>1. SnapshotRec(step) \in Records
      BY <1>1, RecordsTyped
    <2>2. tape' = tape \/ Put(SnapshotRec(step))
      BY <1>2 DEF BeginStep
    <2>3. ~Splice
      BY <1>2 DEF BeginStep, Splice
    <2>4. QED
      BY <2>1, <2>2, <2>3, KindOf
  <1>3. CASE Decide
    <2>1. PICK v \in Verdicts : Put(PermissionRec(step, Call, v))
      BY <1>3 DEF Decide, NextCall, Verdicts
    <2>2. InBatch
      BY <1>3 DEF Decide, InBatch
    <2>3. PermissionRec(step, Call, v) \in Records
      BY <1>1, <2>2, CallTyped, RecordsTyped DEF Typed
    <2>4. QED
      BY <2>1, <2>3, KindOf
  <1>4. CASE Fit
    <2>1. InBatch
      BY <1>4 DEF Fit, InBatch
    <2>2. TruncatedRec(step, Call) \in Records
      BY <1>1, <2>1, CallTyped, RecordsTyped DEF Typed
    <2>3. tape' = tape \/ Put(TruncatedRec(step, Call))
      BY <1>4 DEF Fit
    <2>4. ~Splice
      BY <1>4 DEF Fit, Splice
    <2>5. QED
      BY <2>2, <2>3, <2>4, KindOf
  <1>5. CASE Splice
    <2>1. Replaced(messages) \in Nat
      BY SlicesInOrder DEF Typed, TypeOK
    <2>2. CompactionRec(step, Replaced(messages)) \in Records
      BY <1>1, <2>1, RecordsTyped
    <2>3. QED
      BY <1>5, <2>2, KindOf DEF Splice
  <1>6. QED
    BY <1>2, <1>3, <1>4, <1>5

\* A turn or a summary, from the cache or from the model, puts its response.
LEMMA ResponsePut ==
  ASSUME Typed, NEW r \in Responses, NEW k \in Keys, Put(StepRec(step, k, r))
  PROVE  /\ StepRec(step, k, r) \in Records
         /\ HistoryOf(tape') = Append(HistoryOf(tape), r.msg)
  <1>1. StepRec(step, k, r) \in Records
    BY Bounds, RecordsTyped DEF Typed, TypeOK
  <1>2. Said(StepRec(step, k, r)) = r.msg
    BY DEF Said, StepRec
  <1>3. tape \in Seq(Records)
    BY DEF Typed, TypeOK
  <1>4. QED
    BY <1>1, <1>2, <1>3, KindOf, HistoryAppend DEF Put

LEMMA MessagePut ==
  ASSUME Typed, NEW n \in Nat, NEW m \in Messages, Put(MessageRec(n, m))
  PROVE  /\ MessageRec(n, m) \in Records
         /\ HistoryOf(tape') = Append(HistoryOf(tape), m)
  <1>1. MessageRec(n, m) \in Records
    BY RecordsTyped
  <1>2. Said(MessageRec(n, m)) = m
    BY DEF Said, MessageRec
  <1>3. tape \in Seq(Records)
    BY DEF Typed, TypeOK
  <1>4. QED
    BY <1>1, <1>2, <1>3, KindOf, HistoryAppend DEF Put

-----------------------------------------------------------------------------
(* The conversation on the tape *)

\* The tape is behind the memory by the messages that a run logs when it starts, and
\* by nothing else; without a budget nothing is taken out of the memory.
ToldInv ==
  /\ pc = "start" => tape = <<>>
  /\ pc = "log" => HistoryOf(tape) = SubSeq(messages, 1, logged)
  /\ Alive => HistoryOf(tape) = messages
  /\ pc \notin {"compact", "summarise", "splice"}

\* The steps that are not a message of the conversation.
LEMMA SilentSteps ==
  ASSUME Typed,
         \/ Ceiling \/ BeginStep \/ CheckToken \/ AskModel \/ TurnCancelled \/ ProviderFails
         \/ Decide \/ NoPolicy \/ Dispatch \/ Fit \/ RecordResult
         \/ RecordCancelled \/ Close \/ Cancel \/ Crash \/ UNCHANGED vars
  PROVE  UNCHANGED <<messages, logged>> /\ HistoryOf(tape') = HistoryOf(tape)
  <1>1. UNCHANGED <<messages, logged>>
    BY DEF Ceiling, BeginStep, CheckToken, AskModel, TurnCancelled, ProviderFails,
           Decide, NoPolicy, Dispatch, Fit, RecordResult, RecordCancelled, Close, Cancel, Crash,
           vars, built, talk
  <1>2. step \in Nat /\ tape \in Seq(Records)
    BY Bounds DEF Typed, TypeOK
  <1>3. ASSUME NEW r \in Records, Put(r), r.kind \notin {"message", "step"}
        PROVE  HistoryOf(tape') = HistoryOf(tape)
    BY <1>2, <1>3, HistoryAppend DEF Put
  <1>4. CASE BeginStep \/ Decide \/ Fit
    <2>1. \/ tape' = tape
          \/ \E r \in Records : Put(r) /\ r.kind \notin {"message", "step"}
      BY <1>4, AsidePut
    <2>2. QED
      BY <1>1, <1>3, <2>1
  <1>5. CASE RecordResult
    <2> DEFINE failed == content.what \in {"error", "denied"}
    <2>1. Call \in Tools /\ Effect(Call) \in {"read", "write"} /\ failed \in BOOLEAN
      BY <1>5, CallTyped DEF RecordResult, InBatch, Typed, Effect
    <2>2. Put(ToolRec(step, Call, Effect(Call), failed))
      BY <1>5 DEF RecordResult
    <2> HIDE DEF failed
    <2>3. ToolRec(step, Call, Effect(Call), failed) \in Records
      BY <1>2, <2>1, RecordsTyped
    <2>4. QED
      BY <1>1, <1>3, <2>2, <2>3, KindOf
  <1>6. CASE RecordCancelled \/ Close
    <2>1. CancelledRec(step) \in Records /\ RunEnd(step, stop, broke) \in Records
      BY <1>2, RecordsTyped DEF Typed, TypeOK
    <2>2. Put(CancelledRec(step)) \/ Put(RunEnd(step, stop, broke))
      BY <1>6 DEF RecordCancelled, Close
    <2>3. QED
      BY <1>1, <1>3, <2>1, <2>2, KindOf
  <1>7. CASE Ceiling \/ CheckToken \/ AskModel \/ TurnCancelled \/ ProviderFails \/ NoPolicy
             \/ Dispatch \/ Cancel \/ Crash \/ UNCHANGED vars
    BY <1>1, <1>7 DEF Ceiling, CheckToken, AskModel, TurnCancelled, ProviderFails, NoPolicy,
                      Dispatch, Cancel, Crash, vars
  <1>8. QED
    BY <1>4, <1>5, <1>6, <1>7

\* The next logged message is the next of the tape's conversation.
LEMMA LogTells ==
  ASSUME Typed, ToldInv, LogMessage
  PROVE  /\ messages[logged + 1] \in Messages
         /\ HistoryOf(tape') = Append(HistoryOf(tape), messages[logged + 1])
         /\ HistoryOf(tape') = SubSeq(messages, 1, logged + 1)
  <1>1. /\ messages \in Seq(Messages) /\ Len(messages) \in Nat /\ logged \in Nat
        /\ logged + 1 \in 1..Len(messages)
    BY LenProperties DEF LogMessage, Typed, TypeOK
  <1>2. messages[logged + 1] \in Messages
    BY <1>1, ElementOfSeq
  <1>3. HistoryOf(tape') = Append(HistoryOf(tape), messages[logged + 1])
    BY <1>2, MessagePut DEF LogMessage
  <1>4. HistoryOf(tape) = SubSeq(messages, 1, logged)
    BY DEF LogMessage, ToldInv
  <1>5. SubSeq(messages, 1, logged + 1) = SubSeq(messages, 1, logged) \o <<messages[logged + 1]>>
    <2>1. 1 \in 1..Len(messages) /\ logged + 1 \in 1..Len(messages) /\ (logged + 1) - 1 = logged
      BY <1>1
    <2>2. QED
      BY <1>1, <2>1, SubSeqRecursiveSecond
  <1>6. SubSeq(messages, 1, logged) \in Seq(Messages)
    BY <1>1, SubSeqFacts
  <1>7. Append(SubSeq(messages, 1, logged), messages[logged + 1])
          = SubSeq(messages, 1, logged) \o <<messages[logged + 1]>>
    BY <1>2, <1>6, AppendIsConcat
  <1>8. QED
    BY <1>2, <1>3, <1>4, <1>5, <1>7

\* A turn goes to the memory and to the tape in one step.
LEMMA AnswerTells ==
  ASSUME Typed, NEW r \in Responses, Answered(r)
  PROVE  /\ messages' = Append(messages, r.msg)
         /\ HistoryOf(tape') = Append(HistoryOf(tape), r.msg)
         /\ pc' \in {"decide", "end"} /\ logged' = logged
  <1>1. Put(StepRec(step, Key, r)) /\ Key \in Keys
    BY KeysTyped DEF Answered, Typed
  <1>2. QED
    BY <1>1, ResponsePut DEF Answered, built

\* So does a batch of results.
LEMMA BatchTells ==
  ASSUME Typed, RecordBatch
  PROVE  /\ messages' = Append(messages, Results(batch))
         /\ HistoryOf(tape') = Append(HistoryOf(tape), Results(batch))
         /\ pc' \in {"compact", "top"} /\ logged' = logged
  <1>1. step \in Nat /\ Results(batch) \in Messages
    BY Bounds, MessagesTyped DEF Typed, TypeOK
  <1>2. Put(MessageRec(step, Results(batch)))
    BY DEF RecordBatch
  <1>3. QED
    BY <1>1, <1>2, MessagePut DEF RecordBatch, built

LEMMA StartTells ==
  ASSUME Typed, Start, tape = <<>>
  PROVE  HistoryOf(tape') = <<>>
  <1>1. RunStart(agent.resumed) \in Records
    BY RecordsTyped DEF Typed, TypeOK
  <1>2. tape' = Append(tape, RunStart(agent.resumed)) /\ tape \in Seq(Records)
    BY DEF Start, Put, Typed, TypeOK
  <1>3. RunStart(agent.resumed).kind = "run_start"
    BY DEF RunStart
  <1> DEFINE r == RunStart(agent.resumed)
  <1> HIDE DEF r
  <1>4. HistoryOf(Append(tape, r)) = HistoryOf(tape)
    BY <1>1, <1>2, <1>3, HistoryAppend DEF r
  <1>5. QED
    BY <1>2, <1>4, HistoryEmpty DEF r

LEMMA ToldInit == Init => ToldInv
  BY DEF Init, ToldInv, Alive

LEMMA ToldNext ==
  ASSUME ~HasBudget, Typed, ToldInv, [Next]_vars
  PROVE  ToldInv'
  <1>1. CASE Start
    <2>1. pc = "start" /\ pc' = "log" /\ UNCHANGED <<messages, logged>> /\ logged = 0
      BY <1>1 DEF Start, talk, built, Typed
    <2>2. HistoryOf(tape') = <<>>
      BY <1>1, <2>1, StartTells DEF ToldInv
    <2>3. SubSeq(messages, 1, 0) = <<>>
      BY SubSeqEmpty
    <2>4. QED
      BY <2>1, <2>2, <2>3 DEF ToldInv, Alive
  <1>2. CASE LogMessage
    <2>1. /\ HistoryOf(tape') = SubSeq(messages', 1, logged')
          /\ messages' = messages /\ messages \in Seq(Messages)
      BY <1>2, LogTells DEF LogMessage, talk, Typed, TypeOK
    <2>2. pc' = "log" \/ (pc' = "top" /\ logged' = Len(messages'))
      BY <1>2 DEF LogMessage, talk
    <2>3. SubSeq(messages, 1, Len(messages)) = messages
      BY <2>1, SubSeqFull
    <2>4. QED
      BY <2>1, <2>2, <2>3 DEF ToldInv, Alive
  <1>3. CASE ServedFromCache \/ TurnReturns
    <2>1. PICK r \in Responses : Answered(r)
      BY <1>3, OffersTyped DEF ServedFromCache, TurnReturns, Typed, TypeOK
    <2>2. pc \in {"lookup", "turn"}
      BY <1>3 DEF ServedFromCache, TurnReturns
    <2>3. HistoryOf(tape) = messages
      BY <2>2 DEF ToldInv, Alive
    <2>4. HistoryOf(tape') = messages' /\ pc' \in {"decide", "end"}
      BY <2>1, <2>3, AnswerTells
    <2>5. QED
      BY <2>4 DEF ToldInv, Alive
  <1>4. CASE RecordBatch
    <2>1. HistoryOf(tape) = messages
      BY <1>4 DEF RecordBatch, ToldInv, Alive
    <2>2. HistoryOf(tape') = messages'
      BY <1>4, <2>1, BatchTells
    <2>3. pc' = "top"
      BY <1>4 DEF RecordBatch, Due
    <2>4. QED
      BY <2>2, <2>3 DEF ToldInv, Alive
  <1>5. CASE SummaryFromCache \/ AskSummary \/ SummaryReturns \/ Splice
    BY <1>5 DEF SummaryFromCache, AskSummary, SummaryReturns, Splice, ToldInv
  <1>6. CASE \/ Ceiling \/ BeginStep \/ CheckToken \/ AskModel \/ TurnCancelled \/ ProviderFails
             \/ Decide \/ NoPolicy \/ Dispatch \/ Fit \/ RecordResult
             \/ RecordCancelled \/ Close \/ Cancel \/ Crash \/ UNCHANGED vars
    <2>1. UNCHANGED <<messages, logged>> /\ HistoryOf(tape') = HistoryOf(tape)
      BY <1>6, SilentSteps
    <2>2. \/ pc' = pc /\ tape' = tape
          \/ pc' = "crashed"
          \/ /\ Alive /\ pc' # "start" /\ pc' # "log"
             /\ pc' \notin {"compact", "summarise", "splice"}
      BY <1>6 DEF Ceiling, BeginStep, CheckToken, AskModel, TurnCancelled, ProviderFails,
                  Decide, NextCall, NoPolicy, Dispatch, Fit, RecordResult, RecordCancelled, Close,
                  Cancel, Crash, vars, Alive
    <2>3. QED
      BY <2>1, <2>2 DEF ToldInv, Alive
  <1>7. QED
    BY <1>1, <1>2, <1>3, <1>4, <1>5, <1>6 DEF Next, Loop

\* Without a budget, what a reader of the tape takes for the conversation is, at every
\* request, the conversation the request is made from: run or resume, whatever tools
\* and human did before. (With one it is not: the summary takes the place of what the
\* tape still tells.)
THEOREM TapeTellsHistoryHolds ==
  ASSUME ~HasBudget
  PROVE  Spec => []TapeTellsHistory
  <1>1. ToldInv => TapeTellsHistory
    BY DEF ToldInv, TapeTellsHistory, Asks, Alive
  <1>2. Typed /\ ToldInv /\ [Next]_vars => ToldInv'
    BY ToldNext
  <1>3. QED
    BY TypedInit, TypedNext, ToldInit, <1>1, <1>2, PTL DEF Spec

-----------------------------------------------------------------------------
(* The tape of a cancelled run *)

\* The token is acted on between turns only.
WholeInv == broke => pc \in {"end", "close", "done", "crashed"} /\ Sendable(messages)

LEMMA WholeNext ==
  ASSUME TalkInv, WholeInv, [Next]_vars
  PROVE  WholeInv'
  <1>1. CASE CheckToken \/ TurnCancelled
    <2>1. pc' \in {"end", "lookup"} /\ (broke' => pc' = "end") /\ messages' = messages
          /\ pc \in {"check", "turn"}
      BY <1>1 DEF CheckToken, TurnCancelled, talk
    <2>2. QED
      BY <2>1 DEF TalkInv, WholeInv
  <1>2. CASE RecordCancelled \/ Close \/ Crash
    BY <1>2 DEF RecordCancelled, Close, Crash, flow, talk, WholeInv, Terminal
  <1>3. CASE Start \/ LogMessage \/ Ceiling \/ BeginStep \/ AskModel \/ ProviderFails
             \/ ServedFromCache \/ TurnReturns
    BY <1>3 DEF Start, LogMessage, Ceiling, BeginStep, AskModel, ProviderFails,
                ServedFromCache, TurnReturns, Answered, flow, WholeInv
  <1>4. CASE Decide \/ NoPolicy \/ Dispatch \/ Fit \/ RecordResult \/ RecordBatch
    BY <1>4 DEF Decide, NoPolicy, Dispatch, Fit, RecordResult, RecordBatch, flow, WholeInv
  <1>5. CASE SummaryFromCache \/ AskSummary \/ SummaryReturns \/ Splice
    BY <1>5 DEF SummaryFromCache, AskSummary, SummaryReturns, Splice, TalkInv
  <1>6. CASE Cancel \/ UNCHANGED vars
    BY <1>6 DEF Cancel, vars, flow, talk, WholeInv
  <1>7. QED
    BY <1>1, <1>2, <1>3, <1>4, <1>5, <1>6 DEF Next, Loop

\* Without a budget, and from a history that can be sent, the tape of a cancelled run
\* tells a conversation that can be sent as it is: no half turn, no batch cut short.
THEOREM CancelLeavesWholeHolds ==
  ASSUME Uncompacted
  PROVE  Spec => []CancelLeavesWhole
  <1>1. Init => TalkInv /\ WholeInv
    BY TalkInit DEF Init, WholeInv
  <1>2. ToldInv /\ WholeInv => CancelLeavesWhole
    BY DEF ToldInv, WholeInv, CancelLeavesWhole, Alive
  <1>3. Typed /\ ToldInv /\ [Next]_vars => ToldInv'
    BY ToldNext DEF Uncompacted
  <1>4. Typed /\ TalkInv /\ [Next]_vars => TalkInv'
    BY TalkNext
  <1>5. TalkInv /\ WholeInv /\ [Next]_vars => WholeInv'
    BY WholeNext
  <1>6. QED
    BY TypedInit, TypedNext, ToldInit, <1>1, <1>2, <1>3, <1>4, <1>5, PTL DEF Spec

-----------------------------------------------------------------------------
(* The tape implements Conversation *)

\* What a run may start from, besides that it could be sent: nothing comes before the
\* system prompt, and the model does not speak first.
Opens(ms) ==
  \A i \in 1..Len(ms) :
    /\ ms[i].role = "system" => i = 1
    /\ ms[i].role = "assistant" => i > 1
Talks == Uncompacted /\ \A h \in Histories : Opens(h.messages)

OpensInv == pc \in {"start", "log"} => Opens(messages)

LEMMA OpensInit ==
  ASSUME Talks
  PROVE  Init => OpensInv
  BY DEF Talks, Init, OpensInv

LEMMA OpensNext ==
  ASSUME OpensInv, [Next]_vars
  PROVE  OpensInv'
  <1>1. CASE Start \/ LogMessage \/ Cancel \/ UNCHANGED vars
    BY <1>1 DEF Start, LogMessage, Cancel, vars, talk, OpensInv
  <1>2. CASE ~(Start \/ LogMessage \/ Cancel \/ UNCHANGED vars)
    <2>1. pc' \notin {"start", "log"}
      BY <1>2 DEF Next, Loop, Ceiling, BeginStep, CheckToken, ServedFromCache, AskModel,
         TurnReturns, TurnCancelled, ProviderFails, Answered, Decide, NextCall, NoPolicy,
         Dispatch, Fit, RecordResult, RecordBatch, SummaryFromCache, AskSummary,
         SummaryReturns, Summarised, Splice, RecordCancelled, Close, Crash
    <2>2. QED
      BY <2>1 DEF OpensInv
  <1>3. QED
    BY <1>1, <1>2

\* One message more on the tape is a step of Conversation if the message fits there.
LEMMA OneMore ==
  ASSUME NEW m \in Messages, HistoryOf(tape) \in Seq(Messages),
         HistoryOf(tape') = Append(HistoryOf(tape), m)
  PROVE  Told!Grows /\ Told!New = m
  <1> DEFINE h == HistoryOf(tape)
  <1>1. Len(h) \in Nat
    BY LenProperties
  <1> HIDE DEF h
  <1>2. Len(Append(h, m)) = Len(h) + 1 /\ Append(h, m)[Len(h) + 1] = m
    BY AppendProperties DEF h
  <1>3. Len(Append(h, m)) > Len(h) /\ Append(h, m)[Len(Append(h, m))] = m
    BY <1>1, <1>2
  <1>4. Told!New = m
    BY <1>3 DEF h, Told!New
  <1>5. QED
    BY <1>3, <1>4 DEF h, Told!Grows

LEMMA SameDangling == \A m : Told!Dangling(m) <=> Dangling(m)
  BY DEF Told!Dangling, Dangling

LEMMA LoggedConverses ==
  ASSUME Typed, ToldInv, TalkInv, OpensInv, LogMessage
  PROVE  Told!Next
  <1> DEFINE h == SubSeq(messages, 1, logged)
             m == messages[logged + 1]
  <1>1. /\ messages \in Seq(Messages) /\ Len(messages) \in Nat /\ logged \in Nat
        /\ logged + 1 \in 1..Len(messages) /\ logged \in 0..Len(messages)
    BY LenProperties DEF LogMessage, Typed, TypeOK
  <1>2. HistoryOf(tape) = h /\ m \in Messages
    BY LogTells DEF LogMessage, ToldInv
  <1>3. /\ h \in Seq(Messages) /\ Len(h) = logged
        /\ logged > 0 => h[logged] = messages[logged]
    <2>1. \A i \in 1..logged : messages[i] \in Messages
      BY <1>1, ElementOfSeq
    <2>2. 1 \in Int /\ logged \in Int
      BY <1>1
    <2>3. /\ h \in Seq(Messages) /\ Len(h) = IF 1 <= logged THEN logged - 1 + 1 ELSE 0
          /\ \A i \in 1..logged - 1 + 1 : h[i] = messages[1 + i - 1]
      BY <2>1, <2>2, SubSeqProperties
    <2> HIDE DEF h
    <2>4. Len(h) = logged
      BY <1>1, <2>3
    <2>5. ASSUME logged > 0
          PROVE  h[logged] = messages[logged]
      <3>1. logged \in 1..logged - 1 + 1 /\ 1 + logged - 1 = logged
        BY <1>1, <2>5
      <3>2. h[logged] = messages[1 + logged - 1]
        BY <2>3, <3>1
      <3>3. QED
        BY <3>1, <3>2
    <2>6. QED
      BY <2>3, <2>4, <2>5
  <1>4. h = <<>> <=> logged = 0
    BY <1>1, <1>3, EmptySeq
  <1>5. Told!Grows /\ Told!New = m
    BY <1>2, <1>3, LogTells, OneMore
  <1> HIDE DEF h, m
  <1>6. Told!Unanswered <=> logged > 0 /\ Dangling(messages[logged])
    BY <1>1, <1>2, <1>3, <1>4, SameDangling DEF Told!Unanswered
  <1>7. /\ logged > 0 /\ Dangling(messages[logged]) =>
             m.role = "tool_results" /\ Len(m.results) = Len(messages[logged].calls)
        /\ m.role = "tool_results" => logged > 0 /\ Dangling(messages[logged])
    <2>1. Paired(messages)
      BY DEF TalkInv
    <2>2. logged > 0 => logged \in 1..Len(messages) - 1
      BY <1>1
    <2>3. (logged + 1) - 1 = logged
      BY <1>1
    <2>4. QED
      BY <1>1, <2>1, <2>2, <2>3 DEF Paired, m
  <1>8. /\ m.role = "system" => logged = 0
        /\ m.role = "assistant" => logged > 0
    <2>1. Opens(messages)
      BY DEF OpensInv, LogMessage
    <2>2. PICK i \in 1..Len(messages) : i = logged + 1
      BY <1>1
    <2>3. /\ messages[i].role = "system" => i = 1
          /\ messages[i].role = "assistant" => i > 1
      BY <2>1 DEF Opens
    <2>4. m = messages[i]
      BY <2>2 DEF m
    <2>5. QED
      BY <1>1, <2>2, <2>3, <2>4
  <1>9. m.role \in {"system", "user", "assistant", "tool_results"}
    BY <1>2 DEF Messages
  <1>10. CASE m.role = "system"
    BY <1>2, <1>4, <1>5, <1>8, <1>10 DEF Told!Prompt, Told!Next
  <1>11. CASE m.role = "user"
    BY <1>5, <1>6, <1>7, <1>11 DEF Told!Say, Told!Next
  <1>12. CASE m.role = "assistant"
    BY <1>2, <1>4, <1>5, <1>6, <1>7, <1>8, <1>12 DEF Told!Answer, Told!Next
  <1>13. CASE m.role = "tool_results"
    BY <1>2, <1>3, <1>5, <1>6, <1>7, <1>13 DEF Told!Report, Told!Next
  <1>14. QED
    BY <1>9, <1>10, <1>11, <1>12, <1>13

LEMMA AnswerConverses ==
  ASSUME Typed, ToldInv, TalkInv, pc \in {"lookup", "turn"}, NEW r \in Responses, Answered(r)
  PROVE  Told!Next
  <1>1. HistoryOf(tape) = messages /\ messages \in Seq(Messages) /\ messages # <<>>
    BY DEF ToldInv, Alive, Typed, TypeOK
  <1>2. r.msg \in Messages /\ r.msg.role = "assistant"
    BY ResponseParts
  <1>3. Told!Grows /\ Told!New = r.msg
    BY <1>1, <1>2, AnswerTells, OneMore
  <1>4. ~Told!Unanswered
    BY <1>1, SameDangling DEF TalkInv, Sendable, Told!Unanswered
  <1>5. QED
    BY <1>1, <1>2, <1>3, <1>4 DEF Told!Answer, Told!Next

LEMMA BatchConverses ==
  ASSUME Typed, ToldInv, TalkInv, RecordBatch
  PROVE  Told!Next
  <1>1. HistoryOf(tape) = messages /\ messages \in Seq(Messages) /\ messages # <<>>
    BY DEF RecordBatch, ToldInv, Alive, Typed, TypeOK
  <1>2. /\ Results(batch) \in Messages
        /\ Results(batch).role = "tool_results" /\ Results(batch).results = batch
    BY MessagesTyped DEF Results, Message, Typed, TypeOK
  <1>3. Told!Grows /\ Told!New = Results(batch)
    BY <1>1, <1>2, BatchTells, OneMore
  <1>4. /\ messages[Len(messages)] = response.msg /\ response.msg.calls # <<>>
        /\ Len(batch) = Len(response.msg.calls)
    BY DEF RecordBatch, TalkInv
  <1>5. Dangling(messages[Len(messages)])
    BY <1>4, ResponseParts DEF Dangling, Typed, TypeOK
  <1>6. QED
    BY <1>1, <1>2, <1>3, <1>4, <1>5, SameDangling DEF Told!Unanswered, Told!Report, Told!Next

LEMMA ConversesInit == Init => Told!Init
  BY HistoryEmpty DEF Init, Told!Init

LEMMA ConversesNext ==
  ASSUME Typed, ToldInv, TalkInv, OpensInv, [Next]_vars
  PROVE  [Told!Next]_(HistoryOf(tape))
  <1>1. CASE Start
    <2>1. tape = <<>>
      BY <1>1 DEF Start, ToldInv
    <2>2. HistoryOf(tape') = <<>>
      BY <1>1, <2>1, StartTells
    <2>3. QED
      BY <2>1, <2>2, HistoryEmpty
  <1>2. CASE LogMessage
    BY <1>2, LoggedConverses
  <1>3. CASE ServedFromCache \/ TurnReturns
    <2>1. PICK r \in Responses : Answered(r)
      BY <1>3, OffersTyped DEF ServedFromCache, TurnReturns, Typed, TypeOK
    <2>2. pc \in {"lookup", "turn"}
      BY <1>3 DEF ServedFromCache, TurnReturns
    <2>3. QED
      BY <2>1, <2>2, AnswerConverses
  <1>4. CASE RecordBatch
    BY <1>4, BatchConverses
  <1>5. CASE SummaryFromCache \/ AskSummary \/ SummaryReturns \/ Splice
    BY <1>5 DEF SummaryFromCache, AskSummary, SummaryReturns, Splice, ToldInv
  <1>6. CASE \/ Ceiling \/ BeginStep \/ CheckToken \/ AskModel \/ TurnCancelled \/ ProviderFails
             \/ Decide \/ NoPolicy \/ Dispatch \/ Fit \/ RecordResult
             \/ RecordCancelled \/ Close \/ Cancel \/ Crash \/ UNCHANGED vars
    BY <1>6, SilentSteps
  <1>7. QED
    BY <1>1, <1>2, <1>3, <1>4, <1>5, <1>6 DEF Next, Loop

\* Without a budget the tape implements Conversation: however the steps of a run, the
\* cancellation and a crash fall between the writes, what is on the tape grows by one
\* whole message at a time, and by one a provider would accept there.
THEOREM TellsConversationHolds ==
  ASSUME Talks
  PROVE  Spec => TellsConversation
  <1>1. Init => TalkInv /\ OpensInv
    BY TalkInit, OpensInit DEF Talks
  <1>2. Typed /\ ToldInv /\ [Next]_vars => ToldInv'
    BY ToldNext DEF Talks, Uncompacted
  <1>3. Typed /\ TalkInv /\ [Next]_vars => TalkInv'
    BY TalkNext DEF Talks
  <1>4. OpensInv /\ [Next]_vars => OpensInv'
    BY OpensNext
  <1>5. Typed /\ ToldInv /\ TalkInv /\ OpensInv /\ [Next]_vars => [Told!Next]_(HistoryOf(tape))
    BY ConversesNext
  <1>6. QED
    BY TypedInit, TypedNext, ToldInit, ConversesInit, <1>1, <1>2, <1>3, <1>4, <1>5, PTL
    DEF Spec, TellsConversation, Told!Spec

-----------------------------------------------------------------------------
(* What each step of the loop writes *)

LEMMA NothingPut ==
  ASSUME \/ Ceiling \/ CheckToken \/ AskModel \/ AskSummary \/ TurnCancelled \/ ProviderFails
         \/ NoPolicy \/ Dispatch \/ Cancel \/ Crash \/ UNCHANGED vars
  PROVE  tape' = tape
  BY DEF Ceiling, CheckToken, AskModel, AskSummary, TurnCancelled, ProviderFails, NoPolicy,
         Dispatch, Cancel, Crash, vars

LEMMA StartPut ==
  ASSUME Typed, Start
  PROVE  \E r \in Records : Put(r) /\ r.kind = "run_start" /\ r.step = 0
  <1>1. RunStart(agent.resumed) \in Records
    BY RecordsTyped DEF Typed, TypeOK
  <1>2. QED
    BY <1>1, KindOf DEF Start

LEMMA LogPut ==
  ASSUME Typed, LogMessage
  PROVE  \E r \in Records : Put(r) /\ r.kind = "message" /\ r.step = 0
  <1>1. messages[logged + 1] \in Messages
    <2>1. messages \in Seq(Messages) /\ logged + 1 \in 1..Len(messages)
      BY LenProperties DEF LogMessage, Typed, TypeOK
    <2>2. QED
      BY <2>1, ElementOfSeq
  <1>2. MessageRec(0, messages[logged + 1]) \in Records
    BY <1>1, RecordsTyped
  <1>3. QED
    BY <1>2, KindOf DEF LogMessage

LEMMA TurnPut ==
  ASSUME Typed, ServedFromCache \/ TurnReturns
  PROVE  \E a \in Responses : /\ Answered(a)
                              /\ StepRec(step, Key, a) \in Records /\ Put(StepRec(step, Key, a))
  <1>1. PICK a \in Responses : Answered(a)
    BY OffersTyped DEF ServedFromCache, TurnReturns, Typed, TypeOK
  <1>2. StepRec(step, Key, a) \in Records
    BY Bounds, KeysTyped, RecordsTyped DEF Typed, TypeOK
  <1>3. QED
    BY <1>1, <1>2 DEF Answered

LEMMA SummaryPut ==
  ASSUME Typed, SummaryFromCache \/ SummaryReturns
  PROVE  \E a \in Responses : /\ Summarised(a)
                              /\ StepRec(step, SummaryKey, a) \in Records
                              /\ Put(StepRec(step, SummaryKey, a))
  <1>1. PICK a \in Responses : Summarised(a)
    BY OffersTyped DEF SummaryFromCache, SummaryReturns, Typed, TypeOK
  <1>2. StepRec(step, SummaryKey, a) \in Records
    BY Bounds, KeysTyped, RecordsTyped DEF Typed, TypeOK
  <1>3. QED
    BY <1>1, <1>2 DEF Summarised

LEMMA ResultPut ==
  ASSUME Typed, RecordResult
  PROVE  \E b \in BOOLEAN : /\ ToolRec(step, Call, Effect(Call), b) \in Records
                            /\ Put(ToolRec(step, Call, Effect(Call), b))
  <1> DEFINE failed == content.what \in {"error", "denied"}
  <1>1. /\ Call \in Tools /\ Effect(Call) \in {"read", "write"} /\ failed \in BOOLEAN
        /\ step \in Nat
    BY Bounds, CallTyped DEF RecordResult, InBatch, Typed, TypeOK, Effect
  <1>2. Put(ToolRec(step, Call, Effect(Call), failed))
    BY DEF RecordResult
  <1> HIDE DEF failed
  <1>3. ToolRec(step, Call, Effect(Call), failed) \in Records
    BY <1>1, RecordsTyped
  <1>4. QED
    BY <1>1, <1>2, <1>3

LEMMA BatchPut ==
  ASSUME Typed, RecordBatch
  PROVE  /\ MessageRec(step, Results(batch)) \in Records
         /\ Put(MessageRec(step, Results(batch)))
  BY Bounds, MessagesTyped, RecordsTyped DEF RecordBatch, Typed, TypeOK

LEMMA EndPut ==
  ASSUME Typed
  PROVE  /\ RecordCancelled => CancelledRec(step) \in Records /\ Put(CancelledRec(step))
         /\ Close => RunEnd(step, stop, broke) \in Records /\ Put(RunEnd(step, stop, broke))
  BY Bounds, RecordsTyped DEF RecordCancelled, Close, Typed, TypeOK

-----------------------------------------------------------------------------
(* Why the run stopped *)

\* What the tape says of the end is there when the loop has got to it, and not before.
StopInv ==
  /\ broke => pc \in {"end", "close", "done", "crashed"}
  /\ pc = "close" => broke
  /\ Has(tape, "cancelled") => broke /\ pc \in {"close", "done", "crashed"}
  /\ broke /\ pc \in {"close", "done"} => Has(tape, "cancelled")
  /\ Has(tape, "run_end") <=> pc = "done"
  /\ ~broke /\ pc \in {"end", "done"} /\ stop # "other" =>
       StepsOf(tape) # <<>> /\ StepsOf(tape)[Len(StepsOf(tape))].response.stop = stop

\* A record that is neither a response nor about the end changes none of it.
LEMMA StopUntouched ==
  ASSUME Typed, tape' = tape \/ \E r \in Records : Put(r) /\ r.kind \notin {"step", "cancelled", "run_end"}
  PROVE  /\ Has(tape', "cancelled") <=> Has(tape, "cancelled")
         /\ Has(tape', "run_end") <=> Has(tape, "run_end")
         /\ StepsOf(tape') = StepsOf(tape)
  <1>1. tape \in Seq(Records)
    BY DEF Typed, TypeOK
  <1>2. CASE tape' = tape
    BY <1>2
  <1>3. ASSUME NEW r \in Records, tape' = Append(tape, r),
               r.kind # "step", r.kind # "cancelled", r.kind # "run_end"
        PROVE  /\ Has(tape', "cancelled") <=> Has(tape, "cancelled")
               /\ Has(tape', "run_end") <=> Has(tape, "run_end")
               /\ StepsOf(tape') = StepsOf(tape)
    <2>1. OfKind(Append(tape, r), {"step"}) = OfKind(tape, {"step"})
      BY <1>1, <1>3, OfKindAppend
    <2>2. QED
      BY <1>1, <1>3, <2>1, HasAppend DEF StepsOf
  <1>4. QED
    BY <1>2, <1>3 DEF Put

LEMMA StopNext ==
  ASSUME Typed, StopInv, [Next]_vars
  PROVE  StopInv'
  <1>1. tape \in Seq(Records)
    BY DEF Typed, TypeOK
  <1>2. CASE Start \/ LogMessage \/ RecordBatch \/ RecordResult \/ BeginStep \/ Decide \/ Fit \/ Splice
    <2>1. tape' = tape \/ \E r \in Records : Put(r) /\ r.kind \notin {"step", "cancelled", "run_end"}
      BY <1>2, StartPut, LogPut, BatchPut, ResultPut, AsidePut, KindOf
    <2>2. /\ pc \notin {"end", "close", "done", "crashed"} /\ broke' = broke
          /\ pc' \notin {"end", "close", "done", "crashed"}
      BY <1>2 DEF Start, LogMessage, RecordBatch, RecordResult, BeginStep, Decide, NextCall, Fit,
                  Splice, flow
    <2>3. QED
      BY <2>1, <2>2, StopUntouched DEF StopInv
  <1>3. CASE ServedFromCache \/ TurnReturns
    <2>1. PICK a \in Responses : /\ Answered(a) /\ StepRec(step, Key, a) \in Records
                                 /\ Put(StepRec(step, Key, a))
      BY <1>3, TurnPut
    <2> DEFINE r == StepRec(step, Key, a)
    <2>2. r \in Records /\ tape' = Append(tape, r) /\ r.kind = "step" /\ r.response = a
      BY <2>1, KindOf DEF Put
    <2> HIDE DEF r
    <2>3. /\ Has(tape', "cancelled") <=> Has(tape, "cancelled")
          /\ Has(tape', "run_end") <=> Has(tape, "run_end")
          /\ StepsOf(tape') = Append(StepsOf(tape), r)
      BY <1>1, <2>2, HasAppend, OfKindAppend DEF StepsOf
    <2>4. StepsOf(tape) \in Seq(Records)
      BY <1>1, OfKindTyped DEF StepsOf
    <2>5. StepsOf(tape') # <<>> /\ StepsOf(tape')[Len(StepsOf(tape'))].response.stop = a.stop
      BY <2>2, <2>3, <2>4, AppendFacts
    <2>6. /\ pc \in {"lookup", "turn"} /\ pc' \in {"decide", "end"}
          /\ broke' = broke /\ stop' = a.stop
      BY <1>3, <2>1 DEF ServedFromCache, TurnReturns, Answered
    <2>7. QED
      BY <2>3, <2>5, <2>6 DEF StopInv
  <1>4. CASE SummaryFromCache \/ SummaryReturns
    <2>1. PICK a \in Responses : /\ Summarised(a) /\ StepRec(step, SummaryKey, a) \in Records
                                 /\ Put(StepRec(step, SummaryKey, a))
      BY <1>4, SummaryPut
    <2>2. /\ Has(tape', "cancelled") <=> Has(tape, "cancelled")
          /\ Has(tape', "run_end") <=> Has(tape, "run_end")
      BY <1>1, <2>1, KindOf, HasAppend DEF Put
    <2>3. pc \in {"compact", "summarise"} /\ pc' \in {"top", "splice"} /\ broke' = broke
      BY <1>4, <2>1 DEF SummaryFromCache, SummaryReturns, Summarised
    <2>4. QED
      BY <2>2, <2>3 DEF StopInv
  <1>5. CASE RecordCancelled
    <2>1. CancelledRec(step) \in Records /\ Put(CancelledRec(step))
      BY <1>5, EndPut
    <2>2. Has(tape', "cancelled") /\ (Has(tape', "run_end") <=> Has(tape, "run_end"))
      BY <1>1, <2>1, KindOf, HasAppend DEF Put
    <2>3. pc = "end" /\ pc' = "close" /\ broke /\ broke' = broke
      BY <1>5 DEF RecordCancelled, flow
    <2>4. QED
      BY <2>2, <2>3 DEF StopInv
  <1>6. CASE Close
    <2>1. RunEnd(step, stop, broke) \in Records /\ Put(RunEnd(step, stop, broke))
      BY <1>6, EndPut
    <2>2. /\ Has(tape', "run_end") /\ (Has(tape', "cancelled") <=> Has(tape, "cancelled"))
          /\ StepsOf(tape') = StepsOf(tape)
      BY <1>1, <2>1, KindOf, HasAppend, OfKindAppend DEF Put, StepsOf
    <2>3. /\ pc = "close" \/ (pc = "end" /\ ~broke)
          /\ pc' = "done" /\ UNCHANGED <<broke, stop>>
      BY <1>6 DEF Close, flow
    <2>4. QED
      BY <2>2, <2>3 DEF StopInv
  <1>7. CASE \/ Ceiling \/ CheckToken \/ AskModel \/ AskSummary \/ TurnCancelled \/ ProviderFails
             \/ NoPolicy \/ Dispatch \/ Crash
    <2>1. tape' = tape
      BY <1>7, NothingPut
    <2>2. CASE Ceiling
      BY <2>1, <2>2 DEF Ceiling, StopInv
    <2>3. CASE CheckToken \/ TurnCancelled
      BY <2>1, <2>3 DEF CheckToken, TurnCancelled, StopInv
    <2>4. CASE AskModel \/ AskSummary \/ ProviderFails \/ NoPolicy \/ Dispatch
      BY <2>1, <2>4 DEF AskModel, AskSummary, ProviderFails, NoPolicy, Dispatch, StopInv, flow
    <2>5. CASE Crash
      BY <2>1, <2>5 DEF Crash, Terminal, StopInv, flow
    <2>6. QED
      BY <1>7, <2>2, <2>3, <2>4, <2>5
  <1>8. CASE Cancel \/ UNCHANGED vars
    BY <1>8, NothingPut DEF Cancel, vars, flow, StopInv
  <1>9. QED
    BY <1>2, <1>3, <1>4, <1>5, <1>6, <1>7, <1>8 DEF Next, Loop

\* Whatever ends a run - the model, the ceiling, a cancellation, an exception, a crash
\* between any two writes - plan_resume is not misled by the tape about why it stopped.
THEOREM StopIsToldHolds == Spec => []StopIsTold
  <1>1. Init => StopInv
    <2>1. ~Has(<<>>, "cancelled") /\ ~Has(<<>>, "run_end")
      BY DEF Has
    <2>2. QED
      BY <2>1 DEF Init, StopInv
  <1>2. StopInv => StopIsTold
    BY DEF StopInv, StopIsTold, StoppedBecause
  <1>3. QED
    BY TypedInit, TypedNext, StopNext, <1>1, <1>2, PTL DEF Spec

-----------------------------------------------------------------------------
(* One tape, one run *)

LEMMA PutFacts ==
  ASSUME Typed, NEW r \in Records, Put(r)
  PROVE  /\ Len(tape) \in Nat /\ Len(tape') = Len(tape) + 1
         /\ tape'[Len(tape) + 1] = r
         /\ \A i \in 1..Len(tape) : tape'[i] = tape[i]
  BY AppendFacts, LenProperties DEF Put, Typed, TypeOK

LEMMA StepsOfRecords == \A r \in Records : r.step \in Nat
  BY DEF Records

\* The steps of the records never go back, and none is of a step to come.
Sorted(t, n) ==
  /\ \A i \in 1..Len(t) : t[i].step <= n
  /\ \A i, j \in 1..Len(t) : i <= j => t[i].step <= t[j].step

Ordered ==
  /\ pc = "start" => tape = <<>>
  /\ pc \in {"start", "log"} => step = 0
  /\ pc \notin {"start", "crashed"} => tape # <<>>
  /\ Sorted(tape, step)
  /\ pc = "top" => step = 0 \/ \A i \in 1..Len(tape) : tape[i].step < step

\* A record is of the step the loop is in.
LEMMA PutNow ==
  ASSUME Typed, Ordered, [Next]_vars
  PROVE  tape' = tape \/ \E r \in Records : Put(r) /\ r.step = step
  <1>1. CASE Start \/ LogMessage
    <2>1. step = 0
      BY <1>1 DEF Start, LogMessage, Ordered
    <2>2. QED
      BY <1>1, <2>1, StartPut, LogPut
  <1>2. CASE ServedFromCache \/ TurnReturns \/ SummaryFromCache \/ SummaryReturns
    BY <1>2, TurnPut, SummaryPut, KindOf
  <1>3. CASE RecordResult \/ RecordBatch \/ RecordCancelled \/ Close
    BY <1>3, ResultPut, BatchPut, EndPut, KindOf
  <1>4. CASE BeginStep \/ Decide \/ Fit \/ Splice
    BY <1>4, AsidePut
  <1>5. CASE \/ Ceiling \/ CheckToken \/ AskModel \/ AskSummary \/ TurnCancelled \/ ProviderFails
             \/ NoPolicy \/ Dispatch \/ Cancel \/ Crash \/ UNCHANGED vars
    BY <1>5, NothingPut
  <1>6. QED
    BY <1>1, <1>2, <1>3, <1>4, <1>5 DEF Next, Loop

LEMMA SortedPut ==
  ASSUME Typed, Sorted(tape, step), tape' = tape \/ \E r \in Records : Put(r) /\ r.step = step
  PROVE  Sorted(tape', step)
  <1>1. CASE tape' = tape
    BY <1>1
  <1>2. ASSUME NEW r \in Records, Put(r), r.step = step
        PROVE  Sorted(tape', step)
    <2>1. /\ Len(tape) \in Nat /\ Len(tape') = Len(tape) + 1
          /\ tape'[Len(tape) + 1] = r /\ \A i \in 1..Len(tape) : tape'[i] = tape[i]
      BY <1>2, PutFacts
    <2>2. step \in Nat
      BY Bounds DEF Typed, TypeOK
    <2>3. \A i \in 1..Len(tape') : tape'[i].step <= step
      BY <1>2, <2>1, <2>2 DEF Sorted
    <2>4. ASSUME NEW i \in 1..Len(tape'), NEW j \in 1..Len(tape'), i <= j
          PROVE  tape'[i].step <= tape'[j].step
      <3>1. CASE j = Len(tape) + 1
        BY <1>2, <2>1, <2>3, <3>1
      <3>2. CASE j # Len(tape) + 1
        <4>1. i \in 1..Len(tape) /\ j \in 1..Len(tape)
          BY <2>1, <2>4, <3>2
        <4>2. QED
          BY <2>1, <2>4, <4>1 DEF Sorted
      <3>3. QED
        BY <3>1, <3>2
    <2>5. QED
      BY <2>3, <2>4 DEF Sorted
  <1>3. QED
    BY <1>1, <1>2

\* The loop variable moves when a step is over, and back when they are used up.
LEMMA StepMoves ==
  ASSUME Typed, [Next]_vars
  PROVE  \/ step' = step /\ pc' # "top" /\ pc' # "start"
         \/ step' = step /\ pc = "log"
         \/ step' = step + 1 /\ pc' = "top"
         \/ Ceiling
         \/ UNCHANGED <<pc, step, tape>>
  <1>1. CASE Start \/ BeginStep \/ CheckToken \/ AskModel \/ TurnCancelled \/ ProviderFails
    BY <1>1 DEF Start, BeginStep, CheckToken, AskModel, TurnCancelled, ProviderFails, flow
  <1>2. CASE ServedFromCache \/ TurnReturns
    BY <1>2 DEF ServedFromCache, TurnReturns, Answered
  <1>3. CASE Decide \/ NoPolicy \/ Dispatch \/ Fit \/ RecordResult
    BY <1>3 DEF Decide, NextCall, NoPolicy, Dispatch, Fit, RecordResult, flow
  <1>4. CASE RecordBatch \/ SummaryFromCache \/ AskSummary \/ SummaryReturns \/ Splice
    BY <1>4 DEF RecordBatch, SummaryFromCache, AskSummary, SummaryReturns, Summarised, Splice, flow
  <1>5. CASE RecordCancelled \/ Close \/ Crash
    BY <1>5 DEF RecordCancelled, Close, Crash, flow
  <1>6. CASE LogMessage \/ Ceiling
    BY <1>6 DEF LogMessage, flow
  <1>7. CASE Cancel \/ UNCHANGED vars
    BY <1>7 DEF Cancel, vars, flow
  <1>8. QED
    BY <1>1, <1>2, <1>3, <1>4, <1>5, <1>6, <1>7 DEF Next, Loop

LEMMA OrderedNext ==
  ASSUME Typed, Ordered, [Next]_vars
  PROVE  Ordered'
  <1>1. tape' = tape \/ \E r \in Records : Put(r) /\ r.step = step
    BY PutNow
  <1>2. Sorted(tape', step)
    BY <1>1, SortedPut DEF Ordered
  <1>3. step \in Nat /\ MaxSteps \in Nat
    BY Bounds DEF Typed, TypeOK
  <1>4. \A i \in 1..Len(tape') : tape'[i].step \in Nat
    <2>1. tape' \in Seq(Records)
      BY TypedNext DEF Typed, TypeOK
    <2>2. QED
      BY <2>1, ElementOfSeq, StepsOfRecords
  <1>5. pc' \notin {"start", "crashed"} => tape' # <<>>
    <2>1. ASSUME NEW r \in Records, Put(r)
          PROVE  tape' # <<>>
      BY <2>1, AppendFacts DEF Put, Typed, TypeOK
    <2>2. CASE Start
      BY <2>1, <2>2, StartPut
    <2>3. CASE ~Start
      <3>1. pc \notin {"start", "crashed"} \/ (pc' = pc /\ tape' = tape) \/ pc' = "crashed"
        BY <2>3 DEF Next, Loop, LogMessage, Ceiling, BeginStep, CheckToken, ServedFromCache,
           AskModel, TurnReturns, TurnCancelled, ProviderFails, Decide, NoPolicy,
           Dispatch, Fit, RecordResult, RecordBatch, SummaryFromCache, AskSummary,
           SummaryReturns, Splice, RecordCancelled, Close, Crash, Cancel, vars
      <3>2. QED
        BY <1>1, <2>1, <3>1 DEF Ordered
    <2>4. QED
      BY <2>2, <2>3
  <1>6. pc' = "log" => step' = 0
    <2>1. pc' = "log" => pc \in {"start", "log"}
      BY DEF Next, Loop, Start, LogMessage, Ceiling, BeginStep, CheckToken, ServedFromCache,
         AskModel, TurnReturns, TurnCancelled, ProviderFails, Answered, Decide, NextCall, NoPolicy,
         Dispatch, Fit, RecordResult, RecordBatch, SummaryFromCache, AskSummary,
         SummaryReturns, Summarised, Splice, RecordCancelled, Close, Crash, Cancel, vars
    <2>2. QED
      BY <2>1, StepMoves DEF Ordered, Ceiling
  <1>7. CASE step' = step /\ pc' # "top" /\ pc' # "start"
    BY <1>2, <1>5, <1>6, <1>7 DEF Ordered
  <1>8. CASE step' = step /\ pc = "log"
    <2>1. step = 0 /\ pc' # "start"
      BY <1>8 DEF Ordered, Next, Loop, Start, LogMessage, Ceiling, BeginStep, CheckToken,
         ServedFromCache, AskModel, TurnReturns, TurnCancelled, ProviderFails, Decide, NoPolicy,
         Dispatch, Fit, RecordResult, RecordBatch, SummaryFromCache, AskSummary,
         SummaryReturns, Splice, RecordCancelled, Close, Crash, Cancel, vars
    <2>2. QED
      BY <1>2, <1>5, <1>6, <1>8, <2>1 DEF Ordered
  <1>9. CASE step' = step + 1 /\ pc' = "top"
    <2>1. \A i \in 1..Len(tape') : tape'[i].step < step'
      BY <1>2, <1>3, <1>4, <1>9 DEF Sorted
    <2>2. \A i \in 1..Len(tape') : tape'[i].step <= step'
      BY <1>3, <1>4, <1>9, <2>1
    <2>3. QED
      BY <1>2, <1>5, <1>9, <2>1, <2>2 DEF Ordered, Sorted
  <1>10. CASE Ceiling
    <2>1. pc = "top" /\ step = MaxSteps /\ tape' = tape /\ pc' = "end"
          /\ step' = IF MaxSteps = 0 THEN 0 ELSE MaxSteps - 1
      BY <1>10 DEF Ceiling
    <2>2. \A i \in 1..Len(tape') : tape'[i].step <= step'
      BY <1>2, <1>3, <1>4, <2>1 DEF Ordered, Sorted
    <2>3. QED
      BY <1>2, <1>5, <2>1, <2>2 DEF Ordered, Sorted
  <1>11. CASE UNCHANGED <<pc, step, tape>>
    BY <1>11 DEF Ordered
  <1>12. QED
    BY <1>7, <1>8, <1>9, <1>10, <1>11, StepMoves

\* Where the first and the last records are.
Ends ==
  /\ \A i \in 1..Len(tape) :
       /\ tape[i].kind = "run_start" <=> i = 1
       /\ tape[i].kind = "run_end" => i = Len(tape) /\ pc = "done"
       /\ tape[i].kind = "cancelled" => \/ i = Len(tape) /\ pc \in {"close", "crashed"}
                                        \/ i = Len(tape) - 1 /\ pc = "done"
  /\ pc = "close" => broke /\ tape[Len(tape)].kind = "cancelled"
  /\ pc = "done" => (tape[Len(tape)].cancelled <=> tape[Len(tape)-1].kind = "cancelled")

LEMMA EndsNext ==
  ASSUME Typed, Ordered, Ends, [Next]_vars
  PROVE  Ends'
  <1>1. Len(tape) \in Nat /\ (pc \notin {"start", "crashed"} => Len(tape) > 0)
    BY EmptySeq, LenProperties DEF Typed, TypeOK, Ordered
  <1>2. ASSUME NEW r \in Records, Put(r), pc \notin {"start", "close", "done", "crashed"},
               r.kind \notin {"run_start", "run_end", "cancelled"},
               pc' \notin {"close", "done"}
        PROVE  Ends'
    <2>1. /\ Len(tape') = Len(tape) + 1 /\ tape'[Len(tape) + 1] = r
          /\ \A i \in 1..Len(tape) : tape'[i] = tape[i]
      BY <1>2, PutFacts
    <2>2. ASSUME NEW i \in 1..Len(tape')
          PROVE  /\ tape'[i].kind = "run_start" <=> i = 1
                 /\ tape'[i].kind # "run_end" /\ tape'[i].kind # "cancelled"
      <3>1. CASE i \in 1..Len(tape)
        BY <1>2, <2>1, <3>1 DEF Ends
      <3>2. CASE i = Len(tape) + 1
        BY <1>1, <1>2, <2>1, <3>2
      <3>3. QED
        BY <1>1, <2>1, <3>1, <3>2
    <2>3. QED
      BY <1>2, <2>2 DEF Ends
  <1>3. ASSUME tape' = tape, pc \notin {"close", "done", "crashed"},
               pc' \notin {"close", "done"}
        PROVE  Ends'
    BY <1>3 DEF Ends
  <1>4. CASE Start
    <2>1. PICK r \in Records : Put(r) /\ r.kind = "run_start"
      BY <1>4, StartPut
    <2>2. Len(tape) = 0 /\ pc' = "log"
      BY <1>4 DEF Start, Ordered
    <2>3. Len(tape') = 1 /\ tape'[1] = r
      BY <2>1, <2>2, PutFacts
    <2>4. QED
      BY <2>1, <2>2, <2>3 DEF Ends
  <1>5. CASE ServedFromCache \/ TurnReturns
    <2>1. PICK r \in Records : Put(r) /\ r.kind = "step"
      BY <1>5, TurnPut, KindOf
    <2>2. pc \in {"lookup", "turn"} /\ pc' \in {"decide", "end"}
      BY <1>5 DEF ServedFromCache, TurnReturns, Answered
    <2>3. QED
      BY <1>2, <2>1, <2>2
  <1>6. CASE SummaryFromCache \/ SummaryReturns
    <2>1. PICK r \in Records : Put(r) /\ r.kind = "step"
      BY <1>6, SummaryPut, KindOf
    <2>2. pc \in {"compact", "summarise"} /\ pc' \in {"splice", "top"}
      BY <1>6 DEF SummaryFromCache, SummaryReturns, Summarised
    <2>3. QED
      BY <1>2, <2>1, <2>2
  <1>7. CASE LogMessage \/ RecordBatch \/ RecordResult
    <2>1. PICK r \in Records : Put(r) /\ r.kind \in {"message", "tool_result"}
      BY <1>7, LogPut, BatchPut, ResultPut, KindOf
    <2>2. pc \in {"log", "batch", "result"} /\ pc' \in {"log", "top", "compact", "decide", "batch"}
      BY <1>7 DEF LogMessage, RecordBatch, RecordResult
    <2>3. QED
      BY <1>2, <2>1, <2>2
  <1>8. CASE BeginStep \/ Decide \/ Fit \/ Splice
    <2>1. /\ pc \in {"top", "decide", "fit", "splice"}
          /\ pc' \in {"check", "dispatch", "fit", "result", "top"}
      BY <1>8 DEF BeginStep, Decide, NextCall, Fit, Splice
    <2>2. CASE tape' = tape
      BY <1>3, <2>1, <2>2
    <2>3. ASSUME NEW r \in Records, Put(r),
                 r.kind \in {"snapshot", "permission", "truncated", "compaction"}
          PROVE  Ends'
      BY <1>2, <2>1, <2>3
    <2>4. QED
      BY <1>8, <2>2, <2>3, AsidePut
  <1>9. CASE RecordCancelled
    <2>1. PICK r \in Records : Put(r) /\ r.kind = "cancelled"
      BY <1>9, EndPut, KindOf
    <2>2. /\ Len(tape') = Len(tape) + 1 /\ tape'[Len(tape) + 1] = r
          /\ \A i \in 1..Len(tape) : tape'[i] = tape[i]
      BY <2>1, PutFacts
    <2>3. pc = "end" /\ broke /\ broke' = broke /\ pc' = "close"
      BY <1>9 DEF RecordCancelled, flow
    <2>4. ASSUME NEW i \in 1..Len(tape')
          PROVE  /\ tape'[i].kind = "run_start" <=> i = 1
                 /\ tape'[i].kind # "run_end"
                 /\ tape'[i].kind = "cancelled" => i = Len(tape')
      <3>1. CASE i \in 1..Len(tape)
        BY <2>2, <2>3, <3>1 DEF Ends
      <3>2. CASE i = Len(tape) + 1
        BY <1>1, <2>1, <2>2, <2>3, <3>2
      <3>3. QED
        BY <1>1, <2>2, <3>1, <3>2
    <2>5. QED
      BY <2>1, <2>2, <2>3, <2>4 DEF Ends
  <1>10. CASE Close
    <2>1. PICK r \in Records : Put(r) /\ r.kind = "run_end" /\ (r.cancelled <=> broke)
      BY <1>10, EndPut, KindOf
    <2>2. /\ Len(tape') = Len(tape) + 1 /\ tape'[Len(tape) + 1] = r
          /\ \A i \in 1..Len(tape) : tape'[i] = tape[i]
      BY <2>1, PutFacts
    <2>3. (pc = "close" \/ (pc = "end" /\ ~broke)) /\ pc' = "done"
      BY <1>10 DEF Close
    <2>4. ASSUME NEW i \in 1..Len(tape')
          PROVE  /\ tape'[i].kind = "run_start" <=> i = 1
                 /\ tape'[i].kind = "run_end" => i = Len(tape')
                 /\ tape'[i].kind = "cancelled" => i = Len(tape') - 1
      <3>1. CASE i \in 1..Len(tape)
        BY <1>1, <2>2, <2>3, <3>1 DEF Ends
      <3>2. CASE i = Len(tape) + 1
        BY <1>1, <2>1, <2>2, <2>3, <3>2
      <3>3. QED
        BY <1>1, <2>2, <3>1, <3>2
    <2>5. tape[Len(tape)].kind = "cancelled" <=> broke
      <3>1. Len(tape) \in 1..Len(tape)
        BY <1>1, <2>3
      <3>2. QED
        BY <2>3, <3>1 DEF Ends
    <2>6. Len(tape') - 1 = Len(tape) /\ tape'[Len(tape)] = tape[Len(tape)]
      BY <1>1, <2>2, <2>3
    <2>7. QED
      BY <2>1, <2>2, <2>3, <2>4, <2>5, <2>6 DEF Ends
  <1>11. CASE \/ Ceiling \/ CheckToken \/ AskModel \/ AskSummary \/ TurnCancelled \/ ProviderFails
              \/ NoPolicy \/ Dispatch
    <2>1. /\ pc \in {"top", "check", "lookup", "compact", "turn", "summarise", "decide", "dispatch"}
          /\ pc' \in {"end", "lookup", "turn", "summarise", "raised", "dispatch", "fit"}
      BY <1>11 DEF Ceiling, CheckToken, AskModel, AskSummary, TurnCancelled, ProviderFails,
                   NoPolicy, Dispatch
    <2>2. QED
      BY <1>3, <1>11, <2>1, NothingPut
  <1>12. CASE Crash
    BY <1>12 DEF Crash, Terminal, Ends
  <1>13. CASE Cancel \/ UNCHANGED vars
    BY <1>13 DEF Cancel, vars, flow, Ends
  <1>14. QED
    BY <1>4, <1>5, <1>6, <1>7, <1>8, <1>9, <1>10, <1>11, <1>12, <1>13 DEF Next, Loop

\* The results of a step among the first records of a tape.
ToolsOf(t, s, n) == {j \in 1..n : t[j].kind = "tool_result" /\ t[j].step = s}
Before == {"top", "check", "lookup", "turn"}

\* Every message of results has its results before it; the batch in hand has those of
\* the step, and before the answer of a step there are none of it.
Batches ==
  /\ pc = "log" => Len(tape) = logged + 1
  /\ pc \notin {"start", "log", "crashed"} => logged + 1 <= Len(tape)
  /\ \A i \in 1..Len(tape) : tape[i].kind = "message" /\ i > logged + 1 =>
       Len(tape[i].msg.results) = Cardinality(ToolsOf(tape, tape[i].step, i))
  /\ pc \in Before => \A i \in 1..Len(tape) : tape[i].kind = "tool_result" => tape[i].step < step
  /\ pc \in {"start", "log"} => \A i \in 1..Len(tape) : tape[i].kind # "tool_result"
  /\ InBatch \/ pc = "batch" => Len(batch) = Cardinality(ToolsOf(tape, step, Len(tape)))

LEMMA ToolsPut ==
  ASSUME Typed, NEW r \in Records, Put(r)
  PROVE  /\ \A i \in 1..Len(tape) : \A s : ToolsOf(tape', s, i) = ToolsOf(tape, s, i)
         /\ \A s : IsFiniteSet(ToolsOf(tape, s, Len(tape)))
         /\ \A s : ToolsOf(tape', s, Len(tape'))
              = IF r.kind = "tool_result" /\ r.step = s
                THEN ToolsOf(tape, s, Len(tape)) \cup {Len(tape) + 1}
                ELSE ToolsOf(tape, s, Len(tape))
         /\ \A s : Len(tape) + 1 \notin ToolsOf(tape, s, Len(tape))
  <1>1. /\ Len(tape) \in Nat /\ Len(tape') = Len(tape) + 1 /\ tape'[Len(tape) + 1] = r
        /\ \A i \in 1..Len(tape) : tape'[i] = tape[i]
    BY PutFacts
  <1>2. ASSUME NEW i \in 1..Len(tape), NEW s
        PROVE  ToolsOf(tape', s, i) = ToolsOf(tape, s, i)
    <2>1. \A j \in 1..i : j \in 1..Len(tape)
      BY <1>1
    <2>2. QED
      BY <1>1, <2>1 DEF ToolsOf
  <1>3. ASSUME NEW s
        PROVE  IsFiniteSet(ToolsOf(tape, s, Len(tape)))
    <2>1. IsFiniteSet(1..Len(tape)) /\ ToolsOf(tape, s, Len(tape)) \subseteq 1..Len(tape)
      BY <1>1, FS_Interval DEF ToolsOf
    <2>2. QED
      BY <2>1, FS_Subset
  <1>4. ASSUME NEW s
        PROVE  ToolsOf(tape', s, Len(tape'))
                 = IF r.kind = "tool_result" /\ r.step = s
                   THEN ToolsOf(tape, s, Len(tape)) \cup {Len(tape) + 1}
                   ELSE ToolsOf(tape, s, Len(tape))
    <2>1. ASSUME NEW j
          PROVE  j \in ToolsOf(tape', s, Len(tape')) <=>
                   j \in ToolsOf(tape, s, Len(tape))
                     \/ (j = Len(tape) + 1 /\ r.kind = "tool_result" /\ r.step = s)
      <3>1. j \in 1..Len(tape') <=> j \in 1..Len(tape) \/ j = Len(tape) + 1
        BY <1>1
      <3>2. Len(tape) + 1 \notin 1..Len(tape)
        BY <1>1
      <3>3. QED
        BY <1>1, <3>1, <3>2 DEF ToolsOf
    <2>2. QED
      BY <2>1
  <1>5. \A s : Len(tape) + 1 \notin ToolsOf(tape, s, Len(tape))
    BY <1>1 DEF ToolsOf
  <1>6. QED
    BY <1>2, <1>3, <1>4, <1>5

\* A record that is neither a result nor a message past the logged ones.
LEMMA BatchesAside ==
  ASSUME Typed, Batches, NEW r \in Records, Put(r),
         r.kind \notin {"tool_result", "message"}, logged' = logged,
         pc \notin {"start", "log", "crashed"}
  PROVE  /\ logged + 1 <= Len(tape')
         /\ \A i \in 1..Len(tape') : tape'[i].kind = "message" /\ i > logged + 1 =>
              Len(tape'[i].msg.results) = Cardinality(ToolsOf(tape', tape'[i].step, i))
         /\ \A s : ToolsOf(tape', s, Len(tape')) = ToolsOf(tape, s, Len(tape))
         /\ pc \in Before =>
              \A i \in 1..Len(tape') : tape'[i].kind = "tool_result" => tape'[i].step < step
  <1>1. /\ Len(tape) \in Nat /\ Len(tape') = Len(tape) + 1 /\ tape'[Len(tape) + 1] = r
        /\ \A i \in 1..Len(tape) : tape'[i] = tape[i]
    BY PutFacts
  <1>2. \A i \in 1..Len(tape') : i \in 1..Len(tape) \/ i = Len(tape) + 1
    BY <1>1
  <1>3. logged \in Nat /\ logged + 1 <= Len(tape)
    BY DEF Batches, Typed, TypeOK
  <1>4. ASSUME NEW i \in 1..Len(tape'), tape'[i].kind = "message", i > logged + 1
        PROVE  Len(tape'[i].msg.results) = Cardinality(ToolsOf(tape', tape'[i].step, i))
    <2>1. i \in 1..Len(tape)
      BY <1>1, <1>2, <1>4
    <2>2. tape'[i] = tape[i] /\ ToolsOf(tape', tape[i].step, i) = ToolsOf(tape, tape[i].step, i)
      BY <1>1, <2>1, ToolsPut
    <2>3. QED
      BY <1>4, <2>1, <2>2 DEF Batches
  <1>5. pc \in Before =>
          \A i \in 1..Len(tape') : tape'[i].kind = "tool_result" => tape'[i].step < step
    BY <1>1, <1>2 DEF Batches
  <1>6. \A s : ToolsOf(tape', s, Len(tape')) = ToolsOf(tape, s, Len(tape))
    BY ToolsPut
  <1>7. QED
    BY <1>1, <1>3, <1>4, <1>5, <1>6

LEMMA BehindTop ==
  ASSUME Typed, Ordered, [Next]_vars, pc # "log", pc # "top"
  PROVE  pc' = "top" => \A i \in 1..Len(tape') : tape'[i].step < step'
  <1> SUFFICES ASSUME pc' = "top"
               PROVE  \A i \in 1..Len(tape') : tape'[i].step < step'
    OBVIOUS
  <1>1. step' = step + 1 /\ step \in Nat
    BY StepMoves, Bounds DEF Ceiling, Typed, TypeOK
  <1>2. Sorted(tape', step)
    BY PutNow, SortedPut DEF Ordered
  <1>3. \A i \in 1..Len(tape') : tape'[i].step \in Nat
    <2>1. tape' \in Seq(Records)
      BY TypedNext DEF Typed, TypeOK
    <2>2. QED
      BY <2>1, ElementOfSeq, StepsOfRecords
  <1>4. QED
    BY <1>1, <1>2, <1>3 DEF Sorted

LEMMA BatchesNext ==
  ASSUME Typed, Ordered, Batches, [Next]_vars
  PROVE  Batches'
  <1>1. Len(tape) \in Nat /\ step \in Nat /\ logged \in Nat
    BY Bounds, LenProperties DEF Typed, TypeOK
  <1>2. CASE Start
    <2>1. PICK r \in Records : Put(r) /\ r.kind = "run_start"
      BY <1>2, StartPut
    <2>2. Len(tape) = 0 /\ logged = 0 /\ logged' = logged /\ pc' = "log"
      BY <1>2 DEF Start, Ordered, Typed, built
    <2>3. Len(tape') = 1 /\ tape'[1] = r
      BY <2>1, <2>2, PutFacts
    <2>4. QED
      BY <2>1, <2>2, <2>3 DEF Batches, InBatch
  <1>3. CASE LogMessage
    <2>1. PICK r \in Records : Put(r) /\ r.kind = "message"
      BY <1>3, LogPut
    <2>2. /\ Len(tape') = Len(tape) + 1 /\ tape'[Len(tape) + 1] = r
          /\ \A i \in 1..Len(tape) : tape'[i] = tape[i]
      BY <2>1, PutFacts
    <2>3. /\ pc = "log" /\ pc' \in {"log", "top"} /\ logged' = logged + 1
          /\ Len(tape) = logged + 1
      BY <1>3 DEF LogMessage, Batches
    <2>4. \A i \in 1..Len(tape') : tape'[i].kind # "tool_result" /\ ~(i > logged' + 1)
      BY <1>1, <2>1, <2>2, <2>3 DEF Batches
    <2>5. QED
      BY <1>1, <2>2, <2>3, <2>4 DEF Batches, InBatch
  <1>4. CASE ServedFromCache \/ TurnReturns
    <2>1. PICK r \in Records : Put(r) /\ r.kind = "step"
      BY <1>4, TurnPut, KindOf
    <2>2. /\ pc \in {"lookup", "turn"} /\ pc' \in {"decide", "end"}
          /\ UNCHANGED <<logged, step>> /\ batch' = <<>>
      BY <1>4 DEF ServedFromCache, TurnReturns, Answered, built
    <2>3. ToolsOf(tape', step, Len(tape')) = {}
      <3>1. \A i \in 1..Len(tape') : tape'[i].kind = "tool_result" => tape'[i].step < step
        BY <2>1, <2>2, BatchesAside DEF Before
      <3>2. QED
        BY <1>1, <3>1 DEF ToolsOf
    <2>4. Len(batch') = Cardinality(ToolsOf(tape', step, Len(tape')))
      BY <2>2, <2>3, FS_EmptySet
    <2>5. QED
      BY <2>1, <2>2, <2>4, BatchesAside DEF Batches, Before, InBatch
  <1>5. CASE SummaryFromCache \/ SummaryReturns \/ Splice
    <2>1. PICK r \in Records : Put(r) /\ r.kind \in {"step", "compaction"}
      <3>1. CASE SummaryFromCache \/ SummaryReturns
        BY <3>1, SummaryPut, KindOf
      <3>2. CASE Splice
        <4>1. CompactionRec(step, Replaced(messages)) \in Records
          BY <1>1, SlicesInOrder, RecordsTyped DEF Typed, TypeOK
        <4>2. QED
          BY <3>2, <4>1, KindOf DEF Splice
      <3>3. QED
        BY <1>5, <3>1, <3>2
    <2>2. /\ pc \in {"compact", "summarise", "splice"} /\ logged' = logged
          /\ \/ pc' = "splice"
             \/ pc' = "top" /\ step' = step + 1
      BY <1>5 DEF SummaryFromCache, SummaryReturns, Summarised, Splice, built
    <2>3. pc' = "top" => \A i \in 1..Len(tape') : tape'[i].step < step'
      BY <2>2, BehindTop
    <2>4. QED
      BY <2>1, <2>2, <2>3, BatchesAside DEF Batches, Before, InBatch
  <1>6. CASE BeginStep \/ Decide \/ Fit
    <2>1. /\ \/ pc = "top" /\ pc' = "check"
             \/ pc \in {"decide", "fit"} /\ pc' \in {"dispatch", "fit", "result"}
          /\ UNCHANGED <<logged, step, batch>>
      BY <1>6 DEF BeginStep, Decide, NextCall, Fit, built, flow, talk
    <2>2. CASE tape' = tape
      BY <2>1, <2>2 DEF Batches, Before, InBatch
    <2>3. ASSUME NEW r \in Records, Put(r),
                 r.kind \in {"snapshot", "permission", "truncated", "compaction"}
          PROVE  Batches'
      BY <2>1, <2>3, BatchesAside DEF Batches, Before, InBatch
    <2>4. QED
      BY <1>6, <2>2, <2>3, AsidePut
  <1>7. CASE RecordResult
    <2>1. PICK r \in Records : Put(r) /\ r.kind = "tool_result" /\ r.step = step
      BY <1>7, ResultPut, KindOf
    <2>2. /\ Len(tape') = Len(tape) + 1 /\ tape'[Len(tape) + 1] = r
          /\ \A i \in 1..Len(tape) : tape'[i] = tape[i]
      BY <2>1, PutFacts
    <2>3. /\ pc = "result" /\ pc' \in {"batch", "decide"}
          /\ UNCHANGED <<logged, step>> /\ batch' = Append(batch, content)
      BY <1>7 DEF RecordResult, built, flow
    <2>4. Len(batch') = Len(batch) + 1
      BY <2>3, AppendFacts DEF Typed, TypeOK
    <2>5. Len(batch') = Cardinality(ToolsOf(tape', step, Len(tape')))
      <3> DEFINE T == ToolsOf(tape, step, Len(tape))
      <3>1. /\ IsFiniteSet(T) /\ Len(tape) + 1 \notin T
            /\ ToolsOf(tape', step, Len(tape')) = T \cup {Len(tape) + 1}
        BY <2>1, ToolsPut
      <3>2. Len(batch) = Cardinality(T)
        BY <2>3 DEF Batches, InBatch
      <3> HIDE DEF T
      <3>3. QED
        BY <2>4, <3>1, <3>2, FS_AddElement
    <2>6. ASSUME NEW i \in 1..Len(tape'), tape'[i].kind = "message", i > logged + 1
          PROVE  Len(tape'[i].msg.results) = Cardinality(ToolsOf(tape', tape'[i].step, i))
      <3>1. i \in 1..Len(tape)
        BY <1>1, <2>1, <2>2, <2>6
      <3>2. tape'[i] = tape[i] /\ ToolsOf(tape', tape[i].step, i) = ToolsOf(tape, tape[i].step, i)
        BY <2>1, <2>2, <3>1, ToolsPut
      <3>3. QED
        BY <2>6, <3>1, <3>2 DEF Batches
    <2>7. logged + 1 <= Len(tape')
      BY <1>1, <2>2, <2>3 DEF Batches
    <2>8. QED
      BY <2>3, <2>5, <2>6, <2>7 DEF Batches, Before, InBatch
  <1>8. CASE RecordBatch
    <2> DEFINE r == MessageRec(step, Results(batch))
    <2>1. /\ r \in Records /\ Put(r) /\ r.kind = "message" /\ r.step = step
          /\ r.msg.results = batch
      <3>1. r.kind = "message" /\ r.step = step /\ r.msg = Results(batch)
        BY DEF MessageRec
      <3>2. Results(batch).results = batch
        BY DEF Results, Message
      <3>3. QED
        BY <1>8, <3>1, <3>2, BatchPut
    <2> HIDE DEF r
    <2>2. /\ Len(tape') = Len(tape) + 1 /\ tape'[Len(tape) + 1] = r
          /\ \A i \in 1..Len(tape) : tape'[i] = tape[i]
      BY <2>1, PutFacts
    <2>3. /\ pc = "batch" /\ logged' = logged
          /\ \/ pc' = "compact" /\ step' = step
             \/ pc' = "top" /\ step' = step + 1
      BY <1>8 DEF RecordBatch, built
    <2>4. ASSUME NEW i \in 1..Len(tape'), tape'[i].kind = "message", i > logged + 1
          PROVE  Len(tape'[i].msg.results) = Cardinality(ToolsOf(tape', tape'[i].step, i))
      <3>1. CASE i \in 1..Len(tape)
        <4>1. tape'[i] = tape[i] /\ ToolsOf(tape', tape[i].step, i) = ToolsOf(tape, tape[i].step, i)
          BY <2>1, <2>2, <3>1, ToolsPut
        <4>2. QED
          BY <2>4, <3>1, <4>1 DEF Batches
      <3>2. CASE i = Len(tape')
        <4>1. ToolsOf(tape', step, Len(tape')) = ToolsOf(tape, step, Len(tape))
          BY <2>1, ToolsPut
        <4>2. Len(batch) = Cardinality(ToolsOf(tape, step, Len(tape)))
          BY <2>3 DEF Batches
        <4>3. tape'[i] = r
          BY <2>2, <3>2
        <4>4. QED
          BY <2>1, <3>2, <4>1, <4>2, <4>3
      <3>3. QED
        BY <1>1, <2>2, <3>1, <3>2
    <2>5. logged + 1 <= Len(tape')
      BY <1>1, <2>2, <2>3 DEF Batches
    <2>6. pc' = "top" => \A i \in 1..Len(tape') : tape'[i].step < step'
      BY <2>3, BehindTop
    <2>7. QED
      BY <2>3, <2>4, <2>5, <2>6 DEF Batches, Before, InBatch
  <1>9. CASE RecordCancelled \/ Close
    <2>1. PICK r \in Records : Put(r) /\ r.kind \in {"cancelled", "run_end"}
      BY <1>9, EndPut, KindOf
    <2>2. /\ pc \in {"end", "close"} /\ pc' \in {"close", "done"} /\ logged' = logged
      BY <1>9 DEF RecordCancelled, Close, built
    <2>3. QED
      BY <2>1, <2>2, BatchesAside DEF Batches, Before, InBatch
  <1>10. CASE \/ Ceiling \/ CheckToken \/ AskModel \/ AskSummary \/ TurnCancelled \/ ProviderFails
              \/ NoPolicy \/ Dispatch
    <2>1. tape' = tape
      BY <1>10, NothingPut
    <2>2. /\ \/ pc \notin {"start", "log", "crashed"} /\ pc' \in {"end", "raised", "summarise"}
             \/ pc \in Before /\ pc' \in {"lookup", "turn"} /\ step' = step
             \/ InBatch /\ pc' \in {"dispatch", "fit"} /\ UNCHANGED <<batch, step>>
          /\ logged' = logged
      BY <1>10 DEF Ceiling, CheckToken, AskModel, AskSummary, TurnCancelled, ProviderFails,
                   NoPolicy, Dispatch, built, flow, talk, Before, InBatch
    <2>3. QED
      BY <2>1, <2>2 DEF Batches, Before, InBatch
  <1>11. CASE Crash
    BY <1>11 DEF Crash, Terminal, Batches, Before, InBatch, built
  <1>12. CASE Cancel \/ UNCHANGED vars
    BY <1>12 DEF Cancel, vars, built, flow, talk, Batches, Before, InBatch
  <1>13. QED
    BY <1>2, <1>3, <1>4, <1>5, <1>6, <1>7, <1>8, <1>9, <1>10, <1>11, <1>12 DEF Next, Loop

\* However tools, the human, the provider, a cancellation or a crash interleave, the tape
\* is the tape of one run: one start, one end and nothing after it, no step before an
\* earlier one, and behind each message of results the results it carries.
THEOREM TapeIsOneRunHolds == Spec => []TapeIsOneRun
  <1>1. Init => Ordered /\ Ends /\ Batches
    <2>1. Len(<<>>) = 0
      OBVIOUS
    <2>2. QED
      BY <2>1 DEF Init, Ordered, Sorted, Ends, Batches, Before, InBatch
  <1>2. Typed /\ Ordered /\ Ends /\ Batches => TapeIsOneRun
    <2> SUFFICES ASSUME Typed, Ordered, Ends, Batches
                 PROVE  TapeIsOneRun
      OBVIOUS
    <2>1. Len(tape) \in Nat
      BY LenProperties DEF Typed, TypeOK
    <2>2. \A i \in 1..Len(tape) - 1 : tape[i].step <= tape[i+1].step
      <3> TAKE i \in 1..Len(tape) - 1
      <3>1. i \in 1..Len(tape) /\ i + 1 \in 1..Len(tape) /\ i <= i + 1
        BY <2>1
      <3>2. QED
        BY <3>1 DEF Ordered, Sorted
    <2>3. \A i \in 1..Len(tape) : tape[i].kind = "cancelled" => i >= Len(tape) - 1
      BY <2>1 DEF Ends
    <2>4. QED
      BY <2>2, <2>3 DEF TapeIsOneRun, Ends, Batches, ToolsOf
  <1>3. QED
    BY TypedInit, TypedNext, OrderedNext, EndsNext, BatchesNext, <1>1, <1>2, PTL DEF Spec

-----------------------------------------------------------------------------
(* The workspace and its writes *)

\* The effective writes on the tape, those before a step, and those from it on.
Written    == Backing(WritesOf(tape))
Earlier(s) == Backing(WritesBefore(tape, s))
Later(s)   == Backing(WritesOf(tape) \ WritesBefore(tape, s))

\* Between a tool and its result the workspace may be one change ahead of the tape.
Owed == IF pc = "crashed" \/ (pc \in {"fit", "result"} /\ Effective(Call)) THEN 1 ELSE 0

\* Where the loop stands with the snapshots, and what it may do next.
Placed ==
  /\ pc = "dispatch" /\ HasPolicy => Call \notin Denied
  /\ pc \in {"start", "log"} => DOMAIN snaps = {}
  /\ \A s \in DOMAIN snaps : s <= step /\ (pc = "top" => s < step)

WorldInv ==
  /\ world <= Written + Owed
  /\ \A s \in DOMAIN snaps : snaps[s] <= Earlier(s) /\ world <= snaps[s] + Later(s) + Owed

\* The effective ones among the writes at some places, on a tape.
Sure(t, places) == {i \in places : Effective(t[i].tool)}

LEMMA SureFacts ==
  ASSUME NEW t \in Seq(Records)
  PROVE  \A P \in SUBSET (1..Len(t)) :
           /\ IsFiniteSet(Sure(t, P)) /\ Sure(t, P) \subseteq 1..Len(t)
           /\ Cardinality(Sure(t, P)) \in Nat
  <1> TAKE P \in SUBSET (1..Len(t))
  <1>1. IsFiniteSet(1..Len(t))
    BY LenProperties, FS_Interval
  <1>2. Sure(t, P) \subseteq 1..Len(t)
    BY DEF Sure
  <1>3. IsFiniteSet(Sure(t, P))
    BY <1>1, <1>2, FS_Subset
  <1>4. QED
    BY <1>2, <1>3, FS_CardinalityType

LEMMA WritesPlaces ==
  ASSUME NEW t
  PROVE  /\ WritesOf(t) \subseteq 1..Len(t)
         /\ \A s : WritesBefore(t, s) \subseteq WritesOf(t)
  BY DEF WritesOf, WritesBefore, Places

LEMMA BackingTyped ==
  ASSUME Typed
  PROVE  Written \in Nat /\ \A s : Earlier(s) \in Nat /\ Later(s) \in Nat
  <1>1. tape \in Seq(Records)
    BY DEF Typed, TypeOK
  <1>2. \A P \in SUBSET (1..Len(tape)) : Backing(P) \in Nat
    BY <1>1, SureFacts DEF Backing, Sure
  <1>3. \A s : WritesOf(tape) \in SUBSET (1..Len(tape))
               /\ WritesBefore(tape, s) \in SUBSET (1..Len(tape))
               /\ WritesOf(tape) \ WritesBefore(tape, s) \in SUBSET (1..Len(tape))
    BY WritesPlaces
  <1>4. QED
    BY <1>2, <1>3 DEF Written, Earlier, Later

LEMMA OwedTyped ==
  /\ Owed \in {0, 1}
  /\ Owed' \in {0, 1}
  BY DEF Owed

\* What a step leaves on the tape is where it was.
LEMMA PlacesKept ==
  ASSUME Typed, NEW r \in Records, Put(r)
  PROVE  /\ \A P \in SUBSET (1..Len(tape)) : Sure(tape', P) = Sure(tape, P)
         /\ \A i \in 1..Len(tape) : i \in WritesOf(tape') <=> i \in WritesOf(tape)
         /\ \A i \in 1..Len(tape) : \A s :
              i \in WritesBefore(tape', s) <=> i \in WritesBefore(tape, s)
         /\ \A i \in WritesOf(tape') : i \in 1..Len(tape) \/ i = Len(tape) + 1
         /\ Len(tape) + 1 \in WritesOf(tape') <=> r.kind = "tool_result" /\ r.effect = "write"
         /\ \A s : Len(tape) + 1 \in WritesBefore(tape', s) <=>
              Len(tape) + 1 \in WritesOf(tape') /\ r.step < s
  <1>1. /\ Len(tape) \in Nat /\ Len(tape') = Len(tape) + 1 /\ tape'[Len(tape) + 1] = r
        /\ \A i \in 1..Len(tape) : tape'[i] = tape[i]
    BY PutFacts
  <1>2. \A P \in SUBSET (1..Len(tape)) : Sure(tape', P) = Sure(tape, P)
    BY <1>1 DEF Sure
  <1>3. /\ \A i \in 1..Len(tape) : i \in WritesOf(tape') <=> i \in WritesOf(tape)
        /\ \A i \in 1..Len(tape) : \A s :
             i \in WritesBefore(tape', s) <=> i \in WritesBefore(tape, s)
    BY <1>1 DEF WritesOf, WritesBefore, Places
  <1>4. \A i \in WritesOf(tape') : i \in 1..Len(tape) \/ i = Len(tape) + 1
    BY <1>1 DEF WritesOf, Places
  <1>5. Len(tape) + 1 \in WritesOf(tape') <=> r.kind = "tool_result" /\ r.effect = "write"
    BY <1>1 DEF WritesOf, Places
  <1>6. \A s : Len(tape) + 1 \in WritesBefore(tape', s) <=>
              Len(tape) + 1 \in WritesOf(tape') /\ r.step < s
    BY <1>1 DEF WritesBefore
  <1>7. QED
    BY <1>2, <1>3, <1>4, <1>5, <1>6

LEMMA SameBacking ==
  ASSUME Typed, tape' = tape \/ \E r \in Records : Put(r) /\ r.kind # "tool_result"
  PROVE  Written' = Written /\ \A s : (Earlier(s))' = Earlier(s) /\ (Later(s))' = Later(s)
  <1>1. CASE tape' = tape
    BY <1>1 DEF Written, Earlier, Later, Backing
  <1>2. ASSUME NEW r \in Records, Put(r), r.kind # "tool_result"
        PROVE  Written' = Written /\ \A s : (Earlier(s))' = Earlier(s) /\ (Later(s))' = Later(s)
    <2>1. WritesOf(tape') = WritesOf(tape)
      <3>1. ASSUME NEW i
            PROVE  i \in WritesOf(tape') <=> i \in WritesOf(tape)
        BY <1>2, PlacesKept, WritesPlaces
      <3>2. QED
        BY <3>1
    <2>2. ASSUME NEW s
          PROVE  WritesBefore(tape', s) = WritesBefore(tape, s)
      <3>1. ASSUME NEW i
            PROVE  i \in WritesBefore(tape', s) <=> i \in WritesBefore(tape, s)
        BY <1>2, <2>1, PlacesKept, WritesPlaces
      <3>2. QED
        BY <3>1
    <2>3. \A P \in SUBSET (1..Len(tape)) : Cardinality(Sure(tape', P)) = Cardinality(Sure(tape, P))
      BY <1>2, PlacesKept
    <2>4. \A s : /\ WritesOf(tape) \in SUBSET (1..Len(tape))
                 /\ WritesBefore(tape, s) \in SUBSET (1..Len(tape))
                 /\ WritesOf(tape) \ WritesBefore(tape, s) \in SUBSET (1..Len(tape))
      BY WritesPlaces
    <2>5. Written' = Written
      BY <2>1, <2>3, <2>4 DEF Written, Backing, Sure
    <2>6. ASSUME NEW s
          PROVE  (Earlier(s))' = Earlier(s) /\ (Later(s))' = Later(s)
      BY <2>1, <2>2, <2>3, <2>4 DEF Earlier, Later, Backing, Sure
    <2>7. QED
      BY <2>5, <2>6
  <1>3. QED
    BY <1>1, <1>2

LEMMA QuietWorld ==
  ASSUME Typed, WorldInv, UNCHANGED <<world, snaps>>, Owed <= Owed',
         tape' = tape \/ \E r \in Records : Put(r) /\ r.kind # "tool_result"
  PROVE  WorldInv'
  <1>1. Written' = Written /\ \A s : (Earlier(s))' = Earlier(s) /\ (Later(s))' = Later(s)
    BY SameBacking
  <1>2. Written \in Nat /\ \A s : Earlier(s) \in Nat /\ Later(s) \in Nat
    BY BackingTyped
  <1>3. Owed \in Nat /\ Owed' \in Nat /\ world \in Nat /\ \A s \in DOMAIN snaps : snaps[s] \in Nat
    BY OwedTyped DEF Typed, TypeOK
  <1>4. world' <= Written' + Owed'
    <2>1. world' = world /\ Written' = Written /\ Written \in Nat /\ world \in Nat
      BY <1>1, <1>2, <1>3
    <2>2. world <= Written + Owed /\ Owed \in Nat /\ Owed' \in Nat
      BY <1>3 DEF WorldInv
    <2>3. PICK w \in Nat, a \in Nat, o \in Nat, p \in Nat :
            w = world /\ a = Written /\ o = Owed /\ p = Owed'
      BY <2>1, <2>2
    <2>4. w <= a + o /\ o <= p
      BY <2>2, <2>3
    <2>5. w <= a + p
      BY <2>4
    <2>6. QED
      BY <2>1, <2>3, <2>5
  <1>5. ASSUME NEW s \in DOMAIN snaps'
        PROVE  snaps'[s] <= (Earlier(s))' /\ world' <= snaps'[s] + (Later(s))' + Owed'
    <2>1. /\ s \in DOMAIN snaps /\ snaps'[s] = snaps[s] /\ world' = world
          /\ (Earlier(s))' = Earlier(s) /\ (Later(s))' = Later(s)
          /\ Earlier(s) \in Nat /\ Later(s) \in Nat /\ snaps[s] \in Nat
      BY <1>1, <1>2, <1>3
    <2>2. snaps[s] <= Earlier(s) /\ world <= snaps[s] + Later(s) + Owed
      BY <2>1 DEF WorldInv
    <2>3. QED
      BY <1>3, <2>1, <2>2
  <1>6. QED
    BY <1>4, <1>5 DEF WorldInv

LEMMA PlacedNext ==
  ASSUME Typed, Ordered, Placed, [Next]_vars
  PROVE  Placed'
  <1>1. step \in Nat /\ \A s \in DOMAIN snaps : s \in Nat
    BY Bounds DEF Typed, TypeOK
  <1>2. pc' = "dispatch" /\ HasPolicy => Call' \notin Denied
    <2>1. CASE Decide
      BY <2>1 DEF Decide, NextCall, Call
    <2>2. CASE Cancel \/ UNCHANGED vars
      <3>1. UNCHANGED <<pc, response, batch>>
        BY <2>2 DEF Cancel, vars, talk
      <3>2. QED
        BY <3>1 DEF Placed, Call
    <2>3. CASE ~(Decide \/ Cancel \/ UNCHANGED vars)
      BY <2>3 DEF Next, Loop, Start, LogMessage, Ceiling, BeginStep, CheckToken,
         ServedFromCache, AskModel, TurnReturns, TurnCancelled, ProviderFails, Answered,
         NoPolicy, Dispatch, Fit, RecordResult, RecordBatch, SummaryFromCache, AskSummary,
         SummaryReturns, Summarised, Splice, RecordCancelled, Close, Crash
    <2>4. QED
      BY <2>1, <2>2, <2>3
  <1>3. CASE BeginStep
    <2>1. /\ pc' = "check" /\ step' = step
          /\ \A s \in DOMAIN snaps' : s \in DOMAIN snaps \/ s = step
      BY <1>3 DEF BeginStep, flow
    <2>2. QED
      BY <1>1, <1>2, <2>1 DEF Placed
  <1>4. CASE ~BeginStep
    <2>1. snaps' = snaps
      BY <1>4 DEF Next, Loop, Start, LogMessage, Ceiling, CheckToken,
         ServedFromCache, AskModel, TurnReturns, TurnCancelled, ProviderFails, Answered, Decide,
         NoPolicy, Dispatch, Fit, RecordResult, RecordBatch, SummaryFromCache, AskSummary,
         SummaryReturns, Summarised, Splice, RecordCancelled, Close, Crash, Cancel, vars, outside
    <2>2. pc' \in {"start", "log"} => pc \in {"start", "log"}
      BY DEF Next, Loop, Start, LogMessage, Ceiling, BeginStep, CheckToken, ServedFromCache,
         AskModel, TurnReturns, TurnCancelled, ProviderFails, Answered, Decide, NextCall, NoPolicy,
         Dispatch, Fit, RecordResult, RecordBatch, SummaryFromCache, AskSummary,
         SummaryReturns, Summarised, Splice, RecordCancelled, Close, Crash, Cancel, vars
    <2>3. ASSUME NEW s \in DOMAIN snaps
          PROVE  s <= step' /\ (pc' = "top" => s < step')
      <3>1. s \in Nat /\ s <= step /\ (pc = "top" => s < step) /\ pc \notin {"start", "log"}
        BY <1>1, <2>3 DEF Placed
      <3>2. CASE Ceiling
        <4>1. pc = "top" /\ step = MaxSteps /\ pc' = "end"
              /\ step' = IF MaxSteps = 0 THEN 0 ELSE MaxSteps - 1
          BY <3>2 DEF Ceiling
        <4>2. MaxSteps \in Nat
          BY Bounds
        <4>3. QED
          BY <3>1, <4>1, <4>2
      <3>3. CASE ~Ceiling
        BY <1>1, <3>1, <3>3, StepMoves
      <3>4. QED
        BY <3>2, <3>3
    <2>4. QED
      BY <1>2, <2>1, <2>2, <2>3 DEF Placed
  <1>5. QED
    BY <1>3, <1>4

\* The result of an effective call is the write that was owed.
LEMMA ResultPays ==
  ASSUME Typed, Ordered, Placed, WorldInv, RecordResult
  PROVE  WorldInv'
  <1>1. PICK b \in BOOLEAN : /\ ToolRec(step, Call, Effect(Call), b) \in Records
                             /\ Put(ToolRec(step, Call, Effect(Call), b))
    BY ResultPut
  <1> DEFINE r == ToolRec(step, Call, Effect(Call), b)
             n == Len(tape) + 1
  <1>2. /\ r \in Records /\ Put(r) /\ r.kind = "tool_result" /\ r.step = step
        /\ r.tool = Call /\ r.effect = Effect(Call)
    BY <1>1, KindOf
  <1> HIDE DEF r
  <1>3. Effective(Call) => r.effect = "write"
    BY <1>2 DEF Effective, Effect
  <1>4. /\ Len(tape) \in Nat /\ Len(tape') = n /\ tape'[n] = r
    BY <1>2, PutFacts
  <1>5. /\ pc = "result" /\ pc' \in {"batch", "decide"} /\ UNCHANGED <<world, snaps>>
    BY DEF RecordResult, outside
  <1>6. Owed = (IF Effective(Call) THEN 1 ELSE 0) /\ Owed' = 0
    BY <1>5 DEF Owed
  <1>7. tape \in Seq(Records) /\ tape' \in Seq(Records)
    <2>1. tape \in Seq(Records)
      BY DEF Typed, TypeOK
    <2>2. QED
      BY <1>2, <2>1, TapeGrows DEF Typed
  <1> HIDE DEF n
  \* What the new record adds to the effective writes at some places.
  <1>8. ASSUME NEW P \in SUBSET (1..Len(tape)), NEW Q \in SUBSET (1..Len(tape')),
               \A i \in 1..Len(tape) : i \in Q <=> i \in P, Effective(Call) => n \in Q
        PROVE  Cardinality(Sure(tape, P)) + Owed <= Cardinality(Sure(tape', Q))
    <2>1. /\ IsFiniteSet(Sure(tape, P)) /\ IsFiniteSet(Sure(tape', Q))
          /\ Cardinality(Sure(tape, P)) \in Nat /\ Cardinality(Sure(tape', Q)) \in Nat
          /\ Sure(tape, P) \subseteq 1..Len(tape)
      BY <1>7, SureFacts
    <2>2. Sure(tape, P) \subseteq Sure(tape', Q)
      <3>1. Sure(tape', P) = Sure(tape, P)
        BY <1>2, PlacesKept
      <3>2. P \subseteq Q
        BY <1>8
      <3>3. QED
        BY <3>1, <3>2 DEF Sure
    <2>3. CASE Effective(Call)
      <3>1. n \in Sure(tape', Q)
        BY <1>2, <1>4, <1>8, <2>3 DEF Sure
      <3>2. n \notin Sure(tape, P)
        BY <1>4, <2>1 DEF n
      <3>3. Cardinality(Sure(tape, P) \cup {n}) = Cardinality(Sure(tape, P)) + 1
        BY <2>1, <3>2, FS_AddElement
      <3>4. Sure(tape, P) \cup {n} \subseteq Sure(tape', Q)
        BY <2>2, <3>1
      <3>5. Cardinality(Sure(tape, P) \cup {n}) <= Cardinality(Sure(tape', Q))
        BY <2>1, <3>4, FS_Subset
      <3>6. QED
        BY <1>6, <2>3, <3>3, <3>5
    <2>4. CASE ~Effective(Call)
      <3>1. Cardinality(Sure(tape, P)) <= Cardinality(Sure(tape', Q))
        BY <2>1, <2>2, FS_Subset
      <3>2. QED
        BY <1>6, <2>1, <2>4, <3>1
    <2>5. QED
      BY <2>3, <2>4
  <1>9. /\ \A s : /\ WritesOf(tape) \in SUBSET (1..Len(tape))
                  /\ WritesOf(tape) \ WritesBefore(tape, s) \in SUBSET (1..Len(tape))
                  /\ WritesOf(tape') \in SUBSET (1..Len(tape'))
                  /\ WritesOf(tape') \ WritesBefore(tape', s) \in SUBSET (1..Len(tape'))
        /\ \A i \in 1..Len(tape) : i \in WritesOf(tape') <=> i \in WritesOf(tape)
        /\ Effective(Call) => n \in WritesOf(tape')
    BY <1>2, <1>3, WritesPlaces, PlacesKept DEF n
  <1>10. Written \in Nat /\ Written' \in Nat /\ Written + Owed <= Written'
    <2>1. Cardinality(Sure(tape, WritesOf(tape))) + Owed <= Cardinality(Sure(tape', WritesOf(tape')))
      BY <1>8, <1>9
    <2>2. /\ Cardinality(Sure(tape, WritesOf(tape))) \in Nat
          /\ Cardinality(Sure(tape', WritesOf(tape'))) \in Nat
      BY <1>7, <1>9, SureFacts
    <2>3. QED
      BY <2>1, <2>2 DEF Written, Backing, Sure
  <1>11. ASSUME NEW s \in DOMAIN snaps
         PROVE  snaps[s] <= (Earlier(s))' /\ world <= snaps[s] + (Later(s))'
    <2>1. /\ s \in Nat /\ step \in Nat /\ s <= step /\ snaps[s] \in Nat /\ world \in Nat
          /\ Owed \in {0, 1} /\ Earlier(s) \in Nat /\ Later(s) \in Nat
      BY Bounds, BackingTyped, OwedTyped DEF Typed, TypeOK, Placed
    <2>2. n \notin WritesBefore(tape', s)
      BY <1>2, <2>1, PlacesKept DEF n
    <2>3. \A i \in 1..Len(tape) : i \in WritesBefore(tape', s) <=> i \in WritesBefore(tape, s)
      BY <1>2, PlacesKept
    <2>4. WritesBefore(tape', s) = WritesBefore(tape, s)
      <3>1. ASSUME NEW i
            PROVE  i \in WritesBefore(tape', s) <=> i \in WritesBefore(tape, s)
        BY <1>2, <2>2, <2>3, PlacesKept, WritesPlaces DEF n
      <3>2. QED
        BY <3>1
    <2>5. Sure(tape', WritesBefore(tape, s)) = Sure(tape, WritesBefore(tape, s))
      <3>1. WritesBefore(tape, s) \in SUBSET (1..Len(tape))
        BY WritesPlaces
      <3>2. QED
        BY <1>2, <3>1, PlacesKept
    <2>6. (Earlier(s))' = Earlier(s)
      BY <2>4, <2>5 DEF Earlier, Backing, Sure
    <2>7. /\ Cardinality(Sure(tape, WritesOf(tape) \ WritesBefore(tape, s))) + Owed
               <= Cardinality(Sure(tape', WritesOf(tape') \ WritesBefore(tape', s)))
          /\ Cardinality(Sure(tape', WritesOf(tape') \ WritesBefore(tape', s))) \in Nat
      <3>1. /\ \A i \in 1..Len(tape) : i \in WritesOf(tape') \ WritesBefore(tape', s)
                 <=> i \in WritesOf(tape) \ WritesBefore(tape, s)
            /\ Effective(Call) => n \in WritesOf(tape') \ WritesBefore(tape', s)
        BY <1>9, <2>2, <2>3
      <3>2. QED
        BY <1>7, <1>8, <1>9, <3>1, SureFacts
    <2>8. Later(s) + Owed <= (Later(s))' /\ (Later(s))' \in Nat
      BY <2>7 DEF Later, Backing, Sure
    <2>9. snaps[s] <= Earlier(s) /\ world <= snaps[s] + Later(s) + Owed
      BY DEF WorldInv
    <2>10. QED
      BY <2>1, <2>6, <2>8, <2>9
  <1>12. world' <= Written' + Owed'
    <2>1. world <= Written + Owed /\ world \in Nat /\ Owed \in {0, 1} /\ world' = world
      BY <1>5, OwedTyped DEF WorldInv, Typed, TypeOK
    <2>2. PICK w \in Nat, a \in Nat, o \in Nat, b1 \in Nat :
            w = world /\ a = Written /\ o = Owed /\ b1 = Written'
      BY <1>10, <2>1
    <2>3. w <= a + o /\ a + o <= b1
      BY <1>10, <2>1, <2>2
    <2>4. w <= b1 + 0
      BY <2>3
    <2>5. QED
      BY <1>6, <2>1, <2>2, <2>4
  <1>13. ASSUME NEW s \in DOMAIN snaps'
         PROVE  snaps'[s] <= (Earlier(s))' /\ world' <= snaps'[s] + (Later(s))' + Owed'
    <2>1. s \in DOMAIN snaps /\ snaps'[s] = snaps[s] /\ world' = world
      BY <1>5
    <2>2. snaps[s] \in Nat /\ (Later(s))' \in Nat
      <3>1. WritesOf(tape') \ WritesBefore(tape', s) \in SUBSET (1..Len(tape'))
        BY <1>9
      <3>2. QED
        BY <1>7, <2>1, <3>1, SureFacts DEF Typed, TypeOK, Later, Backing, Sure
    <2>3. QED
      BY <1>6, <1>11, <2>1, <2>2
  <1>14. QED
    BY <1>12, <1>13 DEF WorldInv

\* Entering a step, every write on the tape is of an earlier one.
LEMMA AllEarlier ==
  ASSUME Typed, Batches, pc \in Before
  PROVE  Earlier(step) = Written
  <1>1. WritesBefore(tape, step) = WritesOf(tape)
    BY DEF Batches, WritesBefore, WritesOf, Places
  <1>2. QED
    BY <1>1 DEF Earlier, Written

LEMMA SnapshotTaken ==
  ASSUME Typed, Batches, Placed, WorldInv, BeginStep
  PROVE  WorldInv'
  <1>1. /\ pc = "top" /\ pc' = "check" /\ world' = world
        /\ \/ snaps' = snaps
           \/ snaps' = [s \in DOMAIN snaps \cup {step} |-> IF s = step THEN world ELSE snaps[s]]
    BY DEF BeginStep
  <1>2. Owed = 0 /\ Owed' = 0
    BY <1>1 DEF Owed
  <1>3. tape' = tape \/ \E r \in Records : Put(r) /\ r.kind # "tool_result"
    BY AsidePut
  <1>4. CASE snaps' = snaps
    <2>1. Owed <= Owed'
      BY <1>2
    <2>2. QED
      BY <1>1, <1>3, <1>4, <2>1, QuietWorld
  <1>5. CASE snaps' = [s \in DOMAIN snaps \cup {step} |-> IF s = step THEN world ELSE snaps[s]]
    <2>1. /\ Written' = Written
          /\ \A s : (Earlier(s))' = Earlier(s) /\ (Later(s))' = Later(s)
      BY <1>3, SameBacking
    <2>2. Written \in Nat /\ (\A s : Earlier(s) \in Nat /\ Later(s) \in Nat) /\ world \in Nat
      BY BackingTyped DEF Typed, TypeOK
    <2>3. world <= Written
      <3>1. world <= Written + 0
        BY <1>2 DEF WorldInv
      <3>2. QED
        BY <2>2, <3>1
    <2>4. world' <= Written' + Owed'
      <3>1. world <= Written + 0
        BY <2>2, <2>3
      <3>2. QED
        BY <1>1, <1>2, <2>1, <3>1
    <2>5. ASSUME NEW s \in DOMAIN snaps'
          PROVE  snaps'[s] <= (Earlier(s))' /\ world' <= snaps'[s] + (Later(s))' + Owed'
      <3>1. PICK e \in Nat, l \in Nat, w \in Nat : e = Earlier(s) /\ l = Later(s) /\ w = world
        BY <2>2
      <3>2. CASE s = step
        <4>1. snaps'[s] = w
          BY <1>5, <3>1, <3>2
        <4>2. w <= e
          BY <1>1, <2>3, <3>1, <3>2, AllEarlier DEF Before
        <4>3. w <= w + l + 0
          OBVIOUS
        <4>4. QED
          BY <1>1, <1>2, <2>1, <3>1, <4>1, <4>2, <4>3
      <3>3. CASE s # step
        <4>1. s \in DOMAIN snaps /\ snaps'[s] = snaps[s]
          BY <1>5, <3>3
        <4>2. snaps[s] <= e /\ w <= snaps[s] + l + 0
          BY <1>2, <3>1, <4>1 DEF WorldInv
        <4>3. QED
          BY <1>1, <1>2, <2>1, <3>1, <4>1, <4>2
      <3>4. QED
        BY <3>2, <3>3
    <2>6. QED
      BY <2>4, <2>5 DEF WorldInv
  <1>6. QED
    BY <1>1, <1>4, <1>5

\* A tool that changes the workspace leaves its write owed.
LEMMA DispatchOwes ==
  ASSUME Typed, Placed, WorldInv, Dispatch
  PROVE  WorldInv'
  <1>1. /\ pc = "dispatch" /\ pc' = "fit" /\ tape' = tape /\ UNCHANGED <<snaps, response, batch>>
        /\ world' = world \/ (Call \in Writers /\ world' = world + 1)
    BY DEF Dispatch
  <1>2. Owed = 0 /\ Owed' = IF Effective(Call) THEN 1 ELSE 0
    BY <1>1 DEF Owed, Call
  <1>3. Call \in Writers => Effective(Call)
    BY <1>1 DEF Placed, Effective
  <1>4. \E o \in Nat : o = Owed' /\ world' <= world + o /\ world' \in Nat
    BY <1>1, <1>2, <1>3 DEF Typed, TypeOK
  <1>5. PICK o \in Nat : o = Owed' /\ world' <= world + o /\ world' \in Nat
    BY <1>4
  <1>6. /\ Written' = Written
        /\ \A s : (Earlier(s))' = Earlier(s) /\ (Later(s))' = Later(s)
    BY <1>1, SameBacking
  <1>7. Written \in Nat /\ (\A s : Earlier(s) \in Nat /\ Later(s) \in Nat) /\ world \in Nat
    BY BackingTyped DEF Typed, TypeOK
  <1>8. world' <= Written' + Owed'
    <2>1. world <= Written + 0
      BY <1>2 DEF WorldInv
    <2>2. PICK a \in Nat, w \in Nat : a = Written /\ w = world
      BY <1>7
    <2>3. world' <= a + o
      <3>1. w <= a + 0 /\ world' <= w + o /\ world' \in Nat
        BY <1>5, <2>1, <2>2
      <3>2. QED
        BY <3>1
    <2>4. QED
      BY <1>5, <1>6, <2>2, <2>3
  <1>9. ASSUME NEW s \in DOMAIN snaps'
        PROVE  snaps'[s] <= (Earlier(s))' /\ world' <= snaps'[s] + (Later(s))' + Owed'
    <2>1. PICK e \in Nat, l \in Nat : e = Earlier(s) /\ l = Later(s)
      BY <1>7
    <2>2. s \in DOMAIN snaps /\ snaps'[s] = snaps[s] /\ snaps[s] \in Nat
      BY <1>1 DEF Typed, TypeOK
    <2>3. snaps[s] <= e /\ world <= snaps[s] + l + 0
      BY <1>2, <2>1, <2>2 DEF WorldInv
    <2>4. world' <= snaps[s] + l + o
      <3>1. PICK w \in Nat, u \in Nat, v \in Nat : w = world /\ u = world' /\ v = snaps[s]
        BY <1>5, <1>7, <2>2
      <3>2. w <= v + l + 0 /\ u <= w + o
        BY <1>5, <2>3, <3>1
      <3>3. u <= v + l + o
        BY <3>2
      <3>4. QED
        BY <3>1, <3>3
    <2>5. QED
      BY <1>5, <1>6, <2>1, <2>2, <2>3, <2>4
  <1>10. QED
    BY <1>8, <1>9 DEF WorldInv

LEMMA WorldNext ==
  ASSUME Typed, Ordered, Batches, Placed, WorldInv, [Next]_vars
  PROVE  WorldInv'
  <1>1. CASE \/ ServedFromCache \/ TurnReturns \/ SummaryFromCache \/ SummaryReturns
             \/ Start \/ LogMessage \/ RecordBatch \/ RecordCancelled \/ Close
             \/ Decide \/ Splice
    <2>1. tape' = tape \/ \E r \in Records : Put(r) /\ r.kind # "tool_result"
      <3>1. CASE ServedFromCache \/ TurnReturns \/ SummaryFromCache \/ SummaryReturns
        BY <3>1, TurnPut, SummaryPut, KindOf
      <3>2. CASE Start \/ LogMessage \/ RecordBatch \/ RecordCancelled \/ Close
        BY <3>2, StartPut, LogPut, BatchPut, EndPut, KindOf
      <3>3. CASE Decide \/ Splice
        BY <3>3, AsidePut
      <3>4. QED
        BY <1>1, <3>1, <3>2, <3>3
    <2>2. /\ pc \notin {"fit", "result", "crashed"} /\ UNCHANGED <<world, snaps>>
      BY <1>1 DEF ServedFromCache, TurnReturns, SummaryFromCache, SummaryReturns,
         Answered, Summarised, Start, LogMessage, RecordBatch, RecordCancelled, Close,
         Decide, Splice, outside
    <2>3. Owed = 0
      BY <2>2 DEF Owed
    <2>4. Owed <= Owed'
      BY <2>3, OwedTyped
    <2>5. QED
      BY <2>1, <2>2, <2>4, QuietWorld
  <1>2. CASE \/ Ceiling \/ CheckToken \/ AskModel \/ AskSummary \/ TurnCancelled \/ ProviderFails
             \/ NoPolicy
    <2>1. /\ pc \notin {"fit", "result", "crashed"} /\ UNCHANGED <<world, snaps>>
      BY <1>2 DEF Ceiling, CheckToken, AskModel, AskSummary, TurnCancelled, ProviderFails,
                  NoPolicy, outside
    <2>2. Owed = 0
      BY <2>1 DEF Owed
    <2>3. Owed <= Owed' /\ tape' = tape
      BY <1>2, <2>2, OwedTyped, NothingPut
    <2>4. QED
      BY <2>1, <2>3, QuietWorld
  <1>3. CASE Fit
    <2>1. /\ pc = "fit" /\ pc' = "result" /\ UNCHANGED <<world, snaps, response, batch>>
      BY <1>3 DEF Fit, outside
    <2>2. Owed' = Owed
      BY <2>1 DEF Owed, Call
    <2>3. Owed <= Owed'
      BY <2>2, OwedTyped
    <2>4. tape' = tape \/ \E r \in Records : Put(r) /\ r.kind # "tool_result"
      BY <1>3, AsidePut
    <2>5. QED
      BY <2>1, <2>3, <2>4, QuietWorld
  <1>4. CASE Crash
    <2>1. pc' = "crashed" /\ tape' = tape /\ UNCHANGED <<world, snaps>>
      BY <1>4 DEF Crash, outside
    <2>2. Owed' = 1
      BY <2>1 DEF Owed
    <2>3. Owed <= Owed'
      BY <2>2, OwedTyped
    <2>4. QED
      BY <2>1, <2>3, QuietWorld
  <1>5. CASE Cancel \/ UNCHANGED vars
    <2>1. tape' = tape /\ UNCHANGED <<pc, world, snaps, response, batch>>
      BY <1>5 DEF Cancel, vars, outside, talk
    <2>2. Owed' = Owed
      BY <2>1 DEF Owed, Call
    <2>3. Owed <= Owed'
      BY <2>2, OwedTyped
    <2>4. QED
      BY <2>1, <2>3, QuietWorld
  <1>6. CASE BeginStep \/ Dispatch \/ RecordResult
    BY <1>6, SnapshotTaken, DispatchOwes, ResultPays
  <1>7. QED
    BY <1>1, <1>2, <1>3, <1>4, <1>5, <1>6 DEF Next, Loop

WorldAll == Ordered /\ Batches /\ Placed /\ WorldInv

LEMMA WorldInit == Init => WorldAll
  <1> SUFFICES ASSUME Init
               PROVE  WorldAll
    OBVIOUS
  <1>1. /\ tape = <<>> /\ pc = "start" /\ world = 0 /\ step = 0
        /\ DOMAIN snaps = {} /\ Len(<<>>) = 0
    BY DEF Init
  <1>2. Ordered /\ Batches /\ Placed
    BY <1>1 DEF Ordered, Sorted, Batches, Before, InBatch, Placed
  <1>3. Owed = 0
    BY <1>1 DEF Owed
  <1>4. Written \in Nat
    BY TypedInit, BackingTyped
  <1>5. world <= Written + Owed
    <2>1. 0 <= Written + 0
      BY <1>4
    <2>2. QED
      BY <1>1, <1>3, <2>1
  <1>6. QED
    BY <1>1, <1>2, <1>5 DEF WorldAll, WorldInv

LEMMA WorldAllNext == Typed /\ WorldAll /\ [Next]_vars => WorldAll'
  BY OrderedNext, BatchesNext, PlacedNext, WorldNext DEF WorldAll

\* However a run stops, the workspace is at most one change ahead of the writes on its
\* tape, and only a crash leaves it ahead: what resume and fork warn about is all there is.
THEOREM WritesAreToldHolds == Spec => []WritesAreTold
  <1>1. Typed /\ WorldAll => WritesAreTold
    <2> SUFFICES ASSUME Typed, WorldAll
                 PROVE  WritesAreTold
      OBVIOUS
    <2>1. PICK a \in Nat : a = Written
      BY BackingTyped
    <2>2. world \in Nat /\ Owed \in {0, 1} /\ world <= a + Owed
      BY <2>1, OwedTyped DEF WorldAll, WorldInv, Typed, TypeOK
    <2>3. pc \notin {"fit", "result", "crashed"} => world <= a
      BY <2>2 DEF Owed
    <2>4. world <= a + 1
      BY <2>2
    <2>5. Asks => Earlier(step) = Written
      BY AllEarlier DEF Asks, Before, WorldAll
    <2>6. QED
      BY <2>1, <2>3, <2>4, <2>5 DEF WritesAreTold, Asks, Earlier, Written
  <1>2. QED
    BY TypedInit, TypedNext, WorldInit, WorldAllNext, <1>1, PTL DEF Spec

\* The snapshot of a step holds no change that a write before the step does not account
\* for, and all but those that later writes do: restoring it gives the world the model
\* saw, whatever happened since.
THEOREM SnapshotMatchesTapeHolds == Spec => []SnapshotMatchesTape
  <1>1. Typed /\ WorldAll => SnapshotMatchesTape
    <2> SUFFICES ASSUME Typed, WorldAll, NEW s \in DOMAIN snaps
                 PROVE  /\ snaps[s] <= Earlier(s)
                        /\ world <= snaps[s] + Later(s)
                                      + (IF InBatch \/ pc = "crashed" THEN 1 ELSE 0)
      BY DEF SnapshotMatchesTape, Earlier, Later
    <2>1. PICK e \in Nat, l \in Nat : e = Earlier(s) /\ l = Later(s)
      BY BackingTyped
    <2>2. /\ world \in Nat /\ snaps[s] \in Nat /\ Owed \in {0, 1}
          /\ snaps[s] <= e /\ world <= snaps[s] + l + Owed
      BY <2>1, OwedTyped DEF WorldAll, WorldInv, Typed, TypeOK
    <2>3. ~(InBatch \/ pc = "crashed") => Owed = 0
      BY DEF Owed, InBatch
    <2>4. world <= snaps[s] + l + (IF InBatch \/ pc = "crashed" THEN 1 ELSE 0)
      BY <2>2, <2>3
    <2>5. QED
      BY <2>1, <2>2, <2>4
  <1>2. QED
    BY TypedInit, TypedNext, WorldInit, WorldAllNext, <1>1, PTL DEF Spec

-----------------------------------------------------------------------------
(* The task *)

\* A run is started on a history that begins with the system prompt and the task.
Tasked == \A h \in Histories : Heads(h.messages)

HeadInv ==
  /\ Heads(messages)
  /\ pc \in {"compact", "summarise", "splice"} => Worthwhile(messages)

\* The first two messages on the tape are the first two in memory.
TaskInv ==
  /\ pc = "log" => \A i \in 1..2 : i <= logged => tape[i + 1].msg = messages[i]
  /\ Alive => Len(tape) >= 3 /\ \A i \in 1..2 : tape[i + 1].msg = messages[i]

LEMMA HeadStays ==
  ASSUME Typed, HeadInv, [Next]_vars
  PROVE  HeadInv' /\ messages'[1] = messages[1] /\ messages'[2] = messages[2]
  <1>1. messages \in Seq(Messages) /\ Heads(messages)
    BY DEF HeadInv, Typed, TypeOK
  <1>2. CASE ServedFromCache \/ TurnReturns
    <2>1. PICK a \in Responses : Answered(a)
      BY <1>2, TurnPut
    <2>2. messages' = Append(messages, a.msg) /\ a.msg \in Messages /\ pc' \in {"decide", "end"}
      BY <2>1, ResponseParts DEF Answered
    <2>3. QED
      BY <1>1, <2>2, HeadsAppend DEF HeadInv
  <1>3. CASE RecordBatch
    <2>1. /\ messages' = Append(messages, Results(batch)) /\ Results(batch) \in Messages
          /\ pc' = "top" \/ (pc' = "compact" /\ Worthwhile(messages'))
      BY <1>3, MessagesTyped DEF RecordBatch, Typed, TypeOK
    <2>2. QED
      BY <1>1, <2>1, HeadsAppend DEF HeadInv
  <1>4. CASE Splice
    <2>1. /\ messages' = Compacted(messages, response.msg.text) /\ response.msg.text \in Texts
          /\ pc = "splice" /\ pc' = "top"
      BY <1>4, ResponseParts DEF Splice, Typed, TypeOK
    <2>2. Worthwhile(messages) /\ KeepRecent \in Nat
      BY <2>1, Bounds DEF HeadInv
    <2>3. /\ Len(messages') = KeepRecent + 3
          /\ messages'[1] = messages[1] /\ messages'[2] = messages[2]
      BY <1>1, <2>1, <2>2, CompactedAt
    <2>4. QED
      BY <1>1, <2>1, <2>2, <2>3 DEF HeadInv, Heads
  <1>5. CASE SummaryFromCache \/ AskSummary \/ SummaryReturns
    <2>1. messages' = messages /\ pc \in {"compact", "summarise"}
      BY <1>5 DEF SummaryFromCache, AskSummary, SummaryReturns, Summarised, talk
    <2>2. QED
      BY <2>1 DEF HeadInv
  <1>6. CASE \/ Start \/ LogMessage \/ Ceiling \/ BeginStep \/ CheckToken \/ AskModel
             \/ TurnCancelled \/ ProviderFails \/ Decide \/ NoPolicy \/ Dispatch \/ Fit
             \/ RecordResult \/ RecordCancelled \/ Close \/ Crash
    <2>1. messages' = messages /\ pc' \notin {"compact", "summarise", "splice"}
      BY <1>6 DEF Start, LogMessage, Ceiling, BeginStep, CheckToken, AskModel, TurnCancelled,
         ProviderFails, Decide, NextCall, NoPolicy, Dispatch, Fit, RecordResult,
         RecordCancelled, Close, Crash, talk
    <2>2. QED
      BY <2>1 DEF HeadInv
  <1>7. CASE Cancel \/ UNCHANGED vars
    BY <1>7 DEF Cancel, vars, talk, HeadInv
  <1>8. QED
    BY <1>2, <1>3, <1>4, <1>5, <1>6, <1>7 DEF Next, Loop

\* The tape is append-only.
LEMMA TapeKeeps ==
  ASSUME Typed, Ordered, [Next]_vars
  PROVE  Len(tape) \in Nat /\ Len(tape') >= Len(tape) /\ \A i \in 1..Len(tape) : tape'[i] = tape[i]
  <1>1. Len(tape) \in Nat
    BY LenProperties DEF Typed, TypeOK
  <1>2. CASE tape' = tape
    BY <1>1, <1>2
  <1>3. ASSUME NEW r \in Records, Put(r)
        PROVE  Len(tape') >= Len(tape) /\ \A i \in 1..Len(tape) : tape'[i] = tape[i]
    BY <1>1, <1>3, PutFacts
  <1>4. QED
    BY <1>1, <1>2, <1>3, PutNow

LEMMA TaskNext ==
  ASSUME Typed, Ordered, Batches, HeadInv, TaskInv, [Next]_vars
  PROVE  TaskInv'
  <1>1. logged \in Nat /\ messages'[1] = messages[1] /\ messages'[2] = messages[2]
    BY HeadStays DEF Typed, TypeOK
  <1>2. CASE Start
    BY <1>2 DEF Start, TaskInv, Alive, Typed, built
  <1>3. CASE LogMessage
    <2> DEFINE r == MessageRec(0, messages[logged + 1])
    <2>1. /\ pc = "log" /\ logged' = logged + 1 /\ messages' = messages /\ Put(r)
          /\ pc' = (IF logged + 1 = Len(messages) THEN "top" ELSE "log")
          /\ Len(tape) = logged + 1
      BY <1>3 DEF LogMessage, talk, Batches
    <2>2. messages \in Seq(Messages) /\ logged + 1 \in 1..Len(messages) /\ Len(messages) \in Nat
      BY <2>1, LenProperties DEF Typed, TypeOK
    <2>3. messages[logged + 1] \in Messages
      BY <2>2, ElementOfSeq
    <2>4. r \in Records /\ r.msg = messages[logged + 1]
      BY <2>3, RecordsTyped, KindOf
    <2> HIDE DEF r
    <2>5. /\ Len(tape') = Len(tape) + 1 /\ tape'[Len(tape) + 1] = r
          /\ \A i \in 1..Len(tape) : tape'[i] = tape[i]
      BY <2>1, <2>4, PutFacts
    <2>6. ASSUME NEW i \in 1..2, i <= logged'
          PROVE  tape'[i + 1].msg = messages'[i]
      <3>1. CASE i = logged + 1
        BY <2>1, <2>4, <2>5, <3>1
      <3>2. CASE i # logged + 1
        <4>1. i <= logged /\ i + 1 \in 1..Len(tape)
          BY <1>1, <2>1, <2>6, <3>2
        <4>2. QED
          BY <2>1, <2>5, <4>1 DEF TaskInv
      <3>3. QED
        BY <3>1, <3>2
    <2>7. pc' = "top" => logged' >= 2 /\ Len(tape') >= 3
      BY <1>1, <2>1, <2>2, <2>5 DEF HeadInv, Heads
    <2>8. pc' = "top" => \A i \in 1..2 : i <= logged'
      BY <1>1, <2>1, <2>7
    <2>9. QED
      BY <2>1, <2>6, <2>7, <2>8 DEF TaskInv, Alive
  <1>4. CASE ~(Start \/ LogMessage)
    <2>1. pc' # "log" \/ (pc' = pc /\ UNCHANGED <<tape, messages, logged>>)
      BY <1>4 DEF Next, Loop, Ceiling, BeginStep, CheckToken, ServedFromCache, AskModel,
         TurnReturns, TurnCancelled, ProviderFails, Answered, Decide, NextCall, NoPolicy,
         Dispatch, Fit, RecordResult, RecordBatch, SummaryFromCache, AskSummary,
         SummaryReturns, Summarised, Splice, RecordCancelled, Close, Crash, Cancel, vars,
         built, talk
    <2>2. Alive' => Alive
      BY <1>4 DEF Next, Loop, Ceiling, BeginStep, CheckToken, ServedFromCache, AskModel,
         TurnReturns, TurnCancelled, ProviderFails, Decide, NoPolicy,
         Dispatch, Fit, RecordResult, RecordBatch, SummaryFromCache, AskSummary,
         SummaryReturns, Splice, RecordCancelled, Close, Crash, Cancel, vars, Alive
    <2>3. Alive => /\ Len(tape') >= 3
                   /\ \A i \in 1..2 : tape'[i + 1].msg = messages'[i]
      <3> SUFFICES ASSUME Alive
                   PROVE  /\ Len(tape') >= 3
                          /\ \A i \in 1..2 : tape'[i + 1].msg = messages'[i]
        OBVIOUS
      <3>1. /\ Len(tape) >= 3 /\ tape[2].msg = messages[1] /\ tape[3].msg = messages[2]
            /\ \A i \in 1..2 : i = 1 \/ i = 2
        <4>1. \A i \in 1..2 : tape[i + 1].msg = messages[i]
          BY DEF TaskInv
        <4>2. tape[1 + 1].msg = messages[1] /\ tape[2 + 1].msg = messages[2]
          BY <4>1
        <4>3. QED
          BY <4>2 DEF TaskInv
      <3>2. /\ Len(tape) \in Nat /\ Len(tape') >= Len(tape) /\ tape'[2] = tape[2]
            /\ tape'[3] = tape[3] /\ Len(tape') \in Nat
        <4>1. tape' \in Seq(Records)
          BY TypedNext DEF Typed, TypeOK
        <4>2. QED
          BY <3>1, <4>1, TapeKeeps, LenProperties
      <3>3. QED
        BY <1>1, <3>1, <3>2
    <2>4. QED
      BY <2>1, <2>2, <2>3 DEF TaskInv
  <1>5. QED
    BY <1>2, <1>3, <1>4

\* However often a history is compacted, the system prompt and the task it starts with
\* are those that the tape was opened with.
THEOREM TaskIsKeptHolds ==
  ASSUME Tasked
  PROVE  Spec => []TaskIsKept
  <1>1. Init => Ordered /\ Batches /\ HeadInv /\ TaskInv
    <2>1. Init => Heads(messages)
      BY DEF Init, Tasked
    <2>2. QED
      BY <2>1, WorldInit DEF WorldAll, Init, HeadInv, TaskInv, Alive
  <1>2. TaskInv => TaskIsKept
    BY DEF TaskInv, TaskIsKept
  <1>3. Typed /\ HeadInv /\ [Next]_vars => HeadInv'
    BY HeadStays
  <1>4. QED
    BY TypedInit, TypedNext, OrderedNext, BatchesNext, TaskNext, <1>1, <1>2, <1>3, PTL DEF Spec

-----------------------------------------------------------------------------
(* Replays *)

\* What a recorded run depends on, besides the model, is there again: the workspace, tools
\* that do the same, and a policy that asks nobody.
Repeatable == /\ Rewound /\ ~ToolsMayFail
              /\ HasPolicy => Asking \subseteq Denied

-----------------------------------------------------------------------------
(* The part of the state the tape depends on *)

\* A request being made is still to be answered, from wherever.
Place == IF pc = "turn" THEN "lookup" ELSE IF pc = "summarise" THEN "compact" ELSE pc

State(k, at, n, l, ms, r, b, c, w, t) ==
  [config |-> k.config, resumed |-> k.resumed, pc |-> at, step |-> n, logged |-> l,
   messages |-> ms, response |-> r, batch |-> b, content |-> c, world |-> w, tape |-> t]

\* The loop is in state k.
Here(k) ==
  /\ agent.config = k.config /\ agent.resumed = k.resumed /\ Place = k.pc /\ step = k.step
  /\ logged = k.logged /\ messages = k.messages /\ response = k.response /\ batch = k.batch
  /\ content = k.content /\ world = k.world /\ tape = k.tape

\* On to another place, with a record or without.
Goes(k, at, t) ==
  State(k, at, k.step, k.logged, k.messages, k.response, k.batch, k.content, k.world, t)

HandCall(k) == k.response.msg.calls[Len(k.batch) + 1]

FromStart(k) == Goes(k, "log", Append(k.tape, RunStart(k.resumed)))

FromLog(k) ==
  State(k, IF k.logged + 1 = Len(k.messages) THEN "top" ELSE "log", k.step, k.logged + 1,
        k.messages, k.response, k.batch, k.content, k.world,
        Append(k.tape, MessageRec(0, k.messages[k.logged + 1])))

FromTop(k) ==
  IF k.step = MaxSteps
  THEN State(k, "end", IF MaxSteps = 0 THEN 0 ELSE MaxSteps - 1, k.logged, k.messages,
             k.response, k.batch, k.content, k.world, k.tape)
  ELSE Goes(k, "check", IF HasSnapshots THEN Append(k.tape, SnapshotRec(k.step)) ELSE k.tape)

FromCheck(k) == Goes(k, "lookup", k.tape)

TurnRec(k, r) == StepRec(k.step, TurnKey(k.config, k.messages), r)
FromLookup(k, r) ==
  State(k, IF WantsTools(r) THEN "decide" ELSE "end", k.step, k.logged,
        Append(k.messages, r.msg), r, <<>>, k.content, k.world, Append(k.tape, TurnRec(k, r)))

FromDecide(k) ==
  IF ~HasPolicy THEN Goes(k, "dispatch", k.tape)
  ELSE IF HandCall(k) \notin Denied
  THEN Goes(k, "dispatch", Append(k.tape, PermissionRec(k.step, HandCall(k), "allow")))
  ELSE State(k, "fit", k.step, k.logged, k.messages, k.response, k.batch,
             [what |-> "denied", seen |-> 0, cut |-> FALSE], k.world,
             Append(k.tape, PermissionRec(k.step, HandCall(k), "deny")))

FromDispatch(k) ==
  State(k, "fit", k.step, k.logged, k.messages, k.response, k.batch,
        IF HandCall(k) \notin Registered THEN [what |-> "error", seen |-> 0, cut |-> FALSE]
        ELSE [what |-> "output", cut |-> FALSE,
              seen |-> IF HandCall(k) \in Writers THEN 0 ELSE k.world],
        IF HandCall(k) \in Registered /\ HandCall(k) \in Writers THEN k.world + 1 ELSE k.world,
        k.tape)

FromFit(k) ==
  IF HasBudget /\ HandCall(k) \in Oversized /\ k.content.what # "denied"
  THEN State(k, "result", k.step, k.logged, k.messages, k.response, k.batch,
             [k.content EXCEPT !.cut = TRUE], k.world,
             Append(k.tape, TruncatedRec(k.step, HandCall(k))))
  ELSE Goes(k, "result", k.tape)

FromResult(k) ==
  State(k, IF Len(k.batch) + 1 = Len(k.response.msg.calls) THEN "batch" ELSE "decide", k.step,
        k.logged, k.messages, k.response, Append(k.batch, k.content), k.content, k.world,
        Append(k.tape, ToolRec(k.step, HandCall(k), Effect(HandCall(k)),
                               k.content.what \in {"error", "denied"})))

FromBatch(k) ==
  LET ms   == Append(k.messages, Results(k.batch))
      more == Due(ms) /\ Worthwhile(ms)
  IN  State(k, IF more THEN "compact" ELSE "top", IF more THEN k.step ELSE k.step + 1, k.logged,
            ms, k.response, k.batch, k.content, k.world,
            Append(k.tape, MessageRec(k.step, Results(k.batch))))

SummaryRec(k, r) == StepRec(k.step, CompactionKey(k.config, Slice(k.messages)), r)
FromCompact(k, r) ==
  State(k, IF r.msg.text = "" THEN "top" ELSE "splice",
        IF r.msg.text = "" THEN k.step + 1 ELSE k.step, k.logged, k.messages, r, k.batch,
        k.content, k.world, Append(k.tape, SummaryRec(k, r)))

FromSplice(k) ==
  State(k, "top", k.step + 1, k.logged, Compacted(k.messages, k.response.msg.text), k.response,
        k.batch, k.content, k.world,
        Append(k.tape, CompactionRec(k.step, Replaced(k.messages))))

\* The state after k, when the response is r if one is asked for.
After(k, r) ==
  IF k.pc = "start" THEN FromStart(k)       ELSE IF k.pc = "log" THEN FromLog(k)
  ELSE IF k.pc = "top" THEN FromTop(k)      ELSE IF k.pc = "check" THEN FromCheck(k)
  ELSE IF k.pc = "lookup" THEN FromLookup(k, r)
  ELSE IF k.pc = "decide" THEN FromDecide(k)  ELSE IF k.pc = "dispatch" THEN FromDispatch(k)
  ELSE IF k.pc = "fit" THEN FromFit(k)        ELSE IF k.pc = "result" THEN FromResult(k)
  ELSE IF k.pc = "batch" THEN FromBatch(k)
  ELSE IF k.pc = "compact" THEN FromCompact(k, r)
  ELSE FromSplice(k)

\* The steps that go along a path, those that stay where they are, and those that leave it.
Moves == \/ Start \/ LogMessage \/ Ceiling \/ BeginStep \/ (CheckToken /\ ~token)
         \/ ServedFromCache \/ TurnReturns \/ Decide \/ NoPolicy \/ Dispatch \/ Fit
         \/ RecordResult \/ RecordBatch \/ SummaryFromCache \/ SummaryReturns \/ Splice
Stays == AskModel \/ AskSummary \/ Cancel
Leaves == (CheckToken /\ token) \/ TurnCancelled \/ ProviderFails \/ RecordCancelled \/ Close \/ Crash
-----------------------------------------------------------------------------
(* Along a path, one action at a time *)

\* Where a path may be going on: Here says the place, up to who is asked.
LEMMA PlaceIs ==
  ASSUME NEW k, Here(k)
  PROVE  /\ pc \notin {"turn", "summarise"} => k.pc = pc
         /\ pc = "turn" => k.pc = "lookup"
         /\ pc = "summarise" => k.pc = "compact"
  BY DEF Here, Place

LEMMA StartMoves ==
  ASSUME NEW k, Here(k), Start
  PROVE  Here(FromStart(k))' /\ k.pc = "start"
  BY DEF Here, Place, Start, FromStart, Goes, State, Put, built, flow, talk, outside, counts

LEMMA LogMoves ==
  ASSUME NEW k, Here(k), LogMessage
  PROVE  Here(FromLog(k))' /\ k.pc = "log"
  BY DEF Here, Place, LogMessage, FromLog, State, Put, flow, talk, outside, counts

LEMMA TopMoves ==
  ASSUME step \in Nat, NEW k, Here(k), Ceiling \/ BeginStep
  PROVE  Here(FromTop(k))' /\ k.pc = "top"
  <1>1. CASE Ceiling
    BY <1>1 DEF Here, Place, Ceiling, FromTop, State, built, talk, outside, counts
  <1>2. CASE BeginStep
    <2>1. k.pc = "top" /\ k.step # MaxSteps /\ pc' = "check"
      BY <1>2, Bounds DEF Here, Place, BeginStep
    <2>2. tape' = IF HasSnapshots THEN Append(k.tape, SnapshotRec(k.step)) ELSE k.tape
      BY <1>2 DEF Here, BeginStep, Put
    <2>3. UNCHANGED <<built, flow, talk, world>>
      BY <1>2 DEF BeginStep
    <2>4. QED
      BY <2>1, <2>2, <2>3 DEF Here, Place, FromTop, Goes, State, built, flow, talk
  <1>3. QED
    BY <1>1, <1>2

LEMMA CheckMoves ==
  ASSUME NEW k, Here(k), CheckToken, ~token
  PROVE  Here(FromCheck(k))' /\ k.pc = "check"
  BY DEF Here, Place, CheckToken, FromCheck, Goes, State, built, talk, outside, counts

LEMMA LookupMoves ==
  ASSUME NEW k, NEW r, Here(k), pc \in {"lookup", "turn"}, Answered(r)
  PROVE  Here(FromLookup(k, r))' /\ k.pc = "lookup"
  <1>1. k.pc = "lookup"
    BY PlaceIs
  <1>2. pc' = (IF WantsTools(r) THEN "decide" ELSE "end") /\ Place' = pc'
    BY DEF Answered, Place
  <1>3. tape' = Append(k.tape, TurnRec(k, r))
    BY DEF Answered, Put, TurnRec, Here, Key
  <1>4. QED
    BY <1>1, <1>2, <1>3 DEF Here, Answered, FromLookup, State, built, outside

LEMMA DecideMoves ==
  ASSUME Repeatable, NEW k, Here(k), Decide \/ NoPolicy
  PROVE  Here(FromDecide(k))' /\ k.pc = "decide"
  <1>1. k.pc = "decide" /\ Call = HandCall(k)
    BY PlaceIs DEF Decide, NoPolicy, Here, Call, HandCall
  <1>2. CASE NoPolicy
    BY <1>1, <1>2 DEF NoPolicy, Here, Place, FromDecide, Goes, State, built, flow, talk, outside
  <1>3. CASE Decide
    <2>1. HasPolicy /\ (Call \notin Denied => Call \notin Asking)
      BY <1>3 DEF Decide, Repeatable
    <2>2. NextCall(IF Call \in Denied THEN "deny" ELSE "allow")
      BY <1>3, <2>1 DEF Decide
    <2>3. UNCHANGED <<built, flow, messages, response, batch, world>>
      BY <1>3 DEF Decide
    <2>4. CASE HandCall(k) \in Denied
      BY <1>1, <2>1, <2>2, <2>3, <2>4
      DEF NextCall, Here, Place, FromDecide, State, Put, built, flow
    <2>5. CASE HandCall(k) \notin Denied
      BY <1>1, <2>1, <2>2, <2>3, <2>5
      DEF NextCall, Here, Place, FromDecide, Goes, State, Put, built, flow
    <2>6. QED
      BY <1>1, <2>4, <2>5
  <1>4. QED
    BY <1>2, <1>3

LEMMA DispatchMoves ==
  ASSUME Repeatable, NEW k, Here(k), Dispatch
  PROVE  Here(FromDispatch(k))' /\ k.pc = "dispatch"
  <1>1. k.pc = "dispatch" /\ Call = HandCall(k)
    BY PlaceIs DEF Dispatch, Here, Call, HandCall
  <1>2. /\ content' = IF Call \notin Registered THEN [what |-> "error", seen |-> 0, cut |-> FALSE]
                      ELSE [what |-> "output", cut |-> FALSE,
                            seen |-> IF Call \in Writers THEN 0 ELSE world]
        /\ world' = IF Call \in Registered /\ Call \in Writers THEN world + 1 ELSE world
    BY DEF Dispatch, Repeatable
  <1>3. pc' = "fit" /\ UNCHANGED <<built, flow, messages, tape, response, batch>>
    BY DEF Dispatch
  <1>4. QED
    BY <1>1, <1>2, <1>3 DEF Here, Place, FromDispatch, State, built, flow

LEMMA FitMoves ==
  ASSUME NEW k, Here(k), Fit
  PROVE  Here(FromFit(k))' /\ k.pc = "fit"
  <1>1. k.pc = "fit" /\ Call = HandCall(k) /\ pc' = "result" /\ Place' = pc'
    BY PlaceIs DEF Fit, Here, Call, HandCall, Place
  <1>2. UNCHANGED <<built, flow, world, messages, response, batch>>
    BY DEF Fit, outside
  <1>3. CASE HasBudget /\ Call \in Oversized /\ content.what # "denied"
    <2>1. tape' = Append(k.tape, TruncatedRec(k.step, HandCall(k)))
          /\ content' = [k.content EXCEPT !.cut = TRUE]
      BY <1>1, <1>3 DEF Fit, Put, Here
    <2>2. FromFit(k) = State(k, "result", k.step, k.logged, k.messages, k.response, k.batch,
             [k.content EXCEPT !.cut = TRUE], k.world,
             Append(k.tape, TruncatedRec(k.step, HandCall(k))))
      BY <1>1, <1>3 DEF FromFit, Here
    <2>3. QED
      BY <1>1, <1>2, <2>1, <2>2 DEF Here, State, built, flow
  <1>4. CASE ~(HasBudget /\ Call \in Oversized /\ content.what # "denied")
    BY <1>1, <1>2, <1>4 DEF Fit, Here, FromFit, Goes, State, built, flow
  <1>5. QED
    BY <1>3, <1>4

LEMMA ResultMoves ==
  ASSUME NEW k, Here(k), RecordResult
  PROVE  Here(FromResult(k))' /\ k.pc = "result"
  <1>1. k.pc = "result" /\ Call = HandCall(k) /\ Place' = pc'
    BY PlaceIs DEF RecordResult, Here, Call, HandCall, Place
  <1>2. QED
    BY <1>1 DEF RecordResult, Put, Here, FromResult, State, built, flow, outside

LEMMA BatchMoves ==
  ASSUME NEW k, Here(k), RecordBatch
  PROVE  Here(FromBatch(k))' /\ k.pc = "batch"
  <1>1. k.pc = "batch" /\ Place' = pc'
    BY PlaceIs DEF RecordBatch, Place
  <1>2. messages' = Append(k.messages, Results(k.batch))
    BY DEF RecordBatch, Here
  <1>3. QED
    BY <1>1, <1>2 DEF RecordBatch, Put, Here, FromBatch, State, built, outside

LEMMA CompactMoves ==
  ASSUME NEW k, NEW r, Here(k), pc \in {"compact", "summarise"}, Summarised(r)
  PROVE  Here(FromCompact(k, r))' /\ k.pc = "compact"
  <1>1. k.pc = "compact" /\ Place' = pc'
    BY PlaceIs DEF Summarised, Place
  <1>2. tape' = Append(k.tape, SummaryRec(k, r))
    BY DEF Summarised, Put, SummaryRec, Here, SummaryKey
  <1>3. QED
    BY <1>1, <1>2 DEF Here, Summarised, FromCompact, State, built, outside

LEMMA SpliceMoves ==
  ASSUME NEW k, Here(k), Splice
  PROVE  Here(FromSplice(k))' /\ k.pc = "splice"
  BY DEF Here, Place, Splice, FromSplice, State, Put, built, outside
-----------------------------------------------------------------------------
(* A tape without its end, and what begins it *)

LEMMA PrefixFacts ==
  ASSUME NEW U, NEW s \in Seq(U), NEW t \in Seq(U)
  PROVE  /\ IsPrefixOf(t, t)
         /\ IsPrefixOf(s, t) => \A i \in 1..Len(s) : i \in 1..Len(t) /\ t[i] = s[i]
         /\ IsPrefixOf(s, t) <=> Len(s) <= Len(t) /\ \A i \in 1..Len(s) : s[i] = t[i]
  <1>1. Len(s) \in Nat /\ Len(t) \in Nat
    BY LenProperties
  <1>2. \A i \in 1..Len(t) : t[i] \in U
    BY ElementOfSeq
  <1>3. ASSUME NEW n \in Nat, n <= Len(t)
        PROVE  /\ SubSeq(t, 1, n) \in Seq(U) /\ Len(SubSeq(t, 1, n)) = n
               /\ \A i \in 1..n : SubSeq(t, 1, n)[i] = t[i]
    <2>1. 1 \in Int /\ n \in Int /\ \A i \in 1..n : t[i] \in U
      BY <1>1, <1>2, <1>3
    <2>2. /\ SubSeq(t, 1, n) \in Seq(U)
          /\ Len(SubSeq(t, 1, n)) = IF 1 <= n THEN n - 1 + 1 ELSE 0
          /\ \A i \in 1..n - 1 + 1 : SubSeq(t, 1, n)[i] = t[1 + i - 1]
      BY <2>1, SubSeqProperties
    <2>3. n - 1 + 1 = n /\ (~(1 <= n) => n = 0) /\ \A i \in 1..n : 1 + i - 1 = i
      BY <1>3
    <2>4. QED
      BY <2>2, <2>3
  <1>4. SubSeq(t, 1, Len(t)) = t
    BY <1>1, <1>3, SeqEqual
  <1>5. Len(s) <= Len(t) => (s = SubSeq(t, 1, Len(s)) <=> \A i \in 1..Len(s) : s[i] = t[i])
    <2>1. SUFFICES ASSUME Len(s) <= Len(t)
                   PROVE  s = SubSeq(t, 1, Len(s)) <=> \A i \in 1..Len(s) : s[i] = t[i]
      OBVIOUS
    <2>2. /\ SubSeq(t, 1, Len(s)) \in Seq(U) /\ Len(SubSeq(t, 1, Len(s))) = Len(s)
          /\ \A i \in 1..Len(s) : SubSeq(t, 1, Len(s))[i] = t[i]
      BY <1>1, <1>3, <2>1
    <2> DEFINE u == SubSeq(t, 1, Len(s))
    <2> HIDE DEF u
    <2>3. u \in Seq(U) /\ Len(u) = Len(s) /\ \A i \in 1..Len(s) : u[i] = t[i]
      BY <2>2 DEF u
    <2>4. s = u <=> \A i \in 1..Len(s) : s[i] = t[i]
      BY <2>3, SeqEqual
    <2>5. QED
      BY <2>4 DEF u
  <1>6. QED
    BY <1>1, <1>4, <1>5 DEF IsPrefixOf

\* What begins a tape begins it when it has grown.
LEMMA PrefixAppend ==
  ASSUME NEW U, NEW s \in Seq(U), NEW t \in Seq(U), NEW e \in U, IsPrefixOf(s, t)
  PROVE  IsPrefixOf(s, Append(t, e))
  <1>1. /\ Append(t, e) \in Seq(U) /\ Len(Append(t, e)) = Len(t) + 1
        /\ Len(s) \in Nat /\ Len(t) \in Nat
        /\ \A i \in 1..Len(t) : Append(t, e)[i] = t[i]
    BY AppendFacts, LenProperties
  <1>2. Len(s) <= Len(t) /\ \A i \in 1..Len(s) : s[i] = t[i] /\ i \in 1..Len(t)
    BY PrefixFacts
  <1> DEFINE u == Append(t, e)
  <1> HIDE DEF u
  <1>3. u \in Seq(U) /\ Len(s) <= Len(u) /\ \A i \in 1..Len(s) : s[i] = u[i]
    BY <1>1, <1>2 DEF u
  <1>4. IsPrefixOf(s, u)
    BY <1>3, PrefixFacts
  <1>5. QED
    BY <1>4 DEF u

\* The records that only say how a run ended.
EndKinds == {"cancelled", "run_end"}

LEMMA BodyAppend ==
  ASSUME NEW U, NEW t \in Seq(U), NEW r \in U
  PROVE  Body(Append(t, r)) = IF r.kind \in EndKinds THEN Body(t) ELSE Append(Body(t), r)
  <1> DEFINE kept(s) == {i \in 1..Len(s) : s[i].kind \notin {"cancelled", "run_end"}}
  <1>1. /\ Len(t) \in Nat /\ Len(Append(t, r)) = Len(t) + 1 /\ Append(t, r)[Len(t) + 1] = r
        /\ \A i \in 1..Len(t) : Append(t, r)[i] = t[i]
    BY AppendProperties, LenProperties
  <1>2. /\ \A i \in 1..Len(t) : i \in kept(Append(t, r)) <=> i \in kept(t)
        /\ Len(t) + 1 \in kept(Append(t, r)) <=> r.kind \notin EndKinds
    BY <1>1 DEF EndKinds
  <1>3. Body(t) = Only(t, kept(t)) /\ Body(Append(t, r)) = Only(Append(t, r), kept(Append(t, r)))
    BY DEF Body
  <1> HIDE DEF kept
  <1>4. QED
    BY <1>2, <1>3, OnlyAppend

LEMMA BodyTyped ==
  ASSUME NEW U, NEW t \in Seq(U)
  PROVE  Body(t) \in Seq(U)
  <1>1. Len(t) \in Nat /\ \A i \in 1..Len(t) : t[i] \in U
    BY LenProperties, ElementOfSeq
  <1>2. QED
    BY <1>1, OnlyTyped DEF Body

LEMMA BodyEmpty == Body(<<>>) = <<>>
  BY OnlyEmpty DEF Body

-----------------------------------------------------------------------------
(* What a cache has *)

\* Everything at the places kept is among what is kept.
LEMMA OnlyReaches ==
  ASSUME NEW U, NEW s \in Seq(U), NEW places, NEW p \in places, p \in 1..Len(s)
  PROVE  \E j \in 1..Len(Only(s, places)) : Only(s, places)[j] = s[p]
  <1>1. Len(s) \in Nat /\ \A i \in 1..Len(s) : s[i] \in U
    BY LenProperties, ElementOfSeq
  <1>2. PICK f : Grown(f, s, places, Len(s)) /\ Only(s, places) = f[Len(s)]
    BY <1>1, OnlyIsGrown
  <1>3. /\ f[0] = <<>>
        /\ \A k \in 1..Len(s) : f[k] = IF k \in places THEN Append(f[k-1], s[k]) ELSE f[k-1]
    BY <1>1, <1>2, GrownAt
  <1> DEFINE Hit(n) == p <= n => \E j \in 1..Len(f[n]) : f[n][j] = s[p]
             S == {n \in Nat : n <= Len(s) => f[n] \in Seq(U) /\ Hit(n)}
  <1>4. 0 \in S
    <2>1. f[0] \in Seq(U) /\ ~(p <= 0)
      BY <1>3, EmptySeq
    <2>2. QED
      BY <2>1
  <1>5. ASSUME NEW n \in Nat, n \in S
        PROVE  n + 1 \in S
    <2>1. SUFFICES ASSUME n + 1 <= Len(s)
                   PROVE  f[n + 1] \in Seq(U) /\ Hit(n + 1)
      OBVIOUS
    <2>2. n <= Len(s) /\ n + 1 \in 1..Len(s) /\ (n + 1) - 1 = n
      BY <1>1, <2>1
    <2>3. f[n] \in Seq(U) /\ Hit(n) /\ s[n + 1] \in U
      BY <1>1, <1>5, <2>2
    <2>4. CASE n + 1 \in places
      <3>1. f[n + 1] = Append(f[n], s[n + 1])
        BY <1>3, <2>2, <2>4
      <3> DEFINE g == f[n]
                 h == f[n + 1]
      <3>2. /\ h \in Seq(U) /\ Len(h) = Len(g) + 1 /\ Len(g) \in Nat /\ h[Len(g) + 1] = s[n + 1]
            /\ \A i \in 1..Len(g) : h[i] = g[i]
        BY <2>3, <3>1, AppendFacts, LenProperties
      <3>3. p <= n => \E j \in 1..Len(g) : g[j] = s[p]
        BY <2>3
      <3> HIDE DEF g, h
      <3>4. p <= n => \E j \in 1..Len(h) : h[j] = s[p]
        BY <3>2, <3>3
      <3>5. p = n + 1 => \E j \in 1..Len(h) : h[j] = s[p]
        BY <3>2
      <3>6. p <= n + 1 => p <= n \/ p = n + 1
        BY <1>1
      <3>7. QED
        BY <3>2, <3>4, <3>5, <3>6 DEF g, h
    <2>5. CASE n + 1 \notin places
      <3>1. f[n + 1] = f[n]
        BY <1>3, <2>2, <2>5
      <3>2. p <= n + 1 => p <= n
        BY <1>1, <2>5
      <3>3. QED
        BY <2>3, <3>1, <3>2
    <2>6. QED
      BY <2>4, <2>5
  <1>6. \A n \in Nat : n \in S => n + 1 \in S
    BY <1>5
  <1>7. f[Len(s)] \in Seq(U) /\ Hit(Len(s))
    <2> HIDE DEF S
    <2>1. Len(s) \in S
      BY <1>1, <1>4, <1>6, SetInduction
    <2>2. QED
      BY <1>1, <2>1 DEF S
  <1>8. p <= Len(s)
    BY <1>1
  <1>9. QED
    BY <1>2, <1>7, <1>8

\* Of the steps with a key there is a last.
LEMMA LastPlace ==
  ASSUME NEW steps, Len(steps) \in Nat, NEW k, NEW j \in 1..Len(steps), steps[j].key = k
  PROVE  \E i \in 1..Len(steps) :
           steps[i].key = k /\ \A l \in i + 1..Len(steps) : steps[l].key # k
  <1> DEFINE T == {n \in Nat : n < Len(steps) /\ steps[Len(steps) - n].key = k}
  <1>1. Len(steps) - j \in T
    OBVIOUS
  <1>2. T \subseteq Nat /\ T # {}
    BY <1>1
  <1> HIDE DEF T
  <1>3. PICK m \in T : \A n \in T : m <= n
    BY <1>2, LeastNumber
  <1>4. m \in Nat /\ m < Len(steps) /\ steps[Len(steps) - m].key = k
    BY <1>3 DEF T
  <1>5. PICK i \in 1..Len(steps) : i = Len(steps) - m
    BY <1>4
  <1>6. ASSUME NEW l \in i + 1..Len(steps), steps[l].key = k
        PROVE  FALSE
    <2>1. Len(steps) - l \in Nat /\ Len(steps) - l < m /\ Len(steps) - (Len(steps) - l) = l
      BY <1>4, <1>5
    <2>2. Len(steps) - l \in T
      BY <1>4, <1>6, <2>1 DEF T
    <2>3. QED
      BY <1>3, <1>4, <2>1, <2>2
  <1>7. QED
    BY <1>4, <1>5, <1>6

\* A cache has the response of every step on its tape, if the keys tell them apart.
LEMMA CacheServes ==
  ASSUME NEW t \in Seq(Records), KeysTell(t), NEW p \in 1..Len(t), t[p].kind = "step"
  PROVE  t[p].key \in DOMAIN CacheOf(t) /\ CacheOf(t)[t[p].key] = t[p].response
  <1> DEFINE places == Places(t, {"step"})
             steps == StepsOf(t)
             k == t[p].key
  <1>1. p \in places /\ places \subseteq 1..Len(t) /\ Len(t) \in Nat
    BY LenProperties DEF Places
  <1>2. steps = Only(t, places)
    BY DEF StepsOf, OfKind
  <1> HIDE DEF places
  <1>3. PICK j \in 1..Len(steps) : steps[j] = t[p]
    BY <1>1, <1>2, OnlyReaches
  <1>4. steps \in Seq({t[q] : q \in places})
    BY <1>1, <1>2, OnlyTyped
  <1> HIDE DEF steps
  <1>5. Len(steps) \in Nat /\ \A i \in 1..Len(steps) : \E q \in places : steps[i] = t[q]
    BY <1>4, LenProperties, ElementOfSeq
  <1>6. \E i \in 1..Len(steps) :
          steps[i].key = k /\ \A l \in i + 1..Len(steps) : steps[l].key # k
    BY <1>3, <1>5, LastPlace
  <1> DEFINE at == CHOOSE i \in 1..Len(steps) :
                     steps[i].key = k /\ \A l \in i + 1..Len(steps) : steps[l].key # k
  <1>7. at \in 1..Len(steps) /\ steps[at].key = k
    BY <1>6
  <1>8. /\ k \in DOMAIN CacheOf(t)
        /\ CacheOf(t)[k] = steps[at].response
    BY <1>3 DEF CacheOf, steps
  <1> HIDE DEF at
  <1>9. PICK q \in places : steps[at] = t[q]
    BY <1>5, <1>7
  <1>10. t[q].response = t[p].response
    BY <1>1, <1>7, <1>9 DEF KeysTell, places
  <1>11. QED
    BY <1>8, <1>9, <1>10
-----------------------------------------------------------------------------
(* Along a path, any step *)

\* The response a state was left with, when it came from the cache.
Served(k, r) ==
  /\ pc = "lookup"  => Key \in DOMAIN agent.cache /\ r = agent.cache[Key]
  /\ pc = "compact" => SummaryKey \in DOMAIN agent.cache /\ r = agent.cache[SummaryKey]

\* Wherever a run moves on, it comes to the state after the one it was in.
LEMMA MovesAlong ==
  ASSUME Repeatable, Typed, NEW k, Here(k), Moves
  PROVE  /\ \E r \in Responses : Here(After(k, r))' /\ Served(k, r)
         /\ pc' \notin {"turn", "summarise", "close"} /\ pc # "end"
  <1>1. step \in Nat
    BY Bounds DEF Typed, TypeOK
  <1>2. NoResponse \in Responses
    BY NoResponseTyped
  <1>3. pc' \notin {"turn", "summarise", "close"} /\ pc # "end"
    <2>1. CASE ServedFromCache \/ TurnReturns
      BY <2>1 DEF ServedFromCache, TurnReturns, Answered
    <2>2. CASE SummaryFromCache \/ SummaryReturns
      BY <2>2 DEF SummaryFromCache, SummaryReturns, Summarised
    <2>3. CASE Decide \/ NoPolicy \/ Dispatch \/ Fit
      BY <2>3 DEF Decide, NextCall, NoPolicy, Dispatch, Fit
    <2>4. CASE RecordResult \/ RecordBatch \/ Splice
      BY <2>4 DEF RecordResult, RecordBatch, Splice
    <2>5. CASE Start \/ LogMessage \/ BeginStep \/ Ceiling \/ (CheckToken /\ ~token)
      BY <2>5 DEF Start, LogMessage, BeginStep, Ceiling, CheckToken
    <2>6. QED
      BY <2>1, <2>2, <2>3, <2>4, <2>5 DEF Moves
  <1>4. CASE ServedFromCache \/ TurnReturns
    <2>1. PICK r \in Responses : Answered(r) /\ (ServedFromCache => r = agent.cache[Key])
      BY <1>4, OffersTyped DEF ServedFromCache, TurnReturns, Typed, TypeOK
    <2>2. pc \in {"lookup", "turn"} /\ (pc = "lookup" => ServedFromCache)
      BY <1>4 DEF ServedFromCache, TurnReturns
    <2>3. Here(FromLookup(k, r))' /\ k.pc = "lookup"
      BY <2>1, <2>2, LookupMoves
    <2>4. After(k, r) = FromLookup(k, r)
      BY <2>3 DEF After
    <2>5. Served(k, r)
      BY <2>1, <2>2 DEF Served, ServedFromCache
    <2>6. QED
      BY <1>3, <2>3, <2>4, <2>5
  <1>5. CASE SummaryFromCache \/ SummaryReturns
    <2>1. PICK r \in Responses : Summarised(r) /\ (SummaryFromCache => r = agent.cache[SummaryKey])
      BY <1>5, OffersTyped DEF SummaryFromCache, SummaryReturns, Typed, TypeOK
    <2>2. pc \in {"compact", "summarise"} /\ (pc = "compact" => SummaryFromCache)
      BY <1>5 DEF SummaryFromCache, SummaryReturns
    <2>3. Here(FromCompact(k, r))' /\ k.pc = "compact"
      BY <2>1, <2>2, CompactMoves
    <2>4. After(k, r) = FromCompact(k, r)
      BY <2>3 DEF After
    <2>5. Served(k, r)
      BY <2>1, <2>2 DEF Served, SummaryFromCache
    <2>6. QED
      BY <1>3, <2>3, <2>4, <2>5
  <1>6. CASE \/ Start \/ LogMessage \/ Ceiling \/ BeginStep \/ (CheckToken /\ ~token)
             \/ Decide \/ NoPolicy \/ Dispatch \/ Fit \/ RecordResult \/ RecordBatch \/ Splice
    <2> DEFINE r == NoResponse
    <2>1. pc \notin {"lookup", "compact"}
      BY <1>6 DEF Start, LogMessage, Ceiling, BeginStep, CheckToken, Decide, NoPolicy,
                  Dispatch, Fit, RecordResult, RecordBatch, Splice
    <2>2. Served(k, r)
      BY <2>1 DEF Served
    <2> HIDE DEF r
    <2>3. Here(After(k, r))'
      <3>1. CASE Start
        BY <3>1, StartMoves DEF After
      <3>2. CASE LogMessage
        BY <3>2, LogMoves DEF After
      <3>3. CASE Ceiling \/ BeginStep
        BY <1>1, <3>3, TopMoves DEF After
      <3>4. CASE CheckToken /\ ~token
        BY <3>4, CheckMoves DEF After
      <3>5. CASE Decide \/ NoPolicy
        BY <3>5, DecideMoves DEF After
      <3>6. CASE Dispatch
        BY <3>6, DispatchMoves DEF After
      <3>7. CASE Fit
        BY <3>7, FitMoves DEF After
      <3>8. CASE RecordResult
        BY <3>8, ResultMoves DEF After
      <3>9. CASE RecordBatch
        BY <3>9, BatchMoves DEF After
      <3>10. CASE Splice
        BY <3>10, SpliceMoves DEF After
      <3>11. QED
        BY <1>6, <3>1, <3>2, <3>3, <3>4, <3>5, <3>6, <3>7, <3>8, <3>9, <3>10
    <2>4. QED
      BY <1>2, <1>3, <2>2, <2>3 DEF r
  <1>7. QED
    BY <1>4, <1>5, <1>6 DEF Moves

\* Only a request depends on the response.
LEMMA AfterIgnores ==
  ASSUME NEW k, NEW r, NEW s, k.pc \notin {"lookup", "compact"}
  PROVE  After(k, r) = After(k, s)
  BY DEF After

\* What a move puts on the tape says nothing of the end.
LEMMA MovesPut ==
  ASSUME Typed, Moves
  PROVE  tape' = tape \/ \E r \in Records : Put(r) /\ r.kind \notin EndKinds
  <1>1. CASE Start
    BY <1>1, StartPut DEF EndKinds
  <1>2. CASE LogMessage
    BY <1>2, LogPut DEF EndKinds
  <1>3. CASE Ceiling \/ CheckToken \/ NoPolicy \/ Dispatch
    BY <1>3, NothingPut
  <1>4. CASE BeginStep \/ Decide \/ Fit \/ Splice
    BY <1>4, AsidePut DEF EndKinds
  <1>5. CASE ServedFromCache \/ TurnReturns
    BY <1>5, TurnPut, KindOf DEF EndKinds
  <1>6. CASE SummaryFromCache \/ SummaryReturns
    BY <1>6, SummaryPut, KindOf DEF EndKinds
  <1>7. CASE RecordResult
    BY <1>7, ResultPut, KindOf DEF EndKinds
  <1>8. CASE RecordBatch
    BY <1>8, BatchPut, KindOf DEF EndKinds
  <1>9. QED
    BY <1>1, <1>2, <1>3, <1>4, <1>5, <1>6, <1>7, <1>8 DEF Moves

\* A step of the loop moves on, stays or leaves; and it keeps what the loop was built with.
LEMMA ThreeWays ==
  ASSUME [Next]_vars
  PROVE  /\ Moves \/ Stays \/ Leaves \/ UNCHANGED vars
         /\ agent' = agent
  <1>1. Moves \/ Stays \/ Leaves \/ UNCHANGED vars
    BY DEF Next, Loop, Moves, Stays, Leaves
  <1>2. agent' = agent
    BY DEF Next, Loop, Start, LogMessage, Ceiling, BeginStep, CheckToken,
           ServedFromCache, AskModel, TurnReturns, TurnCancelled, ProviderFails, Answered,
           Decide, NoPolicy, Dispatch, Fit, RecordResult, RecordBatch,
           SummaryFromCache, AskSummary, SummaryReturns, Summarised, Splice,
           RecordCancelled, Close, Cancel, Crash, vars, built
  <1>3. QED
    BY <1>1, <1>2

-----------------------------------------------------------------------------
(* Paths *)

\* A record is on a tape.
On(t, e) == \E i \in 1..Len(t) : t[i] = e

\* After k comes another state of the path, and the tape t has the response that led there.
Leads(P, k, t) ==
  \E r \in Responses :
    /\ After(k, r) \in P
    /\ k.pc = "lookup"  => On(t, TurnRec(k, r))
    /\ k.pc = "compact" => On(t, SummaryRec(k, r))

\* The states a run went through, up to the last; what their tapes have is on its tape.
Path(P, last) ==
  /\ last \in P
  /\ \A k \in P : /\ k.tape \in Seq(Records) /\ Body(k.tape) = k.tape
                  /\ IsPrefixOf(k.tape, last.tape)
                  /\ k = last \/ Leads(P, k, last.tape)

\* The state a run starts in.
First(ms) == State(agent, "start", 0, 0, ms, NoResponse, <<>>, NoContent, 0, <<>>)

LEMMA PathStarts ==
  ASSUME NEW ms
  PROVE  Path({First(ms)}, First(ms))
  <1> DEFINE k == First(ms)
  <1>1. k.tape = <<>>
    BY DEF First, State
  <1>2. <<>> \in Seq(Records)
    BY EmptySeq
  <1> HIDE DEF k
  <1>3. k.tape \in Seq(Records) /\ Body(k.tape) = k.tape /\ IsPrefixOf(k.tape, k.tape)
    BY <1>1, <1>2, BodyEmpty, PrefixFacts
  <1>4. Path({k}, k)
    BY <1>3 DEF Path
  <1>5. QED
    BY <1>4 DEF k

LEMMA PrefixTrans ==
  ASSUME NEW U, NEW s \in Seq(U), NEW t \in Seq(U), NEW u \in Seq(U),
         IsPrefixOf(s, t), IsPrefixOf(t, u)
  PROVE  IsPrefixOf(s, u)
  <1>1. Len(s) \in Nat /\ Len(t) \in Nat /\ Len(u) \in Nat
    BY LenProperties
  <1>2. Len(s) <= Len(t) /\ \A i \in 1..Len(s) : s[i] = t[i] /\ i \in 1..Len(t)
    BY PrefixFacts
  <1>3. Len(t) <= Len(u) /\ \A i \in 1..Len(t) : t[i] = u[i]
    BY PrefixFacts
  <1>4. Len(s) <= Len(u) /\ \A i \in 1..Len(s) : s[i] = u[i]
    BY <1>1, <1>2, <1>3
  <1>5. QED
    BY <1>4, PrefixFacts

\* What is on a tape stays there when the tape grows.
LEMMA OnGrows ==
  ASSUME NEW U, NEW s \in Seq(U), NEW t \in Seq(U), IsPrefixOf(s, t), NEW e, On(s, e)
  PROVE  On(t, e)
  <1>1. \A i \in 1..Len(s) : i \in 1..Len(t) /\ t[i] = s[i]
    BY PrefixFacts
  <1>2. QED
    BY <1>1 DEF On

\* A path can be continued.
LEMMA PathGoesOn ==
  ASSUME NEW P, NEW last, Path(P, last), NEW r \in Responses, NEW new, new = After(last, r),
         new.tape \in Seq(Records), Body(new.tape) = new.tape, IsPrefixOf(last.tape, new.tape),
         last.pc = "lookup" => On(new.tape, TurnRec(last, r)),
         last.pc = "compact" => On(new.tape, SummaryRec(last, r))
  PROVE  Path(P \cup {new}, new)
  <1> DEFINE Q == P \cup {new}
  <1>1. last \in P /\ last.tape \in Seq(Records)
    BY DEF Path
  <1>2. Leads(Q, last, new.tape)
    BY DEF Leads
  <1>3. IsPrefixOf(new.tape, new.tape)
    BY PrefixFacts
  <1>4. ASSUME NEW k \in P
        PROVE  /\ k.tape \in Seq(Records) /\ Body(k.tape) = k.tape
               /\ IsPrefixOf(k.tape, new.tape)
               /\ Leads(Q, k, new.tape)
    <2>1. /\ k.tape \in Seq(Records) /\ Body(k.tape) = k.tape /\ IsPrefixOf(k.tape, last.tape)
          /\ k = last \/ Leads(P, k, last.tape)
      BY <1>4 DEF Path
    <2>2. IsPrefixOf(k.tape, new.tape)
      BY <1>1, <2>1, PrefixTrans
    <2>3. ASSUME Leads(P, k, last.tape)
          PROVE  Leads(Q, k, new.tape)
      <3>1. PICK s \in Responses : /\ After(k, s) \in P
                                   /\ k.pc = "lookup"  => On(last.tape, TurnRec(k, s))
                                   /\ k.pc = "compact" => On(last.tape, SummaryRec(k, s))
        BY <2>3 DEF Leads
      <3>2. \A e : On(last.tape, e) => On(new.tape, e)
        BY <1>1, OnGrows
      <3>3. QED
        BY <3>1, <3>2 DEF Leads
    <2>4. QED
      BY <1>2, <2>1, <2>2, <2>3
  <1> HIDE DEF Q
  <1>5. new \in Q /\ \A k \in Q : k \in P \/ k = new
    BY DEF Q
  <1>6. Path(Q, new)
    BY <1>3, <1>4, <1>5 DEF Path
  <1>7. QED
    BY <1>6 DEF Q

\* The tape a request leads to has its response.
LEMMA AfterTells ==
  ASSUME NEW k, k.tape \in Seq(Records), NEW r, After(k, r).tape \in Seq(Records)
  PROVE  /\ k.pc = "lookup"  => On(After(k, r).tape, TurnRec(k, r))
         /\ k.pc = "compact" => On(After(k, r).tape, SummaryRec(k, r))
  <1>1. Len(k.tape) \in Nat
    BY LenProperties
  <1>2. \A e : On(Append(k.tape, e), e)
    <2> TAKE e
    <2> DEFINE U == Records \cup {e}
    <2>1. k.tape \in Seq(U) /\ e \in U
      BY SeqMonotonic
    <2> HIDE DEF U
    <2>2. Len(Append(k.tape, e)) = Len(k.tape) + 1 /\ Append(k.tape, e)[Len(k.tape) + 1] = e
      BY <2>1, AppendFacts
    <2>3. QED
      BY <1>1, <2>2 DEF On
  <1>3. k.pc = "lookup" => After(k, r).tape = Append(k.tape, TurnRec(k, r))
    BY DEF After, FromLookup, State
  <1>4. k.pc = "compact" => After(k, r).tape = Append(k.tape, SummaryRec(k, r))
    BY DEF After, FromCompact, State
  <1>5. QED
    BY <1>2, <1>3, <1>4

\* A step puts one record, if any.
LEMMA StepPut ==
  ASSUME Typed, [Next]_vars
  PROVE  tape' = tape \/ \E r \in Records : Put(r)
  <1>1. CASE Moves
    BY <1>1, MovesPut
  <1>2. CASE Stays \/ (CheckToken /\ token) \/ TurnCancelled \/ ProviderFails \/ Crash \/ UNCHANGED vars
    BY <1>2, NothingPut DEF Stays
  <1>3. CASE RecordCancelled \/ Close
    BY <1>3, EndPut
  <1>4. QED
    BY <1>1, <1>2, <1>3, ThreeWays DEF Leaves

-----------------------------------------------------------------------------
(* Recording *)

\* A run that ended of its own.
Finished(t) == t # <<>> /\ Ended(t)

\* What a run began with is what its tape begins with, once it has a step.
Opened(ms) ==
  \/ pc = "start" /\ tape = <<>> /\ messages = ms /\ logged = 0
  \/ /\ pc = "log" /\ StepsOf(tape) = <<>> /\ messages = ms
     /\ Len(HistoryOf(tape)) = logged
     /\ \A i \in 1..logged : HistoryOf(tape)[i] = ms[i]
  \/ pc = "crashed" /\ StepsOf(tape) = <<>>
  \/ pc \notin {"start", "log"} /\ logged = Len(ms) /\ IsPrefixOf(ms, HistoryOf(tape))

\* The run has left its path, which ends where its tape does but for the records of an end.
Left(last) ==
  /\ pc \in {"end", "close"} \cup Terminal
  /\ pc \in {"end", "close"} => broke
  /\ IsPrefixOf(last.tape, tape) /\ Body(tape) = last.tape
  /\ Finished(tape) => last.pc = "end"

RecordingInv ==
  \E P, last : \E ms \in Seq(Messages) :
    /\ ms # <<>> /\ Opened(ms)
    /\ Path(P, last) /\ First(ms) \in P
    /\ (Here(last) /\ pc # "close") \/ Left(last)

LEMMA HistoryIsTyped ==
  ASSUME NEW t \in Seq(Records)
  PROVE  HistoryOf(t) \in Seq(Messages)
  <1>1. \A r \in Records : r.kind \in {"message", "step"} => Said(r) \in Messages
    BY DEF Records, Said, Responses
  <1>2. QED
    BY <1>1, HistoryTyped

LEMMA OpenedNext ==
  ASSUME Typed, NEW ms \in Seq(Messages), Opened(ms), [Next]_vars
  PROVE  Opened(ms)'
  <1>1. /\ tape \in Seq(Records) /\ HistoryOf(tape) \in Seq(Messages)
        /\ Len(ms) \in Nat /\ Len(HistoryOf(tape)) \in Nat
        /\ Typed' /\ tape' \in Seq(Records) /\ HistoryOf(tape') \in Seq(Messages)
    BY TypedNext, HistoryIsTyped, LenProperties DEF Typed, TypeOK
  <1> DEFINE h == HistoryOf(tape)
             g == HistoryOf(tape')
  <1>2. CASE Start
    <2>1. PICK r \in Records : Put(r) /\ r.kind = "run_start"
      BY <1>2, StartPut
    <2>2. tape = <<>> /\ messages = ms /\ logged = 0
      BY <1>2 DEF Opened, Start
    <2>3. HistoryOf(tape') = <<>> /\ StepsOf(tape') = <<>>
      <3>1. tape' = Append(tape, r)
        BY <2>1 DEF Put
      <3>2. HistoryOf(tape') = HistoryOf(tape)
        BY <1>1, <2>1, <3>1, HistoryAppend
      <3>3. StepsOf(tape') = StepsOf(tape)
        BY <1>1, <2>1, <3>1, OfKindAppend DEF StepsOf
      <3>4. StepsOf(<<>>) = <<>>
        BY OnlyEmpty DEF StepsOf, OfKind
      <3>5. QED
        BY <2>2, <3>2, <3>3, <3>4, HistoryEmpty
    <2>4. Len(HistoryOf(tape')) = 0
      BY <2>3, EmptySeq
    <2>5. pc' = "log" /\ messages' = ms /\ logged' = 0
      BY <1>2, <2>2 DEF Start, talk, built
    <2>6. QED
      BY <2>3, <2>4, <2>5 DEF Opened
  <1>3. CASE LogMessage
    <2>1. /\ StepsOf(tape) = <<>> /\ messages = ms /\ Len(h) = logged
          /\ \A i \in 1..logged : h[i] = ms[i]
      BY <1>3 DEF Opened, LogMessage
    <2>2. logged \in Nat /\ logged + 1 \in 1..Len(ms) /\ ms[logged + 1] \in Messages
      <3>1. logged \in Nat /\ logged < Len(ms)
        BY <1>3, <2>1 DEF LogMessage, Typed, TypeOK
      <3>2. logged + 1 \in 1..Len(ms)
        BY <1>1, <3>1
      <3>3. QED
        BY <3>1, <3>2, ElementOfSeq
    <2>3. Put(MessageRec(0, ms[logged + 1])) /\ MessageRec(0, ms[logged + 1]) \in Records
      BY <1>3, <2>1, <2>2, RecordsTyped DEF LogMessage
    <2>4. g = Append(h, ms[logged + 1])
      BY <1>1, <2>2, <2>3, MessagePut
    <2>5. StepsOf(tape') = <<>>
      BY <1>1, <2>1, <2>3, KindOf, OfKindAppend DEF StepsOf, Put
    <2>6. Len(g) = logged + 1 /\ \A i \in 1..logged + 1 : g[i] = ms[i]
      <3> HIDE DEF g, h
      <3>1. h \in Seq(Messages)
        BY <1>1 DEF h
      <3>2. Len(g) = Len(h) + 1 /\ g[Len(h) + 1] = ms[logged + 1] /\ \A i \in 1..Len(h) : g[i] = h[i]
        BY <2>2, <2>4, <3>1, AppendFacts
      <3>3. QED
        BY <2>1, <2>2, <3>2
    <2>7. /\ logged' = logged + 1 /\ messages' = ms
          /\ pc' = IF logged + 1 = Len(ms) THEN "top" ELSE "log"
      BY <1>3, <2>1 DEF LogMessage, talk
    <2>8. CASE logged + 1 = Len(ms)
      <3> HIDE DEF g
      <3>1. g \in Seq(Messages) /\ Len(ms) <= Len(g) /\ \A i \in 1..Len(ms) : ms[i] = g[i]
        BY <1>1, <2>6, <2>8 DEF g
      <3>2. IsPrefixOf(ms, g)
        BY <3>1, PrefixFacts
      <3>3. QED
        BY <2>7, <2>8, <3>2 DEF Opened, g
    <2>9. CASE logged + 1 # Len(ms)
      BY <2>5, <2>6, <2>7, <2>9 DEF Opened
    <2>10. QED
      BY <2>8, <2>9
  <1>4. CASE ~Start /\ ~LogMessage /\ pc \in {"start", "log"}
    <2>1. /\ Cancel \/ Crash \/ UNCHANGED vars
          /\ tape' = tape /\ messages' = messages /\ logged' = logged
          /\ pc' = pc \/ pc' = "crashed"
      <3>1. Cancel \/ Crash \/ UNCHANGED vars
        BY <1>4 DEF Next, Loop, Ceiling, BeginStep, CheckToken, ServedFromCache, AskModel,
              TurnReturns, TurnCancelled, ProviderFails, Decide, NoPolicy, Dispatch, Fit,
              RecordResult, RecordBatch, SummaryFromCache, AskSummary, SummaryReturns, Splice,
              RecordCancelled, Close
      <3>2. QED
        BY <3>1 DEF Cancel, Crash, vars, talk, built
    <2>2. StepsOf(<<>>) = <<>>
      BY OnlyEmpty DEF StepsOf, OfKind
    <2>3. pc \in {"start", "log"} => StepsOf(tape) = <<>>
      BY <2>2 DEF Opened
    <2>4. QED
      BY <1>4, <2>1, <2>3 DEF Opened
  <1>5. CASE pc = "crashed"
    <2>1. UNCHANGED <<pc, tape, logged>>
      BY <1>5 DEF Next, Loop, Start, LogMessage, Ceiling, BeginStep, CheckToken, ServedFromCache,
            AskModel, TurnReturns, TurnCancelled, ProviderFails, Decide, NoPolicy, Dispatch, Fit,
            RecordResult, RecordBatch, SummaryFromCache, AskSummary, SummaryReturns, Splice,
            RecordCancelled, Close, Cancel, Crash, Terminal, vars, built
    <2>2. QED
      BY <1>5, <2>1 DEF Opened
  <1>6. CASE pc \notin {"start", "log", "crashed"}
    <2>1. logged = Len(ms) /\ IsPrefixOf(ms, h)
      BY <1>6 DEF Opened
    <2>2. pc' \notin {"start", "log"} /\ logged' = logged
      BY <1>6 DEF Next, Loop, Start, LogMessage, Ceiling, BeginStep, CheckToken, ServedFromCache,
            AskModel, TurnReturns, TurnCancelled, ProviderFails, Decide, NextCall, NoPolicy,
            Dispatch, Fit, Answered, Summarised,
            RecordResult, RecordBatch, SummaryFromCache, AskSummary, SummaryReturns, Splice,
            RecordCancelled, Close, Cancel, Crash, vars, built
    <2>3. tape' = tape \/ \E r \in Records : Put(r)
      BY StepPut
    <2>4. IsPrefixOf(ms, g)
      <3>1. ASSUME NEW r \in Records, Put(r)
            PROVE  IsPrefixOf(ms, g)
        <4>1. g = IF r.kind \in {"message", "step"} THEN Append(h, Said(r)) ELSE h
          BY <1>1, <3>1, HistoryAppend DEF Put
        <4>2. r.kind \in {"message", "step"} => Said(r) \in Messages
          BY DEF Records, Said, Responses
        <4> HIDE DEF g, h
        <4>3. h \in Seq(Messages)
          BY <1>1 DEF h
        <4>4. QED
          BY <2>1, <4>1, <4>2, <4>3, PrefixAppend
      <3>2. QED
        BY <2>1, <2>3, <3>1
    <2>5. QED
      BY <2>1, <2>2, <2>4 DEF Opened
  <1>7. QED
    BY <1>2, <1>3, <1>4, <1>5, <1>6

LEMMA StaysHere ==
  ASSUME NEW k, Here(k), Stays \/ UNCHANGED vars
  PROVE  Here(k)' /\ tape' = tape
  <1>1. /\ UNCHANGED <<agent, step, logged, messages, response, batch, content, world, tape>>
        /\ \/ pc' = pc
           \/ pc = "lookup" /\ pc' = "turn"
           \/ pc = "compact" /\ pc' = "summarise"
    BY DEF Stays, AskModel, AskSummary, Cancel, vars, built, flow, talk, outside
  <1>2. QED
    BY <1>1 DEF Here, Place

\* How a run leaves its path: the last that happens, and what it puts.
LEMMA LeavesTape ==
  ASSUME Typed, Leaves
  PROVE  /\ pc' \in {"end", "close"} \cup Terminal
         /\ pc' \in {"end", "close"} => broke'
         /\ \/ tape' = tape
            \/ \E r \in Records : /\ Put(r) /\ r.kind \in EndKinds
                                  /\ r.kind = "run_end" => Close /\ r.cancelled = broke
  <1>1. CASE CheckToken /\ token
    BY <1>1 DEF CheckToken
  <1>2. CASE TurnCancelled
    BY <1>2 DEF TurnCancelled
  <1>3. CASE ProviderFails \/ Crash
    BY <1>3 DEF ProviderFails, Crash, Terminal
  <1>4. CASE RecordCancelled
    <2>1. CancelledRec(step) \in Records /\ Put(CancelledRec(step))
      BY <1>4, EndPut
    <2>2. CancelledRec(step).kind = "cancelled"
      BY DEF CancelledRec
    <2>3. pc' = "close" /\ broke'
      BY <1>4 DEF RecordCancelled, flow
    <2>4. QED
      BY <2>1, <2>2, <2>3 DEF EndKinds
  <1>5. CASE Close
    <2>1. RunEnd(step, stop, broke) \in Records /\ Put(RunEnd(step, stop, broke))
      BY <1>5, EndPut
    <2>2. RunEnd(step, stop, broke).kind = "run_end" /\ RunEnd(step, stop, broke).cancelled = broke
      BY DEF RunEnd
    <2>3. pc' = "done"
      BY <1>5 DEF Close
    <2>4. QED
      BY <1>5, <2>1, <2>2, <2>3 DEF EndKinds, Terminal
  <1>6. QED
    BY <1>1, <1>2, <1>3, <1>4, <1>5 DEF Leaves

\* A record of an end leaves the rest of the tape as it was.
LEMMA BodyStays ==
  ASSUME Typed, NEW r \in Records, Put(r), r.kind \in EndKinds
  PROVE  /\ Body(tape') = Body(tape)
         /\ \A s \in Seq(Records) : IsPrefixOf(s, tape) => IsPrefixOf(s, tape')
         /\ Finished(tape') => r.kind = "run_end" /\ ~r.cancelled
  <1>1. tape \in Seq(Records) /\ tape' = Append(tape, r)
    BY DEF Typed, TypeOK, Put
  <1>2. Body(tape') = Body(tape)
    BY <1>1, BodyAppend
  <1>3. \A s \in Seq(Records) : IsPrefixOf(s, tape) => IsPrefixOf(s, tape')
    BY <1>1, PrefixAppend
  <1>4. tape'[Len(tape')] = r
    BY PutFacts
  <1>5. QED
    BY <1>2, <1>3, <1>4 DEF Finished, Ended

\* The tape of a state of a path says nothing of an end.
LEMMA BodyHasNoEnd ==
  ASSUME NEW t \in Seq(Records), Body(t) = t
  PROVE  ~Finished(t)
  <1> DEFINE kept == {i \in 1..Len(t) : t[i].kind \notin {"cancelled", "run_end"}}
             U == {r \in Records : r.kind # "run_end"}
  <1>1. Len(t) \in Nat /\ \A i \in 1..Len(t) : t[i] \in Records
    BY LenProperties, ElementOfSeq
  <1>2. \A i \in 1..Len(t) : i \in kept => t[i] \in U
    BY <1>1
  <1>3. Body(t) = Only(t, kept)
    BY DEF Body
  <1> HIDE DEF kept, U
  <1>4. t \in Seq(U)
    BY <1>1, <1>2, <1>3, OnlyTyped
  <1>5. t # <<>> => t[Len(t)] \in U
    <2>1. t # <<>> => Len(t) \in 1..Len(t)
      BY <1>1, EmptySeq
    <2>2. QED
      BY <1>4, <2>1, ElementOfSeq
  <1>6. QED
    BY <1>5 DEF Finished, Ended, U

LEMMA RecordingInit == Init => RecordingInv
  <1> SUFFICES ASSUME Init
               PROVE  RecordingInv
    OBVIOUS
  <1>1. messages \in Seq(Messages) /\ messages # <<>>
    BY TypedInit DEF Typed, TypeOK
  <1> DEFINE k == First(messages)
  <1>2. Path({k}, k) /\ k \in {k}
    BY PathStarts
  <1>3. Here(k)
    BY DEF Init, Here, Place, First, State
  <1>4. pc # "close" /\ Opened(messages)
    BY DEF Init, Opened
  <1> HIDE DEF k
  <1>5. QED
    BY <1>1, <1>2, <1>3, <1>4 DEF RecordingInv, k

LEMMA RecordingNext ==
  ASSUME Repeatable, Typed, RecordingInv, [Next]_vars
  PROVE  RecordingInv'
  <1>1. PICK P, last : \E ms \in Seq(Messages) :
          /\ ms # <<>> /\ Opened(ms)
          /\ Path(P, last) /\ First(ms) \in P
          /\ (Here(last) /\ pc # "close") \/ Left(last)
    BY DEF RecordingInv
  <1>2. PICK ms \in Seq(Messages) :
          /\ ms # <<>> /\ Opened(ms)
          /\ Path(P, last) /\ First(ms) \in P
          /\ (Here(last) /\ pc # "close") \/ Left(last)
    BY <1>1
  <1>3. Opened(ms)' /\ Typed' /\ agent' = agent
    BY <1>2, OpenedNext, TypedNext, ThreeWays
  <1>4. First(ms)' = First(ms)
    BY <1>3 DEF First, State
  <1>5. SUFFICES \E Q, l : Path(Q, l) /\ First(ms) \in Q
                           /\ ((Here(l) /\ pc # "close") \/ Left(l))'
    BY <1>2, <1>3, <1>4 DEF RecordingInv
  <1>6. /\ last.tape \in Seq(Records) /\ Body(last.tape) = last.tape
        /\ IsPrefixOf(last.tape, last.tape)
        /\ tape \in Seq(Records) /\ tape' \in Seq(Records)
    BY <1>2, <1>3 DEF Path, Typed, TypeOK
  <1>7. CASE Here(last) /\ Moves
    <2>1. PICK r \in Responses : Here(After(last, r))'
      BY <1>7, MovesAlong
    <2>2. pc' # "close"
      BY <1>7, MovesAlong
    <2> DEFINE new == After(last, r)
    <2>3. new.tape = tape' /\ last.tape = tape
      BY <1>7, <2>1 DEF Here
    <2>4. Body(tape') = tape' /\ IsPrefixOf(tape, tape')
      <3>1. Body(tape) = tape /\ IsPrefixOf(tape, tape)
        BY <1>6, <2>3
      <3>2. ASSUME NEW e \in Records, Put(e), e.kind \notin EndKinds
            PROVE  Body(tape') = tape' /\ IsPrefixOf(tape, tape')
        BY <1>6, <3>1, <3>2, BodyAppend, PrefixAppend DEF Put
      <3>3. QED
        BY <1>7, <3>1, <3>2, MovesPut
    <2>5. /\ last.pc = "lookup" => On(new.tape, TurnRec(last, r))
          /\ last.pc = "compact" => On(new.tape, SummaryRec(last, r))
      BY <1>6, <2>3, AfterTells
    <2> HIDE DEF new
    <2>6. Path(P \cup {new}, new)
      BY <1>2, <1>6, <2>3, <2>4, <2>5, PathGoesOn DEF new
    <2>7. Here(new)' /\ First(ms) \in P \cup {new}
      BY <1>2, <2>1 DEF new
    <2>8. QED
      BY <2>2, <2>6, <2>7
  <1>8. CASE Here(last) /\ pc # "close" /\ (Stays \/ UNCHANGED vars)
    <2>1. Here(last)' /\ pc' # "close"
      BY <1>8, StaysHere DEF Stays, AskModel, AskSummary, Cancel, vars
    <2>2. QED
      BY <1>2, <2>1
  <1>9. CASE Here(last) /\ pc # "close" /\ Leaves
    <2>1. Body(tape) = last.tape /\ IsPrefixOf(last.tape, tape) /\ ~Finished(tape)
      BY <1>6, <1>9, BodyHasNoEnd DEF Here
    <2>2. Close => last.pc = "end"
      BY <1>9, PlaceIs DEF Close
    <2>3. Left(last)'
      <3>1. CASE tape' = tape
        BY <1>9, <2>1, <3>1, LeavesTape DEF Left, Finished, Ended
      <3>2. ASSUME NEW e \in Records, Put(e), e.kind \in EndKinds,
                   e.kind = "run_end" => Close /\ e.cancelled = broke
            PROVE  Left(last)'
        BY <1>6, <1>9, <2>1, <2>2, <3>2, LeavesTape, BodyStays DEF Left
      <3>3. QED
        BY <1>9, <3>1, <3>2, LeavesTape
    <2>4. QED
      BY <1>2, <2>3
  <1>10. CASE Left(last)
    <2>1. Cancel \/ RecordCancelled \/ Close \/ Crash \/ UNCHANGED vars
      BY <1>10 DEF Left, Terminal, Next, Loop, Start, LogMessage, Ceiling, BeginStep, CheckToken,
            ServedFromCache, AskModel, TurnReturns, TurnCancelled, ProviderFails, Decide,
            NoPolicy, Dispatch, Fit, RecordResult, RecordBatch, SummaryFromCache, AskSummary,
            SummaryReturns, Splice
    <2>2. CASE Cancel \/ UNCHANGED vars
      <3>1. UNCHANGED <<pc, broke, tape>>
        BY <2>2 DEF Cancel, vars, flow
      <3>2. QED
        BY <1>2, <1>10, <3>1 DEF Left, Finished, Ended
    <2>3. CASE Leaves
      <3>1. Close => broke
        BY <1>10 DEF Left, Close
      <3>2. CASE tape' = tape
        BY <1>2, <1>10, <2>3, <3>2, LeavesTape DEF Left, Finished, Ended
      <3>3. ASSUME NEW e \in Records, Put(e), e.kind \in EndKinds,
                   e.kind = "run_end" => Close /\ e.cancelled = broke
            PROVE  Left(last)'
        <4>1. Body(tape') = Body(tape) /\ IsPrefixOf(last.tape, tape') /\ ~Finished(tape')
          BY <1>6, <1>10, <3>1, <3>3, BodyStays DEF Left
        <4>2. QED
          BY <1>10, <2>3, <4>1, LeavesTape DEF Left
      <3>4. QED
        BY <1>2, <2>3, <3>2, <3>3, LeavesTape
    <2>4. QED
      BY <2>1, <2>2, <2>3 DEF Leaves
  <1>11. QED
    BY <1>2, <1>7, <1>8, <1>9, <1>10, ThreeWays

-----------------------------------------------------------------------------
(* Replaying *)

\* The replay is on the path of its recording; or it has left it, stopped; or it is beyond
\* its end, where the recording did not end of its own.
Follows(P, last) ==
  \/ live = 0 /\ pc \notin {"turn", "summarise"} /\ \E k \in P : Here(k)
  \/ live = 0 /\ pc \in {"end", "close"} \cup Terminal /\ \E k \in P : Body(tape) = k.tape
  \/ ~Ended(agent.source) /\ IsPrefixOf(last.tape, Body(tape))

ReplayingInv ==
  /\ agent.source \in Seq(Records) /\ agent.cache = CacheOf(agent.source)
  /\ \E P, last : /\ Path(P, last)
                  /\ IsPrefixOf(last.tape, agent.source) /\ Body(agent.source) = last.tape
                  /\ Ended(agent.source) => last.pc = "end"
                  /\ KeysTell(agent.source) => Follows(P, last)

ReplayInv == Typed /\ IF Replaying THEN ReplayingInv ELSE RecordingInv

\* A cache has responses.
LEMMA CacheTyped ==
  ASSUME NEW t \in Seq(Records)
  PROVE  \A k \in DOMAIN CacheOf(t) : CacheOf(t)[k] \in Responses
  <1> DEFINE places == Places(t, {"step"})
             steps == StepsOf(t)
             U == {r \in Records : r.kind = "step"}
  <1>1. Len(t) \in Nat /\ \A i \in 1..Len(t) : t[i] \in Records
    BY LenProperties, ElementOfSeq
  <1>2. \A i \in 1..Len(t) : i \in places => t[i] \in U
    BY <1>1 DEF Places
  <1>3. steps = Only(t, places)
    BY DEF StepsOf, OfKind
  <1>4. \A r \in U : r.response \in Responses
    BY DEF Records
  <1> HIDE DEF places, U
  <1>5. steps \in Seq(U)
    BY <1>1, <1>2, <1>3, OnlyTyped
  <1>6. \A i \in 1..Len(steps) : steps[i].response \in Responses
    BY <1>4, <1>5, ElementOfSeq
  <1> HIDE DEF steps
  <1>7. ASSUME NEW k, k \in DOMAIN CacheOf(t)
        PROVE  CacheOf(t)[k] \in Responses
    <2> DEFINE last(c) == CHOOSE i \in 1..Len(steps) :
                            steps[i].key = c /\ \A l \in i + 1..Len(steps) : steps[l].key # c
    <2>1. /\ k \in {steps[i].key : i \in 1..Len(steps)}
          /\ CacheOf(t)[k] = steps[last(k)].response
      BY <1>7 DEF CacheOf, steps
    <2> HIDE DEF last
    <2>2. \E i \in 1..Len(steps) :
            steps[i].key = k /\ \A l \in i + 1..Len(steps) : steps[l].key # k
      <3>1. PICK j \in 1..Len(steps) : steps[j].key = k
        BY <2>1
      <3>2. Len(steps) \in Nat
        BY <1>5, LenProperties
      <3>3. ASSUME NEW s, s = steps
            PROVE  \E i \in 1..Len(s) : s[i].key = k /\ \A l \in i + 1..Len(s) : s[l].key # k
        <4>1. j \in 1..Len(s) /\ s[j].key = k /\ Len(s) \in Nat
          BY <3>1, <3>2, <3>3
        <4>2. QED
          BY <4>1, LastPlace
      <3>4. QED
        BY <3>3
    <2>3. last(k) \in 1..Len(steps)
      BY <2>2 DEF last
    <2>4. QED
      BY <1>6, <2>1, <2>3
  <1>8. QED
    BY <1>7

\* On a path, what is left of a tape with an end is the tape.
LEMMA PathBody ==
  ASSUME NEW P, NEW last, Path(P, last), NEW k \in P, Here(k)
  PROVE  /\ k.tape = tape /\ Body(tape) = k.tape
         /\ k.tape \in Seq(Records) /\ IsPrefixOf(k.tape, last.tape)
  BY DEF Path, Here

\* Before the end of its path a replay has, for each request, the response the path had.
LEMMA CacheLeads ==
  ASSUME Typed, agent.source \in Seq(Records), agent.cache = CacheOf(agent.source),
         KeysTell(agent.source),
         NEW P, NEW last, Path(P, last), IsPrefixOf(last.tape, agent.source),
         NEW k \in P, k # last, Here(k)
  PROVE  /\ pc = "lookup" => /\ Key \in DOMAIN agent.cache
                             /\ After(k, agent.cache[Key]) \in P
         /\ pc = "compact" => /\ SummaryKey \in DOMAIN agent.cache
                              /\ After(k, agent.cache[SummaryKey]) \in P
         /\ pc \notin {"lookup", "compact", "turn", "summarise"} =>
              \A r : After(k, r) \in P
  <1>1. PICK s \in Responses : /\ After(k, s) \in P
                               /\ k.pc = "lookup"  => On(last.tape, TurnRec(k, s))
                               /\ k.pc = "compact" => On(last.tape, SummaryRec(k, s))
    BY DEF Path, Leads
  <1>2. last.tape \in Seq(Records)
    BY DEF Path
  <1>3. /\ k.pc = "lookup"  => On(agent.source, TurnRec(k, s))
        /\ k.pc = "compact" => On(agent.source, SummaryRec(k, s))
    BY <1>1, <1>2, OnGrows
  <1>4. ASSUME NEW key, NEW n, On(agent.source, StepRec(n, key, s))
        PROVE  key \in DOMAIN agent.cache /\ agent.cache[key] = s
    <2>1. PICK p \in 1..Len(agent.source) : agent.source[p] = StepRec(n, key, s)
      BY <1>4 DEF On
    <2>2. /\ StepRec(n, key, s).kind = "step" /\ StepRec(n, key, s).key = key
          /\ StepRec(n, key, s).response = s
      BY DEF StepRec
    <2>3. /\ agent.source[p].kind = "step" /\ agent.source[p].key = key
          /\ agent.source[p].response = s
      BY <2>1, <2>2
    <2> DEFINE t == agent.source
    <2>4. t \in Seq(Records) /\ KeysTell(t) /\ p \in 1..Len(t) /\ t[p].kind = "step"
      BY <2>3
    <2> HIDE DEF t
    <2>5. t[p].key \in DOMAIN CacheOf(t) /\ CacheOf(t)[t[p].key] = t[p].response
      BY <2>4, CacheServes
    <2>6. QED
      BY <2>3, <2>5 DEF t
  <1>5. CASE pc = "lookup"
    <2>1. k.pc = "lookup" /\ TurnRec(k, s) = StepRec(k.step, Key, s)
      BY <1>5, PlaceIs DEF TurnRec, Key, Here
    <2>2. Key \in DOMAIN agent.cache /\ agent.cache[Key] = s
      BY <1>3, <1>4, <2>1
    <2>3. QED
      BY <1>1, <1>5, <2>2
  <1>6. CASE pc = "compact"
    <2>1. k.pc = "compact" /\ SummaryRec(k, s) = StepRec(k.step, SummaryKey, s)
      BY <1>6, PlaceIs DEF SummaryRec, SummaryKey, Here
    <2>2. SummaryKey \in DOMAIN agent.cache /\ agent.cache[SummaryKey] = s
      BY <1>3, <1>4, <2>1
    <2>3. QED
      BY <1>1, <1>6, <2>2
  <1>7. CASE pc \notin {"lookup", "compact", "turn", "summarise"}
    <2>1. k.pc \notin {"lookup", "compact"}
      BY <1>7, PlaceIs
    <2>2. QED
      BY <1>1, <1>7, <2>1, AfterIgnores
  <1>8. QED
    BY <1>5, <1>6, <1>7

\* Whatever a step puts, what began the tape without its end still begins it.
LEMMA BodyKeeps ==
  ASSUME Typed, [Next]_vars, NEW s \in Seq(Records), IsPrefixOf(s, Body(tape))
  PROVE  IsPrefixOf(s, Body(tape'))
  <1>1. tape \in Seq(Records) /\ Body(tape) \in Seq(Records)
    BY BodyTyped DEF Typed, TypeOK
  <1>2. ASSUME NEW r \in Records, Put(r)
        PROVE  IsPrefixOf(s, Body(tape'))
    <2>1. Body(tape') = IF r.kind \in EndKinds THEN Body(tape) ELSE Append(Body(tape), r)
      BY <1>1, <1>2, BodyAppend DEF Put
    <2>2. IsPrefixOf(s, Append(Body(tape), r))
      BY <1>1, PrefixAppend
    <2>3. QED
      BY <2>1, <2>2
  <1>3. QED
    BY <1>2, StepPut

LEMMA FollowsNext ==
  ASSUME Repeatable, Typed, agent.source \in Seq(Records), agent.cache = CacheOf(agent.source),
         KeysTell(agent.source), NEW P, NEW last, Path(P, last),
         IsPrefixOf(last.tape, agent.source), Body(agent.source) = last.tape,
         Ended(agent.source) => last.pc = "end",
         Follows(P, last), [Next]_vars
  PROVE  Follows(P, last)'
  <1>1. agent' = agent
    BY ThreeWays
  <1>2. last \in P /\ last.tape \in Seq(Records) /\ Body(last.tape) = last.tape
    BY DEF Path
  <1>3. ASSUME ~Ended(agent.source), IsPrefixOf(last.tape, Body(tape))
        PROVE  Follows(P, last)'
    BY <1>1, <1>2, <1>3, BodyKeeps DEF Follows
  <1>4. ASSUME live = 0, Leaves, NEW k \in P, Body(tape) = k.tape, pc \notin {"turn", "summarise"}
        PROVE  Follows(P, last)'
    <2>1. pc' \in {"end", "close"} \cup Terminal
      BY <1>4, LeavesTape
    <2>2. Body(tape') = k.tape
      BY <1>4, LeavesTape, BodyStays
    <2>3. live' = 0
      BY <1>4 DEF Leaves, CheckToken, TurnCancelled, ProviderFails, RecordCancelled, Close, Crash,
                  counts
    <2>4. QED
      BY <2>1, <2>2, <2>3 DEF Follows
  <1>5. ASSUME live = 0, pc \notin {"turn", "summarise"}, NEW k \in P, Here(k)
        PROVE  Follows(P, last)'
    <2>1. k.tape = tape /\ Body(tape) = k.tape
      BY <1>5, PathBody
    <2>2. k = last => IsPrefixOf(last.tape, Body(tape))
      BY <1>2, <2>1, PrefixFacts
    <2>3. k = last /\ pc # "end" => ~Ended(agent.source)
      BY <1>5, PlaceIs
    <2>4. CASE k = last /\ pc # "end"
      BY <1>3, <2>2, <2>3, <2>4
    <2>5. CASE Leaves
      BY <1>4, <1>5, <2>1, <2>5
    <2>6. CASE Cancel \/ UNCHANGED vars
      <3>1. Here(k)' /\ live' = live /\ pc' = pc
        BY <1>5, <2>6, StaysHere DEF Stays, Cancel, vars, counts
      <3>2. QED
        BY <1>5, <3>1 DEF Follows
    <2>7. CASE AskModel \/ AskSummary
      <3>1. /\ AskModel => pc = "lookup" /\ Key \notin DOMAIN agent.cache
            /\ AskSummary => pc = "compact" /\ SummaryKey \notin DOMAIN agent.cache
        BY DEF AskModel, AskSummary
      <3>2. k = last
        BY <1>5, <2>7, <3>1, CacheLeads
      <3>3. QED
        BY <2>4, <2>7, <3>1, <3>2
    <2>8. CASE Moves /\ k # last
      <3>1. PICK r \in Responses : Here(After(k, r))' /\ Served(k, r)
        BY <1>5, <2>8, MovesAlong
      <3>2. pc' \notin {"turn", "summarise"}
        BY <1>5, <2>8, MovesAlong
      <3>3. After(k, r) \in P
        BY <1>5, <2>8, <3>1, CacheLeads DEF Served
      <3>4. live' = live
        BY <1>5, <2>8 DEF Moves, Start, LogMessage, Ceiling, BeginStep, CheckToken,
             ServedFromCache, TurnReturns, Decide, NoPolicy, Dispatch, Fit, RecordResult,
             RecordBatch, SummaryFromCache, SummaryReturns, Splice, counts
      <3>5. QED
        BY <1>5, <3>1, <3>2, <3>3, <3>4 DEF Follows
    <2>9. CASE Moves /\ k = last /\ pc = "end"
      BY <1>5, <2>9, MovesAlong
    <2>10. QED
      BY <2>4, <2>5, <2>6, <2>7, <2>8, <2>9, ThreeWays DEF Stays
  <1>6. ASSUME live = 0, pc \in {"end", "close"} \cup Terminal, NEW k \in P, Body(tape) = k.tape
        PROVE  Follows(P, last)'
    <2>1. Cancel \/ RecordCancelled \/ Close \/ Crash \/ UNCHANGED vars
      BY <1>6 DEF Terminal, Next, Loop, Start, LogMessage, Ceiling, BeginStep, CheckToken,
            ServedFromCache, AskModel, TurnReturns, TurnCancelled, ProviderFails, Decide,
            NoPolicy, Dispatch, Fit, RecordResult, RecordBatch, SummaryFromCache, AskSummary,
            SummaryReturns, Splice
    <2>2. CASE Cancel \/ UNCHANGED vars
      <3>1. UNCHANGED <<pc, live, tape>>
        BY <2>2 DEF Cancel, vars, counts
      <3>2. QED
        BY <1>6, <3>1 DEF Follows
    <2>3. CASE Leaves
      <3>1. pc \notin {"turn", "summarise"}
        BY <1>6 DEF Terminal
      <3>2. QED
        BY <1>4, <1>6, <2>3, <3>1
    <2>4. QED
      BY <2>1, <2>2, <2>3 DEF Leaves
  <1>7. QED
    BY <1>3, <1>5, <1>6 DEF Follows

\* A replay starts where its recording started, and its cache has typed responses.
LEMMA ReplayStarts ==
  ASSUME Repeatable, Typed, RecordingInv, StartReplay
  PROVE  Typed' /\ Replaying' /\ ReplayingInv'
  <1>1. PICK P, last : \E ms \in Seq(Messages) :
          /\ ms # <<>> /\ Opened(ms)
          /\ Path(P, last) /\ First(ms) \in P
          /\ (Here(last) /\ pc # "close") \/ Left(last)
    BY DEF RecordingInv
  <1>2. PICK ms \in Seq(Messages) :
          /\ ms # <<>> /\ Opened(ms)
          /\ Path(P, last) /\ First(ms) \in P
          /\ (Here(last) /\ pc # "close") \/ Left(last)
    BY <1>1
  <1>3. tape \in Seq(Records) /\ tape # <<>>
    <2>1. StepsOf(<<>>) = <<>>
      BY OnlyEmpty DEF StepsOf, OfKind
    <2>2. QED
      BY <2>1 DEF StartReplay, Typed, TypeOK
  <1>4. /\ agent'.source = tape /\ agent'.cache = CacheOf(tape)
        /\ agent'.config = agent.config /\ agent'.resumed = agent.resumed
    <2>1. agent' = [agent EXCEPT !.source = tape, !.cache = CacheOf(tape)]
      BY DEF StartReplay
    <2>2. QED
      BY <2>1
  <1>5. messages' = ms
    <2>1. pc \notin {"start", "log"} /\ StepsOf(tape) # <<>>
      BY DEF StartReplay, Terminal
    <2>2. logged = Len(ms) /\ IsPrefixOf(ms, HistoryOf(tape))
      BY <1>2, <2>1 DEF Opened
    <2>3. QED
      BY <2>2 DEF StartReplay, IsPrefixOf
  <1>6. /\ pc' = "start" /\ step' = 0 /\ logged' = 0 /\ tape' = <<>> /\ world' = 0
        /\ response' = NoResponse /\ batch' = <<>> /\ content' = NoContent /\ live' = 0
        /\ stop' = "other" /\ broke' = FALSE /\ token' = FALSE /\ grants' = {} /\ late' = 0
        /\ snaps' = [s \in {} |-> 0]
    BY DEF StartReplay, Repeatable
  <1>7. Typed'
    <2>1. /\ <<>> \in Seq(Records) /\ <<>> \in Seq(Contents)
          /\ NoResponse \in Responses /\ NoContent \in Contents /\ MaxSteps \in Nat
      BY EmptySeq, NoResponseTyped, Bounds DEF NoContent, Contents
    <2>2. \A k \in DOMAIN agent'.cache : agent'.cache[k] \in Responses
      BY <1>3, <1>4, CacheTyped
    <2>3. agent'.config \in Configs /\ agent'.resumed \in BOOLEAN
      BY <1>4 DEF Typed, TypeOK
    <2>4. /\ step' \in 0..MaxSteps /\ logged' \in Nat /\ world' \in Nat /\ live' \in Nat
          /\ late' \in Nat /\ messages' \in Seq(Messages) /\ messages' # <<>>
      BY <1>2, <1>5, <1>6, <2>1
    <2>5. DOMAIN snaps' = {}
      BY <1>6
    <2>6. (pc \in PCs)' /\ ~(InBatch') /\ (pc \notin InStep)' /\ (stop \in StopReasons)'
      BY <1>6 DEF PCs, InBatch, InStep, StopReasons
    <2>7. QED
      BY <1>6, <2>1, <2>2, <2>3, <2>4, <2>5, <2>6 DEF Typed, TypeOK
  <1>8. Replaying'
    BY <1>3, <1>4 DEF Replaying
  <1>9. PICK k \in P : k = First(ms)
    BY <1>2
  <1>10. Follows(P, last)'
    <2>1. Here(k)'
      BY <1>4, <1>5, <1>6, <1>9 DEF Here, Place, First, State
    <2>2. QED
      BY <1>6, <2>1 DEF Follows
  <1>11. IsPrefixOf(last.tape, tape) /\ Body(tape) = last.tape /\ (Ended(tape) => last.pc = "end")
    <2>1. CASE Here(last)
      <3>1. last.tape = tape /\ Body(tape) = tape /\ IsPrefixOf(tape, tape)
        BY <1>2, <2>1 DEF Path, Here
      <3>2. QED
        BY <1>3, <3>1, BodyHasNoEnd DEF Finished
    <2>2. CASE Left(last)
      BY <1>3, <2>2 DEF Left, Finished
    <2>3. QED
      BY <1>2, <2>1, <2>2
  <1>12. ReplayingInv'
    BY <1>2, <1>3, <1>4, <1>10, <1>11 DEF ReplayingInv
  <1>13. QED
    BY <1>7, <1>8, <1>12

LEMMA ReplayInit == Init => ReplayInv
  <1> SUFFICES ASSUME Init
               PROVE  ReplayInv
    OBVIOUS
  <1>1. agent.source = <<>>
    BY DEF Init
  <1>2. QED
    BY <1>1, TypedInit, RecordingInit DEF ReplayInv, Replaying

LEMMA ReplayNext ==
  ASSUME Repeatable, ReplayInv, [RNext]_vars
  PROVE  ReplayInv'
  <1>1. CASE [Next]_vars /\ ~Replaying
    <2>1. Typed' /\ RecordingInv' /\ agent' = agent
      BY <1>1, TypedNext, RecordingNext, ThreeWays DEF ReplayInv
    <2>2. QED
      BY <1>1, <2>1 DEF ReplayInv, Replaying
  <1>2. CASE [Next]_vars /\ Replaying
    <2>1. Typed' /\ agent' = agent
      BY <1>2, TypedNext, ThreeWays DEF ReplayInv
    <2>2. /\ agent.source \in Seq(Records) /\ agent.cache = CacheOf(agent.source)
          /\ \E P, last : /\ Path(P, last)
                          /\ IsPrefixOf(last.tape, agent.source) /\ Body(agent.source) = last.tape
                          /\ Ended(agent.source) => last.pc = "end"
                          /\ KeysTell(agent.source) => Follows(P, last)
      BY <1>2 DEF ReplayInv, ReplayingInv
    <2>3. PICK P, last : /\ Path(P, last)
                         /\ IsPrefixOf(last.tape, agent.source) /\ Body(agent.source) = last.tape
                         /\ Ended(agent.source) => last.pc = "end"
                         /\ KeysTell(agent.source) => Follows(P, last)
      BY <2>2
    <2>4. KeysTell(agent.source) => Follows(P, last)'
      BY <1>2, <2>2, <2>3, FollowsNext DEF ReplayInv
    <2>5. ReplayingInv'
      BY <2>1, <2>2, <2>3, <2>4 DEF ReplayingInv
    <2>6. QED
      BY <1>2, <2>1, <2>5 DEF ReplayInv, Replaying
  <1>3. CASE StartReplay
    BY <1>3, ReplayStarts DEF ReplayInv, StartReplay
  <1>4. QED
    BY <1>1, <1>2, <1>3 DEF RNext

\* What follows from being on the path, or beyond it.
LEMMA FollowsMeans ==
  ASSUME ReplayInv, Replaying, KeysTell(agent.source)
  PROVE  /\ \/ IsPrefixOf(Body(agent.source), Body(tape))
            \/ IsPrefixOf(Body(tape), Body(agent.source)) /\ live = 0
         /\ Ended(agent.source) => live = 0
  <1>1. PICK P, last : /\ Path(P, last) /\ Body(agent.source) = last.tape /\ Follows(P, last)
    BY DEF ReplayInv, ReplayingInv
  <1>2. \A k \in P : IsPrefixOf(k.tape, last.tape) /\ (Here(k) => Body(tape) = k.tape)
    BY <1>1, PathBody DEF Path
  <1>3. QED
    BY <1>1, <1>2 DEF Follows

\* Replaying a recording whose keys tell its responses apart writes the recording again,
\* record by record and without asking the model, as long as the recording lasts.
THEOREM ReplayRepeatsHolds ==
  ASSUME Repeatable
  PROVE  RSpec => []ReplayRepeats
  <1>1. ReplayInv /\ [RNext]_vars => ReplayInv'
    BY ReplayNext
  <1>2. ReplayInv => ReplayRepeats
    BY FollowsMeans DEF ReplayRepeats
  <1>3. QED
    BY ReplayInit, <1>1, <1>2, PTL DEF RSpec

\* The replay of a run that came to its end on its own never asks the model.
THEOREM ReplayIsFreeHolds ==
  ASSUME Repeatable
  PROVE  RSpec => []ReplayIsFree
  <1>1. ReplayInv /\ [RNext]_vars => ReplayInv'
    BY ReplayNext
  <1>2. ReplayInv => ReplayIsFree
    BY FollowsMeans DEF ReplayIsFree
  <1>3. QED
    BY ReplayInit, <1>1, <1>2, PTL DEF RSpec
=============================================================================
