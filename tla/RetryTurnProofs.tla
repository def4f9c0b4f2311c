--------------------------- MODULE RetryTurnProofs ---------------------------
(***************************************************************************)
(* Theorems about RetryTurn, for every number of attempts and chunks and   *)
(* every call site. The last one is the refinement: one turn, shown once   *)
(* and returned as shown.                                                  *)
(***************************************************************************)
EXTENDS RetryTurn, SequenceTheorems, TLAPS

Consuming == {"open", "event", "deliver"}

\* What the event in hand is, and that the accumulator already has it. A request
\* is only made under a limit of at least one attempt, and a back-off only slept
\* before an attempt that is still allowed.
HandInv ==
  /\ pc = "deliver" => inHand \in Kinds
  /\ pc = "event" => inHand \in Kinds \cup {"end"}
  /\ pc \in {"event", "deliver"} /\ inHand \in Kinds => received[inHand] # <<>>
  /\ pc \in {"event", "deliver"} => Streaming
  /\ pc \in Consuming \cup {"call", "backoff"} => limit # 0
  /\ pc = "backoff" => attempt # limit

\* The type invariant needs the hand invariant to be inductive: on_delta is called
\* with the last fragment of an accumulator that has to have one.
Typed == TypeOK /\ HandInv

LEMMA NothingTyped == Nothing \in [Kinds -> Seq(Fragment)]
  <1>1. <<>> \in Seq(Fragment)
    BY EmptySeq
  <1>2. QED
    BY <1>1 DEF Nothing

LEMMA AppendFacts ==
  ASSUME NEW S, NEW s \in Seq(S), NEW e \in S
  PROVE  /\ Append(s, e) \in Seq(S)
         /\ Append(s, e) # <<>>
         /\ Len(Append(s, e)) = Len(s) + 1
         /\ Append(s, e)[Len(s) + 1] = e
  <1>1. Len(Append(s, e)) = Len(s) + 1 /\ Len(s) \in Nat
    BY AppendProperties, LenProperties
  <1>2. Append(s, e) # <<>>
    BY <1>1, EmptySeq
  <1>3. QED
    BY <1>1, <1>2, AppendProperties

LEMMA LastFacts ==
  ASSUME NEW S, NEW s \in Seq(S), s # <<>>
  PROVE  s[Len(s)] \in S
  <1>1. Len(s) \in Nat \ {0}
    BY EmptySeq, LenProperties
  <1>2. QED
    BY <1>1, ElementOfSeq

LEMMA TypedInit == Init => Typed
  <1> SUFFICES ASSUME Init
               PROVE  Typed
    OBVIOUS
  <1>1. received \in [Kinds -> Seq(Fragment)] /\ screen \in [Kinds -> Seq(Fragment)]
        /\ answer \in [Kinds -> Seq(Fragment)]
    BY NothingTyped DEF Init
  <1>2. HandInv
    BY DEF Init, HandInv, Consuming
  <1>3. limit \in 0..MaxAttempts /\ attempt \in 1..(IF limit = 0 THEN 1 ELSE limit)
    BY RetryTurnAssumption DEF Init
  <1>4. QED
    BY <1>1, <1>2, <1>3 DEF Init, Typed, TypeOK, PCs, Outcomes

\* A chunk lengthens one accumulator by the fragment it carried.
LEMMA ChunkAppends ==
  ASSUME RetryTurnAssumption, Typed, NEW k \in Kinds, Chunk(k)
  PROVE  /\ received' \in [Kinds -> Seq(Fragment)]
         /\ received'[k] # <<>>
         /\ received'[k] = Append(received[k], received'[k][Len(received'[k])])
  <1> DEFINE f == <<attempt, Len(received[k]) + 1>>
  <1>1. received \in [Kinds -> Seq(Fragment)] /\ received[k] \in Seq(Fragment)
    BY DEF Typed, TypeOK
  <1>2. Len(received[k]) \in Nat /\ Len(received[k]) + 1 \in 1..MaxChunks
    BY <1>1, LenProperties DEF Chunk, RetryTurnAssumption
  <1>3. attempt \in 1..MaxAttempts
    BY DEF Typed, TypeOK, HandInv, Consuming, Chunk, RetryTurnAssumption
  <1>4. f \in Fragment
    BY <1>2, <1>3 DEF Fragment
  <1>5. received' = [received EXCEPT ![k] = Append(received[k], f)]
    BY DEF Chunk
  <1> HIDE DEF f
  <1>6. /\ Append(received[k], f) \in Seq(Fragment)
        /\ Append(received[k], f) # <<>>
        /\ Len(Append(received[k], f)) = Len(received[k]) + 1
        /\ Append(received[k], f)[Len(received[k]) + 1] = f
    BY <1>1, <1>4, AppendFacts
  <1>7. received'[k] = Append(received[k], f)
    BY <1>1, <1>5
  <1>8. QED
    BY <1>1, <1>5, <1>6, <1>7

LEMMA TypedNext == Typed /\ [Next]_vars => Typed'
  <1> SUFFICES ASSUME Typed, [Next]_vars
               PROVE  Typed'
    OBVIOUS
  <1> USE RetryTurnAssumption DEF Typed, TypeOK, HandInv, PCs, Outcomes, Kinds, Consuming,
                                 Streaming
  <1>1. CASE CheckToken
    BY <1>1 DEF CheckToken, EndWith
  <1>2. CASE Exhausted
    BY <1>2 DEF Exhausted, EndWith
  <1>3. CASE Request
    <2>1. received' \in [Kinds -> Seq(Fragment)]
      BY <1>3, NothingTyped DEF Request
    <2>2. late' \in Nat
      BY <1>3 DEF Request, CountLate
    <2>3. QED
      BY <1>3, <2>1, <2>2 DEF Request
  <1>4. CASE Complete
    <2>1. PICK n \in 0..MaxChunks :
            answer' = [Nothing EXCEPT !["text"] = [i \in 1..n |-> <<attempt, i>>]]
      BY <1>4 DEF Complete
    <2>2. [i \in 1..n |-> <<attempt, i>>] \in Seq(Fragment)
      <3>1. \A i \in 1..n : <<attempt, i>> \in Fragment
        BY <1>4 DEF Complete, Fragment
      <3>2. QED
        BY <3>1, IsASeq
    <2>3. answer' \in [Kinds -> Seq(Fragment)]
      BY <2>1, <2>2, NothingTyped
    <2>4. QED
      BY <1>4, <2>3 DEF Complete, EndWith
  <1>5. ASSUME NEW k \in Kinds, Chunk(k)
        PROVE  Typed'
    <2>1. /\ received' \in [Kinds -> Seq(Fragment)] /\ received'[k] # <<>>
      BY <1>5, ChunkAppends
    <2>2. QED
      BY <1>5, <2>1 DEF Chunk
  <1>6. CASE FinishReason
    BY <1>6 DEF FinishReason
  <1>7. CASE StreamOver
    BY <1>7 DEF StreamOver
  <1>8. CASE NoStreamEnd
    BY <1>8 DEF NoStreamEnd, EndWith
  <1>9. ASSUME NEW transient \in BOOLEAN, Fails(transient)
        PROVE  Typed'
    BY <1>9 DEF Fails, EndWith
  <1>10. CASE TakeEvent
    <2>1. CASE pc' = "done"
      BY <1>10, <2>1 DEF TakeEvent, EndWith
    <2>2. CASE pc' = "deliver"
      BY <1>10, <2>2 DEF TakeEvent, EndWith
    <2>3. QED
      BY <1>10, <2>1, <2>2 DEF TakeEvent, EndWith
  <1>11. CASE Deliver
    <2> DEFINE last == received[inHand][Len(received[inHand])]
    <2>1. inHand \in Kinds /\ received[inHand] \in Seq(Fragment) /\ received[inHand] # <<>>
      BY <1>11 DEF Deliver
    <2>2. last \in Fragment
      BY <2>1, LastFacts
    <2>3. screen[inHand] \in Seq(Fragment)
      BY <2>1
    <2>4. Append(screen[inHand], last) \in Seq(Fragment)
      BY <2>2, <2>3, AppendFacts
    <2>5. screen' \in [Kinds -> Seq(Fragment)]
      BY <1>11, <2>4 DEF Deliver
    <2>6. late' \in Nat
      BY <1>11 DEF Deliver, CountLate
    <2>7. QED
      BY <1>11, <2>5, <2>6 DEF Deliver
  <1>12. CASE Woken
    BY <1>12 DEF Woken, EndWith
  <1>13. CASE DelayOver
    BY <1>13 DEF DelayOver
  <1>14. CASE Cancel
    BY <1>14 DEF Cancel
  <1>15. CASE SecondInterrupt
    BY <1>15 DEF SecondInterrupt, EndWith
  <1>16. CASE UNCHANGED vars
    BY <1>16 DEF vars
  <1>17. QED
    BY <1>1, <1>2, <1>3, <1>4, <1>5, <1>6, <1>7, <1>8, <1>9, <1>10, <1>11, <1>12,
       <1>13, <1>14, <1>15, <1>16
    DEF Next, Loop, Provider

\* Every variable of a turn keeps its type, and retry.py's RuntimeError
\* ("unreachable") is reached only if max_attempts is 0.
THEOREM TypeCorrect == Spec => []TypeOK
  <1>1. Typed => TypeOK
    BY DEF Typed
  <1>2. QED
    BY TypedInit, TypedNext, <1>1, PTL DEF Spec

-----------------------------------------------------------------------------
(* What was shown *)

Last(s) == s[Len(s)]

\* The screen never runs ahead of the attempt on the wire. It is empty before a
\* request and between attempts - that is what `emitted` is for - and while a
\* stream is open it is the accumulator, or one text fragment behind it.
TextInv ==
  /\ pc \in {"attempt", "call", "backoff"} => screen["text"] = <<>>
  /\ ~Streaming => screen["text"] = <<>>
  /\ pc = "open" => screen["text"] = received["text"]
  /\ pc \in {"event", "deliver"} /\ inHand # "text" => screen["text"] = received["text"]
  /\ pc \in {"event", "deliver"} /\ inHand = "text" =>
       received["text"] = Append(screen["text"], Last(received["text"]))
  /\ pc \in Consuming /\ ~emitted => screen["text"] = <<>>
  /\ pc = "deliver" /\ inHand = "text" => emitted
  /\ ShownIsReturned

LEMMA TextInit == Init => TextInv
  BY DEF Init, TextInv, Nothing, Kinds, Consuming, ShownIsReturned

\* A delivered text fragment is the one the screen was behind by.
LEMMA DeliverText ==
  ASSUME Typed, TextInv, Deliver
  PROVE  screen'["text"] = received["text"]
  <1>1. inHand \in Kinds /\ screen \in [Kinds -> Seq(Fragment)]
    BY DEF Typed, TypeOK, HandInv, Deliver
  <1>2. CASE inHand = "text"
    BY <1>1, <1>2 DEF Deliver, TextInv, Last
  <1>3. CASE inHand = "tools"
    BY <1>1, <1>3 DEF Deliver, TextInv, Kinds
  <1>4. QED
    BY <1>1, <1>2, <1>3 DEF Kinds

LEMMA TextNext == Typed /\ TextInv /\ [Next]_vars => TextInv'
  <1> SUFFICES ASSUME Typed, TextInv, [Next]_vars
               PROVE  TextInv'
    OBVIOUS
  <1> USE DEF Streaming
  <1>0. /\ pc # "done" => outcome = "none"
        /\ received \in [Kinds -> Seq(Fragment)] /\ "text" \in Kinds
        /\ pc \in {"event", "deliver"} => Streaming
    BY DEF Typed, TypeOK, HandInv, Kinds
  <1>1. CASE CheckToken
    BY <1>1 DEF CheckToken, EndWith, TextInv, ShownIsReturned, Consuming
  <1>2. CASE Exhausted
    BY <1>2 DEF Exhausted, EndWith, TextInv, ShownIsReturned, Consuming
  <1>3. CASE Request
    BY <1>0, <1>3 DEF Request, TextInv, ShownIsReturned, Consuming, Nothing
  <1>4. CASE Complete
    BY <1>4 DEF Complete, EndWith, TextInv, ShownIsReturned, Consuming
  <1>5. ASSUME NEW k \in Kinds, Chunk(k)
        PROVE  TextInv'
    <2>1. received'[k] = Append(received[k], Last(received'[k]))
      BY <1>5, ChunkAppends, RetryTurnAssumption DEF Last
    <2>2. \A j \in Kinds \ {k} : received'[j] = received[j]
      BY <1>0, <1>5 DEF Chunk
    <2>3. QED
      BY <1>0, <1>5, <2>1, <2>2 DEF Chunk, TextInv, ShownIsReturned, Consuming
  <1>6. CASE FinishReason
    BY <1>6 DEF FinishReason, TextInv, ShownIsReturned, Consuming
  <1>7. CASE StreamOver
    BY <1>7 DEF StreamOver, TextInv, ShownIsReturned, Consuming
  <1>8. CASE NoStreamEnd
    BY <1>8 DEF NoStreamEnd, EndWith, TextInv, ShownIsReturned, Consuming
  <1>9. ASSUME NEW transient \in BOOLEAN, Fails(transient)
        PROVE  TextInv'
    BY <1>9 DEF Fails, WorthRetrying, EndWith, TextInv, ShownIsReturned, Consuming
  <1>10. CASE TakeEvent
    BY <1>0, <1>10 DEF TakeEvent, EndWith, TextInv, ShownIsReturned, Consuming
  <1>11. CASE Deliver
    <2>1. screen'["text"] = received["text"]
      BY <1>11, DeliverText
    <2>2. emitted \/ received["text"] = <<>>
      BY <1>11 DEF Deliver, TextInv, Consuming
    <2>3. QED
      BY <1>0, <1>11, <2>1, <2>2 DEF Deliver, TextInv, ShownIsReturned, Consuming
  <1>12. CASE Woken
    BY <1>12 DEF Woken, EndWith, TextInv, ShownIsReturned, Consuming
  <1>13. CASE DelayOver
    BY <1>13 DEF DelayOver, TextInv, ShownIsReturned, Consuming
  <1>14. CASE Cancel
    BY <1>14 DEF Cancel, TextInv, ShownIsReturned, Consuming
  <1>15. CASE SecondInterrupt
    BY <1>15 DEF SecondInterrupt, EndWith, TextInv, ShownIsReturned, Consuming
  <1>16. CASE UNCHANGED vars
    BY <1>16 DEF vars, TextInv, ShownIsReturned, Consuming
  <1>17. QED
    BY <1>1, <1>2, <1>3, <1>4, <1>5, <1>6, <1>7, <1>8, <1>9, <1>10, <1>11, <1>12,
       <1>13, <1>14, <1>15, <1>16
    DEF Next, Loop, Provider

\* Over all its attempts a streaming caller was shown exactly the text of the
\* response it gets: no retry of _stream_turn repeats or orphans a fragment.
THEOREM ShownIsReturnedHolds == Spec => []ShownIsReturned
  <1>1. TextInv => ShownIsReturned
    BY DEF TextInv
  <1>2. QED
    BY TypedInit, TypedNext, TextInit, TextNext, <1>1, PTL DEF Spec

-----------------------------------------------------------------------------
(* What goes out after a cancellation *)

\* Whatever left late left past a token check, and the next one is still ahead.
LateInv ==
  TokenPassed => \/ late = 0
                 \/ late = 1 /\ token /\ pc \in {"open", "event", "backoff", "done"}

LEMMA LateNext == Typed /\ LateInv /\ [Next]_vars => LateInv'
  <1> SUFFICES ASSUME Typed, LateInv, [Next]_vars
               PROVE  LateInv'
    OBVIOUS
  <1> USE DEF LateInv, Heeds, TokenPassed
  <1>1. CASE CheckToken \/ Exhausted
    BY <1>1 DEF CheckToken, Exhausted, EndWith
  <1>2. CASE Request \/ Deliver
    BY <1>2 DEF Request, Deliver, CountLate
  <1>3. ASSUME Provider
        PROVE  LateInv'
    BY <1>3 DEF Provider, Complete, Chunk, FinishReason, StreamOver, NoStreamEnd, Fails,
                EndWith
  <1>4. CASE TakeEvent
    BY <1>4 DEF TakeEvent, EndWith
  <1>5. CASE Woken \/ DelayOver
    BY <1>5 DEF Woken, DelayOver, EndWith
  <1>6. CASE Cancel
    BY <1>6 DEF Cancel
  <1>7. CASE SecondInterrupt
    BY <1>7 DEF SecondInterrupt, EndWith
  <1>8. CASE UNCHANGED vars
    BY <1>8 DEF vars
  <1>9. QED
    BY <1>1, <1>2, <1>3, <1>4, <1>5, <1>6, <1>7, <1>8 DEF Next, Loop

\* Where the token was passed on, one request or delta at most still goes out after
\* it was set, however many attempts and back-offs the policy allows.
THEOREM AtMostOneLateHolds == Spec => []AtMostOneLate
  <1>1. Init => LateInv
    BY DEF Init, LateInv
  <1>2. LateInv => AtMostOneLate
    BY DEF LateInv, AtMostOneLate
  <1>3. Typed /\ LateInv /\ [Next]_vars => LateInv'
    BY LateNext
  <1>4. QED
    BY TypedInit, TypedNext, <1>1, <1>2, <1>3, PTL DEF Spec

-----------------------------------------------------------------------------
(* The promise of Turn *)

LEMMA PromiseInit == Init => Promise!Init
  BY DEF Init, Promise!Init, Nothing, Kinds, Streaming

LEMMA PromiseNext ==
  Typed /\ Typed' /\ TextInv /\ [Next]_vars => [Promise!Next]_(Promise!turnVars)
  <1> SUFFICES ASSUME Typed, Typed', TextInv, [Next]_vars
               PROVE  [Promise!Next]_(Promise!turnVars)
    OBVIOUS
  <1> USE DEF Streaming
  <1> DEFINE Stutter == UNCHANGED <<site, screen["text"], token, outcome, answer["text"]>>
  <1>0. /\ pc # "done" => outcome = "none"
        /\ pc \in {"event", "deliver"} => Streaming
        /\ outcome \in Outcomes /\ token \in BOOLEAN
    BY DEF Typed, TypeOK, HandInv
  <1>1. Stutter => [Promise!Next]_(Promise!turnVars)
    BY DEF Promise!turnVars
  <1>2. ASSUME EndWith("cancelled") \/ EndWith("interrupted"), token, pc # "done",
               UNCHANGED answer
        PROVE  Promise!Discard
    BY <1>0, <1>2 DEF EndWith, Promise!Discard, Promise!Running
  <1>3. ASSUME EndWith("failed") \/ EndWith("exhausted"), pc # "done", UNCHANGED answer
        PROVE  Promise!Fail
    BY <1>0, <1>3 DEF EndWith, Promise!Fail, Promise!Running
  <1>4. CASE CheckToken
    BY <1>1, <1>2, <1>4 DEF CheckToken, Heeds, Promise!Next
  <1>5. CASE Exhausted
    BY <1>3, <1>5 DEF Exhausted, Promise!Next
  <1>6. CASE Request \/ DelayOver
    BY <1>1, <1>6 DEF Request, DelayOver
  <1>7. CASE Complete
    <2>1. answer'["text"] \in Seq(Fragment)
      BY DEF Typed, TypeOK, Kinds
    <2>2. Promise!Return
      BY <1>0, <1>7, <2>1 DEF Complete, EndWith, Promise!Return, Promise!Running
    <2>3. QED
      BY <2>2 DEF Promise!Next
  <1>8. ASSUME NEW k \in Kinds, Chunk(k)
        PROVE  Stutter
    BY <1>8 DEF Chunk
  <1>9. CASE FinishReason \/ StreamOver
    BY <1>1, <1>9 DEF FinishReason, StreamOver
  <1>10. CASE NoStreamEnd
    BY <1>3, <1>10 DEF NoStreamEnd, Promise!Next
  <1>11. ASSUME NEW transient \in BOOLEAN, Fails(transient)
         PROVE  Stutter \/ Promise!Fail
    BY <1>3, <1>11 DEF Fails
  <1>12. CASE TakeEvent
    <2>1. CASE Heeds /\ EndWith("cancelled") /\ UNCHANGED answer
      BY <1>2, <1>12, <2>1 DEF TakeEvent, Heeds, Promise!Next
    <2>2. CASE inHand = "end" /\ answer' = received /\ EndWith("response")
      <3>1. screen["text"] = received["text"]
        BY <1>12, <2>2 DEF TakeEvent, TextInv
      <3>2. Promise!Return
        BY <1>0, <1>12, <2>2, <3>1
        DEF TakeEvent, EndWith, Promise!Return, Promise!Running
      <3>3. QED
        BY <3>2 DEF Promise!Next
    <2>3. CASE pc' = "deliver"
      BY <1>1, <1>12, <2>3 DEF TakeEvent, EndWith
    <2>4. QED
      BY <1>12, <2>1, <2>2, <2>3 DEF TakeEvent
  <1>13. CASE Deliver
    <2>1. /\ inHand \in Kinds /\ screen \in [Kinds -> Seq(Fragment)]
          /\ received[inHand] \in Seq(Fragment) /\ received[inHand] # <<>>
      BY <1>13 DEF Deliver, Typed, TypeOK, HandInv
    <2>2. Last(received[inHand]) \in Fragment
      BY <2>1, LastFacts DEF Last
    <2>3. CASE inHand = "text"
      <3>1. screen'["text"] = Append(screen["text"], Last(received[inHand]))
        BY <1>13, <2>1, <2>3 DEF Deliver, Last
      <3>2. Promise!Show
        BY <1>0, <1>13, <2>2, <3>1 DEF Deliver, Promise!Show, Promise!Running
      <3>3. QED
        BY <3>2 DEF Promise!Next
    <2>4. CASE inHand = "tools"
      BY <1>1, <1>13, <2>1, <2>4 DEF Deliver
    <2>5. QED
      BY <2>1, <2>3, <2>4 DEF Kinds
  <1>14. CASE Woken
    BY <1>2, <1>14 DEF Woken, Heeds, Promise!Next
  <1>15. CASE Cancel
    BY <1>0, <1>15 DEF Cancel, Promise!Next, Promise!Ask
  <1>16. CASE SecondInterrupt
    BY <1>2, <1>16 DEF SecondInterrupt, Promise!Next
  <1>17. CASE UNCHANGED vars
    BY <1>1, <1>17 DEF vars
  <1>18. QED
    BY <1>1, <1>4, <1>5, <1>6, <1>7, <1>8, <1>9, <1>10, <1>11, <1>12, <1>13, <1>14,
       <1>15, <1>16, <1>17
    DEF Next, Loop, Provider, Promise!Next

\* Attempts, back-offs and streams are one turn to the caller: shown once, ended
\* once, returned as shown, discarded only because that was asked for.
THEOREM KeepsPromiseHolds == Spec => KeepsPromise
  <1>1. Typed /\ [Next]_vars => Typed'
    BY TypedNext
  <1>2. QED
    BY TypedInit, <1>1, TextInit, TextNext, PromiseInit, PromiseNext, PTL
    DEF Spec, KeepsPromise, Promise!Spec
=============================================================================
