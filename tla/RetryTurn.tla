------------------------------ MODULE RetryTurn ------------------------------
(***************************************************************************)
(* One model turn as the loop runs it: RetryPolicy.call (core/retry.py)    *)
(* around Agent._one_turn / _stream_turn (core/loop.py), a provider that   *)
(* streams, fails or falls silent, and a cancellation token that somebody  *)
(* else sets at any moment.                                                *)
(*                                                                         *)
(* A fragment is named by the attempt that produced it and its position    *)
(* there, so a fragment shown twice by two attempts is two fragments.      *)
(***************************************************************************)
EXTENDS Sequences, Naturals, FiniteSets

CONSTANTS MaxAttempts,   \* bound: the largest RetryPolicy.max_attempts considered
          MaxChunks,     \* bound: fragments of one kind in one attempt
          Sites          \* the calls considered, of those RetryPolicy.call is made for

ASSUME RetryTurnAssumption ==
  /\ MaxAttempts \in Nat
  /\ MaxChunks \in Nat
  /\ Sites \subseteq {"stream", "complete", "summary"}

VARIABLES pc,         \* where the turn is
          site,       \* a streamed turn, a whole one, or a compaction's summary
          limit,      \* RetryPolicy.max_attempts, which nothing keeps above 0
          attempt,    \* RetryPolicy.call's loop variable, from 1
          received,   \* per kind, the fragments this attempt's accumulator holds
          finish,     \* the provider said why it stopped (finish_reason)
          inHand,     \* the event the stream just yielded, not yet passed on
          emitted,    \* _stream_turn's flag: text was shown in this attempt
          screen,     \* per kind, every fragment on_delta was called with
          answer,     \* the fragments of the response the turn returned
          token,      \* CancellationToken.cancelled
          late,       \* requests and deltas that went out after the token was set
          outcome     \* how the call ended, "none" while it runs

vars == <<pc, site, limit, attempt, received, finish, inHand, emitted, screen, answer,
          token, late, outcome>>

Kinds == {"text", "tools"}
Nothing == [k \in Kinds |-> <<>>]
Fragment == (1..MaxAttempts) \X (1..MaxChunks)

PCs == {"attempt", "call", "open", "event", "deliver", "backoff", "done"}
Outcomes == {"none", "response", "cancelled", "failed", "exhausted", "interrupted"}

Init ==
  /\ pc = "attempt" /\ attempt = 1 /\ limit \in 0..MaxAttempts
  /\ site \in Sites
  /\ received = Nothing /\ screen = Nothing /\ answer = Nothing
  /\ finish = FALSE /\ inHand = "nothing" /\ emitted = FALSE
  /\ token = FALSE /\ late = 0
  /\ outcome = "none"

\* on_delta was given; the token was handed to RetryPolicy.call (a summary is asked
\* for without it). A caller without a token is one whose token nobody ever sets.
Streaming   == site = "stream"
TokenPassed == site \in {"stream", "complete"}

\* Mutant: the back-off is a plain sleep.
HeedsButInBackoff == TokenPassed /\ token /\ pc # "backoff"

\* The token as the retry loop and the stream loop see it.
Heeds == TokenPassed /\ token

\* Output that leaves the turn after the token was set.
CountLate == late' = IF token THEN late + 1 ELSE late

\* The call is over: a value was returned or an exception left it.
EndWith(o) ==
  /\ pc' = "done" /\ outcome' = o
  /\ inHand' = "nothing"
  /\ UNCHANGED <<site, limit, attempt, received, finish, emitted, screen, token, late>>

-----------------------------------------------------------------------------
(* RetryPolicy.call: the head of its loop *)

CheckToken ==
  /\ pc = "attempt" /\ attempt <= limit
  /\ IF Heeds THEN EndWith("cancelled") /\ UNCHANGED answer
     ELSE /\ pc' = "call"
          /\ UNCHANGED <<site, limit, attempt, received, finish, inHand, emitted, screen,
                         answer, token, late, outcome>>

\* The loop ran out of attempts without raising: max_attempts is 0.
Exhausted ==
  /\ pc = "attempt" /\ attempt > limit
  /\ EndWith("exhausted") /\ UNCHANGED answer

\* fn(): a request goes out, with a fresh accumulator and a fresh emitted flag.
Request ==
  /\ pc = "call"
  /\ pc' = "open"
  /\ received' = Nothing /\ finish' = FALSE /\ emitted' = FALSE
  /\ CountLate
  /\ UNCHANGED <<site, limit, attempt, inHand, screen, answer, token, outcome>>

-----------------------------------------------------------------------------
(* The provider: OpenAIClient.complete and OpenAIClient.stream *)

\* complete() has the whole response or an exception, nothing between.
Complete ==
  /\ pc = "open" /\ ~Streaming
  /\ \E n \in 0..MaxChunks :
       answer' = [Nothing EXCEPT !["text"] = [i \in 1..n |-> <<attempt, i>>]]
  /\ EndWith("response")

\* A chunk with content: the adapter accumulates it, then yields it.
Chunk(k) ==
  /\ pc = "open" /\ Streaming
  /\ Len(received[k]) < MaxChunks
  /\ received' = [received EXCEPT ![k] = Append(@, <<attempt, Len(@) + 1>>)]
  /\ inHand' = k
  /\ pc' = "event"
  /\ UNCHANGED <<site, limit, attempt, finish, emitted, screen, answer, token, late, outcome>>

\* The chunk that carries finish_reason; nothing is yielded for it.
FinishReason ==
  /\ pc = "open" /\ Streaming /\ ~finish
  /\ finish' = TRUE
  /\ UNCHANGED <<pc, site, limit, attempt, received, inHand, emitted, screen, answer, token,
                 late, outcome>>

\* The chunks are over, with or without a finish_reason: the adapter yields
\* StreamEnd with whatever it accumulated.
StreamOver ==
  /\ pc = "open" /\ Streaming
  /\ inHand' = "end"
  /\ pc' = "event"
  /\ UNCHANGED <<site, limit, attempt, received, finish, emitted, screen, answer, token, late,
                 outcome>>

\* A client that breaks its protocol: no StreamEnd. Not retryable.
NoStreamEnd ==
  /\ pc = "open" /\ Streaming
  /\ EndWith("failed") /\ UNCHANGED answer

\* Mutant: a dead stream is retried although text was shown.
WorthRetryingAnyway(transient) == transient

\* The retryable flag of the exception that reaches RetryPolicy.call: a
\* transient failure after text was shown is re-raised as a permanent one.
WorthRetrying(transient) == transient /\ ~(Streaming /\ emitted)

\* Mutant: the last attempt is followed by a back-off too.
FailsOnceMore(transient) ==
  /\ pc = "open"
  /\ IF WorthRetrying(transient)
     THEN /\ pc' = "backoff"
          /\ UNCHANGED <<site, limit, attempt, received, finish, inHand, emitted, screen,
                         answer, token, late, outcome>>
     ELSE EndWith("failed") /\ UNCHANGED answer

\* The request fails, before the first chunk or between two.
Fails(transient) ==
  /\ pc = "open"
  /\ IF WorthRetrying(transient) /\ attempt # limit
     THEN /\ pc' = "backoff"
          /\ UNCHANGED <<site, limit, attempt, received, finish, inHand, emitted, screen,
                         answer, token, late, outcome>>
     ELSE EndWith("failed") /\ UNCHANGED answer

-----------------------------------------------------------------------------
(* _stream_turn: what it does with an event *)

\* Mutant: the stream loop does not look at the token.
TakeEventBlindly ==
  /\ pc = "event"
  /\ \/ inHand = "end" /\ answer' = received /\ EndWith("response")
     \/ /\ inHand # "end"
        /\ pc' = "deliver"
        /\ emitted' = (emitted \/ inHand = "text")
        /\ UNCHANGED <<site, limit, attempt, received, finish, inHand, screen, answer, token,
                       late, outcome>>

\* The token is looked at before the event is, even before a StreamEnd.
TakeEvent ==
  /\ pc = "event"
  /\ \/ Heeds /\ EndWith("cancelled") /\ UNCHANGED answer
     \/ ~Heeds /\ inHand = "end" /\ answer' = received /\ EndWith("response")
     \/ /\ ~Heeds /\ inHand # "end"
        /\ pc' = "deliver"
        /\ emitted' = (emitted \/ inHand = "text")
        /\ UNCHANGED <<site, limit, attempt, received, finish, inHand, screen, answer, token,
                       late, outcome>>

\* on_delta(event)
Deliver ==
  /\ pc = "deliver"
  /\ screen' = [screen EXCEPT ![inHand] =
                  Append(@, received[inHand][Len(received[inHand])])]
  /\ CountLate
  /\ inHand' = "nothing"
  /\ pc' = "open"
  /\ UNCHANGED <<site, limit, attempt, received, finish, emitted, answer, token, outcome>>

-----------------------------------------------------------------------------
(* Back-off and cancellation *)

\* Mutant: whatever token.wait returned, the turn is given up.
WokenByTheTimer == pc = "backoff" /\ EndWith("cancelled") /\ UNCHANGED answer

\* token.wait(delay) came back with the token set.
Woken ==
  /\ pc = "backoff" /\ Heeds
  /\ EndWith("cancelled") /\ UNCHANGED answer

\* Mutant: attempts are not counted.
DelayOverUncounted ==
  /\ pc = "backoff" /\ ~Heeds
  /\ pc' = "attempt"
  /\ UNCHANGED <<site, limit, attempt, received, finish, inHand, emitted, screen, answer, token,
                 late, outcome>>

\* The delay ran out first (token.wait or _sleep): next attempt.
DelayOver ==
  /\ pc = "backoff" /\ ~Heeds
  /\ attempt' = attempt + 1
  /\ pc' = "attempt"
  /\ UNCHANGED <<site, limit, received, finish, inHand, emitted, screen, answer, token,
                 late, outcome>>

\* Ctrl-C, another thread, or on_delta itself sets the token.
Cancel ==
  /\ ~token
  /\ token' = TRUE
  /\ UNCHANGED <<pc, site, limit, attempt, received, finish, inHand, emitted, screen, answer,
                 late, outcome>>

\* A second Ctrl-C raises KeyboardInterrupt, which nothing on the way catches.
SecondInterrupt ==
  /\ token /\ pc # "done"
  /\ EndWith("interrupted") /\ UNCHANGED answer

-----------------------------------------------------------------------------

Provider == \/ Complete \/ FinishReason \/ StreamOver \/ NoStreamEnd
            \/ \E k \in Kinds : Chunk(k)
            \/ \E transient \in BOOLEAN : Fails(transient)

Loop == CheckToken \/ Exhausted \/ Request \/ TakeEvent \/ Deliver \/ Woken

Next == Loop \/ Provider \/ DelayOver \/ Cancel \/ SecondInterrupt

Spec == Init /\ [][Next]_vars

\* The loop runs, and the provider answers in the end (its SDK has a timeout).
\* Nothing is assumed of the back-off timer: a delay may be arbitrarily long.
PromptSpec == Spec /\ WF_vars(Loop) /\ WF_vars(Provider)

-----------------------------------------------------------------------------
(* Properties *)

\* Every variable keeps its type; the attempt number never passes max_attempts
\* when that is at least 1 (the RuntimeError("unreachable") of retry.py stays so).
TypeOK ==
  /\ pc \in PCs /\ site \in Sites
  /\ limit \in 0..MaxAttempts
  /\ attempt \in 1..(IF limit = 0 THEN 1 ELSE limit)
  /\ received \in [Kinds -> Seq(Fragment)]
  /\ screen \in [Kinds -> Seq(Fragment)]
  /\ answer \in [Kinds -> Seq(Fragment)]
  /\ finish \in BOOLEAN /\ emitted \in BOOLEAN /\ token \in BOOLEAN
  /\ inHand \in Kinds \cup {"nothing", "end"}
  /\ late \in Nat
  /\ outcome \in Outcomes
  /\ outcome = "none" <=> pc # "done"
  /\ outcome = "exhausted" => limit = 0

\* The text a streaming caller saw over ALL attempts is the text of the response
\* it gets back: no retry of _stream_turn repeats or orphans a shown fragment.
ShownIsReturned ==
  outcome = "response" /\ Streaming => screen["text"] = answer["text"]

\* The half of a turn a dead connection left behind is not returned as a response
\* ("a partial turn is never recorded", loop.py): a response the stream gave was
\* one the provider finished.
PartialTurnNotReturned ==
  outcome = "response" /\ Streaming => finish

\* After the token is set at most one thing still leaves a turn: the request or the
\* delta that was already past its token check (cancel.py: a Ctrl-C during a
\* back-off "is felt at once"). The summary of a compaction makes no such promise.
AtMostOneLate == TokenPassed => late <= 1

\* Cancellation is felt: a turn whose token is set ends, however long the
\* back-off it was sleeping in (retry.py: "felt at once").
CancelFelt == token /\ TokenPassed ~> pc = "done"

\* A turn ends, whatever the provider does, if the timers of its back-offs fire.
TurnEnds == WF_vars(DelayOver) => <>(pc = "done")

\* RetryTurn keeps the promise of Turn.
Promise == INSTANCE Turn WITH
             streaming <- Streaming,
             shown    <- screen["text"],
             asked    <- token,
             outcome  <- CASE outcome = "exhausted" -> "failed"
                           [] outcome = "interrupted" -> "cancelled"
                           [] OTHER -> outcome,
             returned <- answer["text"]

\* Attempts, back-offs and streams implement one turn: shown once, ended once,
\* returned as shown.
KeepsPromise == Promise!Spec

=============================================================================
