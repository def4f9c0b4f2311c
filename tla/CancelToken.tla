----------------------------- MODULE CancelToken -----------------------------
(***************************************************************************)
(* CancellationToken and on_sigint (core/cancel.py) on the Event the token *)
(* is made of. The main thread sleeps in token.wait; SIGINT handlers run   *)
(* on that same thread, nested in whatever it was doing, and other threads *)
(* set the token directly. threading.Event guards its flag with a lock     *)
(* that is not re-entrant, which is what makes the order matter.           *)
(***************************************************************************)
EXTENDS Sequences, Naturals

CONSTANTS Setters,      \* threads that call token.cancel themselves
          MaxSigints    \* bound: how often the operator presses Ctrl-C

ASSUME MaxSigintsIsNat == MaxSigints \in Nat

VARIABLES main,      \* where the main thread is, below its signal handlers
          frames,    \* the handler invocations nested on the main thread
          setter,    \* where each other thread is in token.cancel
          flag,      \* the Event's flag: token.cancelled
          lock,      \* who holds the Event's lock
          sigints,   \* Ctrl-Cs so far
          unlucky    \* one of them arrived while the main thread held the lock

vars == <<main, frames, setter, flag, lock, sigints, unlucky>>

Init == /\ main = "run" /\ frames = <<>>
        /\ setter = [t \in Setters |-> "idle"]
        /\ flag = FALSE /\ lock = "free"
        /\ sigints = 0 /\ unlucky = FALSE

\* The code under the handlers only runs when no handler does.
NoHandler == frames = <<>>

HeldByMain == lock \in {"wait", "handler"}

MainTo(place) == /\ main' = place
                 /\ UNCHANGED <<frames, setter, flag, sigints, unlucky>>

-----------------------------------------------------------------------------
(* token.wait: Event.wait *)

CallWait == main = "run" /\ NoHandler /\ MainTo("enter") /\ UNCHANGED lock

Acquire == /\ NoHandler /\ lock = "free" /\ lock' = "wait"
           /\ \/ main = "enter" /\ MainTo("look")
              \/ main = "awake" /\ MainTo("leave")

\* With the flag down the lock is let go for the sleep.
Look == /\ main = "look" /\ NoHandler
        /\ lock' = "free"
        /\ MainTo(IF flag THEN "run" ELSE "asleep")

\* Mutant: the wait is a time.sleep.
SleptThrough == FALSE /\ UNCHANGED vars

Notified == main = "asleep" /\ NoHandler /\ flag /\ MainTo("awake") /\ UNCHANGED lock

Timeout == main = "asleep" /\ NoHandler /\ MainTo("awake") /\ UNCHANGED lock

Leave == main = "leave" /\ NoHandler /\ lock' = "free" /\ MainTo("run")

-----------------------------------------------------------------------------
(* on_sigint *)

\* The handler looks at the flag: if it is up, KeyboardInterrupt unwinds the main
\* thread, and with it every lock it holds; if not, token.cancel is called.
Sigint ==
  /\ main # "out" /\ sigints < MaxSigints
  /\ sigints' = sigints + 1
  /\ IF flag
     THEN /\ main' = "out" /\ frames' = <<>>
          /\ lock' = IF HeldByMain THEN "free" ELSE lock
          /\ UNCHANGED unlucky
     ELSE /\ frames' = Append(frames, "enter")
          /\ unlucky' = (unlucky \/ HeldByMain)
          /\ UNCHANGED <<main, lock>>
  /\ UNCHANGED <<setter, flag>>

Top(place) == frames # <<>> /\ frames[Len(frames)] = place

HandlerLocks ==
  /\ Top("enter") /\ lock = "free"
  /\ lock' = "handler"
  /\ frames' = [frames EXCEPT ![Len(frames)] = "set"]
  /\ UNCHANGED <<main, setter, flag, sigints, unlucky>>

\* Mutants: the handler notes the Ctrl-C and does not cancel; it keeps the lock.
HandlerForgets ==
  /\ Top("set")
  /\ lock' = "free"
  /\ frames' = SubSeq(frames, 1, Len(frames) - 1)
  /\ UNCHANGED <<main, setter, flag, sigints, unlucky>>

HandlerKeepsLock ==
  /\ Top("set")
  /\ flag' = TRUE /\ UNCHANGED lock
  /\ frames' = SubSeq(frames, 1, Len(frames) - 1)
  /\ UNCHANGED <<main, setter, sigints, unlucky>>

HandlerSets ==
  /\ Top("set")
  /\ flag' = TRUE /\ lock' = "free"
  /\ frames' = SubSeq(frames, 1, Len(frames) - 1)
  /\ UNCHANGED <<main, setter, sigints, unlucky>>

-----------------------------------------------------------------------------
(* token.cancel on another thread *)

SetterLocks(t) ==
  /\ setter[t] = "idle" /\ lock = "free"
  /\ lock' = "setter"
  /\ setter' = [setter EXCEPT ![t] = "set"]
  /\ UNCHANGED <<main, frames, flag, sigints, unlucky>>

SetterSets(t) ==
  /\ setter[t] = "set"
  /\ flag' = TRUE /\ lock' = "free"
  /\ setter' = [setter EXCEPT ![t] = "done"]
  /\ UNCHANGED <<main, frames, sigints, unlucky>>

-----------------------------------------------------------------------------

MainThread == Acquire \/ Look \/ Notified \/ Leave \/ HandlerLocks \/ HandlerSets

Next == \/ CallWait \/ MainThread \/ Timeout \/ Sigint
        \/ \E t \in Setters : SetterLocks(t) \/ SetterSets(t)

\* Every thread that can run does, and gets a lock that keeps being released;
\* the sleep itself may be as long as it likes, and nobody has to cancel.
Spec == /\ Init /\ [][Next]_vars
        /\ SF_vars(Acquire) /\ SF_vars(HandlerLocks)
        /\ WF_vars(MainThread)
        /\ \A t \in Setters : WF_vars(SetterSets(t))

-----------------------------------------------------------------------------
(* Properties *)

\* A thread in token.wait is woken once the token is set, however long its delay
\* is, unless a Ctrl-C hit it inside the Event's own lock.
WaitIsWoken == flag /\ ~unlucky ~> main \in {"run", "out"} \/ unlucky

\* An operator who presses Ctrl-C twice is "never trapped by a runtime that will
\* not let go" (the docstring of on_sigint): the token is set, or the run is out.
NeverTrapped == sigints = 2 ~> flag \/ main = "out"

\* The same, for the interrupts that found the Event's lock free: those are
\* never lost, whatever the other threads do.
FeltUnlessHeld == sigints >= 1 ~> flag \/ main = "out" \/ unlucky

=============================================================================
