------------------------------- MODULE FanOut -------------------------------
(***************************************************************************)
(* Spawner and fan_out (agents/subagent.py): a script hands out tasks, one *)
(* child after another, each with a tape of its own; a child may hand out  *)
(* tasks itself, from a tool, with a Spawner of its own on the same        *)
(* directory.  What the tree of tapes adds up to is build_trace's answer   *)
(* (observe/trace.py).                                                     *)
(*                                                                         *)
(* A run is its tape, what it may still do and its Spawner's counter; the  *)
(* runs that wait for a child are below it on a stack.  A step costs one   *)
(* token.  A tape is the sequence of its step and subagent records.        *)
(***************************************************************************)
EXTENDS Naturals, SequencesExt

CONSTANTS
  Plans,      \* the lists of labels fan_out may be given; "" is no label
  Nested,     \* the labels a child may give to children of its own
  AutoName(_),   \* "sub-%03d"
  ParentTape, \* the stem of the script's own tape
  MaxSteps, MaxNested, MaxDepth   \* bounds: of one run, of one child, of the stack

ASSUME PlansAssumption == \A p \in Plans : p \in Seq(Range(p))

VARIABLES
  plan, todo,   \* the labels given to fan_out, and those that are left
  stack,     \* the runs under way: [tape, n, steps]
  tapes,     \* name |-> records
  results,   \* what fan_out has: [label, ok]
  used,      \* the names given out, in order
  spent,     \* tokens paid for
  pc         \* "running", "done", "raised", "dead"

vars == <<plan, todo, stack, tapes, results, used, spent, pc>>

StepRecord == [kind |-> "step", tape |-> "", ok |-> TRUE]
Subagent(name, ok) == [kind |-> "subagent", tape |-> name, ok |-> ok]

Top == Last(stack)
NewRun(tape) == [tape |-> tape, n |-> 0, steps |-> 0]
Script == Len(stack) = 1

Init ==
  /\ plan \in Plans /\ todo = plan
  /\ stack = <<NewRun(ParentTape)>> /\ tapes = [name \in {ParentTape} |-> <<>>]
  /\ results = <<>> /\ used = <<>> /\ spent = 0 /\ pc = "running"

-----------------------------------------------------------------------------
(* spawn *)

Name(label, n) == IF label = "" THEN AutoName(n) ELSE label

\* The records of a tape, none if there is no file yet.
On(name) == IF name \in DOMAIN tapes THEN tapes[name] ELSE <<>>

\* The child's tape is opened for appending, whatever is in it.
Child(label) ==
  LET name == Name(label, Top.n)
      caller == [Top EXCEPT !.n = @ + 1]
  IN /\ stack' = Append(Front(stack) \o <<caller>>, NewRun(name))
     /\ tapes' = [t \in DOMAIN tapes \cup {name} |-> On(t)]
     /\ used' = Append(used, name)

\* build raises before there is a child, and outside the try.
NoChild == stack' = Front(stack) \o <<[Top EXCEPT !.n = @ + 1]>>

\* fan_out: the next task, or a builder that takes the rest down.
FanOut ==
  /\ pc = "running" /\ Script /\ todo # <<>> /\ todo' = Tail(todo)
  /\ Child(Head(todo))
  /\ UNCHANGED <<plan, results, spent, pc>>
FanOutRaises ==
  /\ pc = "running" /\ Script /\ todo # <<>> /\ NoChild /\ pc' = "raised"
  /\ UNCHANGED <<plan, todo, tapes, results, used, spent>>

\* A tool of a child spawns; its Spawner's failure is an error the child reads.
Delegates == pc = "running" /\ ~Script /\ Len(stack) < MaxDepth /\ Top.n < MaxNested
Delegate ==
  /\ Delegates /\ \E label \in Nested : Child(label)
  /\ UNCHANGED <<plan, todo, results, spent, pc>>
DelegateFails ==
  /\ Delegates /\ NoChild
  /\ UNCHANGED <<plan, todo, tapes, results, used, spent, pc>>

\* A turn of the child, paid for and on its tape.
Work ==
  /\ pc = "running" /\ ~Script /\ Top.steps < MaxSteps
  /\ spent' = spent + 1
  /\ tapes' = [tapes EXCEPT ![Top.tape] = Append(@, StepRecord)]
  /\ stack' = Front(stack) \o <<[Top EXCEPT !.steps = @ + 1]>>
  /\ UNCHANGED <<plan, todo, results, used, pc>>

\* Mutant: only a child that returned is put on the caller's tape.
RecordedIfOk(caller, name, ok) ==
  IF ok THEN [tapes EXCEPT ![caller] = Append(@, Subagent(name, ok))] ELSE tapes

\* _record: on the caller's tape, after the child is done.
Recorded(caller, name, ok) == [tapes EXCEPT ![caller] = Append(@, Subagent(name, ok))]

\* Mutant: the exception is recorded and raised again.
FinishOrRaise(ok) ==
  LET caller == stack[Len(stack) - 1]
  IN /\ tapes' = Recorded(caller.tape, Top.tape, ok)
     /\ stack' = Front(stack)
     /\ results' = IF Len(stack) = 2 /\ ok THEN Append(results, [label |-> Top.tape, ok |-> ok])
                   ELSE results
     /\ pc' = IF Len(stack) = 2 /\ ~ok THEN "raised" ELSE pc

\* child.run returns or raises; either is an outcome, and the caller goes on.
Finish(ok) ==
  LET caller == stack[Len(stack) - 1]
  IN /\ tapes' = Recorded(caller.tape, Top.tape, ok)
     /\ stack' = Front(stack)
     /\ results' = IF Len(stack) = 2 THEN Append(results, [label |-> Top.tape, ok |-> ok])
                   ELSE results
     /\ pc' = pc

Return ==
  /\ pc = "running" /\ ~Script /\ Finish(TRUE)
  /\ UNCHANGED <<plan, todo, used, spent>>
Raise ==
  /\ pc = "running" /\ ~Script /\ Finish(FALSE)
  /\ UNCHANGED <<plan, todo, used, spent>>

Done ==
  /\ pc = "running" /\ Script /\ todo = <<>> /\ pc' = "done"
  /\ UNCHANGED <<plan, todo, stack, tapes, results, used, spent>>

\* The process dies; the tapes stay.
Die == pc = "running" /\ pc' = "dead" /\ UNCHANGED <<plan, todo, stack, tapes, results, used, spent>>

Next == \/ FanOut \/ FanOutRaises \/ Delegate \/ DelegateFails \/ Work
        \/ Return \/ Raise \/ Done \/ Die

Spec == Init /\ [][Next]_vars

-----------------------------------------------------------------------------
(* build_trace: total_input over the tree of tapes, eight children deep. *)

AddUp(numbers) ==
  LET upto[n \in 0..Len(numbers)] == IF n = 0 THEN 0 ELSE upto[n - 1] + numbers[n]
  IN  upto[Len(numbers)]

\* What each record of a tape adds, if a child's tape comes to what below says.
Counts(records, below) ==
  [i \in 1..Len(records) |-> IF records[i].kind = "step" THEN 1 ELSE below[records[i].tape]]

Totals[depth \in 0..9] ==
  [name \in DOMAIN tapes |->
     IF depth = 0 THEN 0 ELSE AddUp(Counts(On(name), Totals[depth - 1]))]
TotalInput(name) == Totals[9][name]

-----------------------------------------------------------------------------
(* Properties *)

\* While every child has a name of its own, every token paid for is counted once in the
\* traces of the runs under way: after the fan-out, in the script's own trace, failed
\* children included (trace.py:50-105, subagent.py:57-95).
Distinct == IsInjective(used) /\ ParentTape \notin Range(used)
TokensCountOnce ==
  Distinct => AddUp([i \in 1..Len(stack) |-> TotalInput(stack[i].tape)]) = spent

\* A child that fails is a result like another: fan_out stops early only for a builder,
\* and has a result for every task it started, in order, with the same names and
\* verdicts on the script's tape (subagent.py:57-86, 112-117).
FailureIsLocal ==
  LET begun == Len(plan) - Len(todo) - (IF Script THEN 0 ELSE 1)
  IN /\ Len(results) = begun
     /\ ParentTape \notin Range(used) =>
          tapes[ParentTape] = [i \in DOMAIN results |->
                                 Subagent(results[i].label, results[i].ok)]
     /\ \A i \in DOMAIN results : plan[i] # "" => results[i].label = plan[i]
     /\ pc = "done" => Len(results) = Len(plan)
=============================================================================
