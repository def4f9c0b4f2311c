----------------------------- MODULE Evaluation -----------------------------
(***************************************************************************)
(* run_suite (eval/runner.py): every task, several seeds, one attempt      *)
(* after another, graded by grader objects that belong to the task and are *)
(* used again for every attempt (eval/graders.py, eval/task.py), and the   *)
(* rows summarize makes of it (eval/report.py).  `bench` may be called     *)
(* again on the same --out directory, after a call that was cut off too:   *)
(* the graders are new then, the workspaces and the tapes are not.         *)
(*                                                                         *)
(* A workspace is who last did the task in it (0: nobody) and a version    *)
(* that changes with every write.                                          *)
(***************************************************************************)
EXTENDS Integers, SequencesExt, FiniteSetsExt

CONSTANTS
  Suite,     \* the tasks: [id, graders, resets]; resets: its setup undoes the task
  Kind,      \* grader |-> "file", "unchanged", "text" or "judge"
  Repeats, K,   \* seeds of a task, judgments of a grade
  Hundredths,   \* n of K judgments agree |-> the hundredths the grade's reason shows
  MaxAttempts   \* bound

Graders == DOMAIN Kind
Rooms == {Suite[t].id : t \in DOMAIN Suite} \X (1..Repeats)
NoRoom == <<"", 0>>

ASSUME EvaluationAssumption ==
  Repeats \in Nat \ {0} /\ K \in Nat \ {0} /\ MaxAttempts \in Nat

\* A nearest hundredth; of two, the one the float is on the side of.
ASSUME NearestAssumption ==
  \A n \in 0..K : /\ Hundredths[n] \in 0..100
                  /\ 2 * (100 * n - K * Hundredths[n]) \in -K..K

\* An id names a task's workspaces, so no two tasks share one.
ASSUME SuiteAssumption ==
  /\ Suite \in Seq(Range(Suite)) /\ Suite # <<>>
  /\ \A t \in DOMAIN Suite : Suite[t].graders \in Seq(Graders)
  /\ \A t, u \in DOMAIN Suite : Suite[t].id = Suite[u].id => t = u

VARIABLES
  pc,        \* "prepare", "agent", "grade", "over", "down"
  at,        \* the task's index and the seed
  first,     \* the attempts made before this call of run_suite
  room,      \* workspace |-> [by, version]
  runs,      \* tape |-> how many runs are on it
  bound,     \* grader |-> the workspace it looks into
  before,    \* grader |-> the version it saw when it was bound
  judged,    \* judge |-> its latest judgments: [of, passed]
  grades,    \* of the attempt at hand
  agent,     \* what the agent has done in it: [wrote, worked, said]
  attempts   \* of every call on this directory, the one a call was cut off in included

vars == <<pc, at, first, room, runs, bound, before, judged, grades, agent, attempts>>

Task == Suite[at[1]]
Room == <<Task.id, at[2]>>
Now == Len(attempts) + 1   \* the number of the attempt at hand

\* the graders as suite.py builds them
Unbound == [g \in Graders |-> NoRoom]
Unseen == [g \in Graders |-> 0]
Unjudged == [g \in Graders |-> <<>>]

Idle == [wrote |-> FALSE, worked |-> FALSE, said |-> FALSE]

Init ==
  /\ pc = "prepare" /\ at = <<1, 1>> /\ first = 0
  /\ bound = Unbound /\ before = Unseen /\ judged = Unjudged
  /\ room = [r \in Rooms |-> [by |-> 0, version |-> 0]] /\ runs = [r \in Rooms |-> 0]
  /\ grades = <<>> /\ agent = Idle
  /\ attempts = <<>>

-----------------------------------------------------------------------------
(* run_task *)

\* Mutant: a grader that has a workspace keeps it.
BoundOnce(g) == IF bound[g] = NoRoom THEN Room ELSE bound[g]

Bound(g) == IF Kind[g] \in {"file", "unchanged"} THEN Room ELSE bound[g]

\* prepare, bind_workspace, factory: the directory may exist, the setup writes what it
\* writes, and the graders of the task are pointed at it.
Prepare ==
  /\ pc = "prepare" /\ Now <= MaxAttempts /\ pc' = "agent" /\ grades' = <<>> /\ agent' = Idle
  /\ room' = [room EXCEPT ![Room] = [by |-> IF Task.resets THEN 0 ELSE @.by,
                                     version |-> @.version + 1]]
  /\ bound' = [g \in Graders |-> IF g \in Range(Task.graders) THEN Bound(g) ELSE bound[g]]
  /\ before' = [g \in Graders |-> IF g \in Range(Task.graders) /\ Kind[g] = "unchanged"
                                  THEN room'[bound'[g]].version ELSE before[g]]
  /\ UNCHANGED <<at, first, runs, judged, attempts>>

\* on to the next seed, the next task, or the report
Onward ==
  IF at[2] < Repeats THEN at' = <<at[1], at[2] + 1>> /\ pc' = "prepare"
  ELSE IF at[1] < Len(Suite) THEN at' = <<at[1] + 1, 1>> /\ pc' = "prepare"
  ELSE at' = at /\ pc' = "over"

Attempt(passed, error, judgments) ==
  [task |-> Task.id, seed |-> at[2], passed |-> passed, error |-> error,
   judgments |-> judgments, by |-> room'[Room].by, wrote |-> agent'.wrote]

Run ==
  /\ pc = "agent" /\ runs' = [runs EXCEPT ![Room] = @ + 1]
  /\ agent' \in {a \in [wrote : BOOLEAN, worked : BOOLEAN, said : BOOLEAN] : a.worked => a.wrote}
  /\ room' = IF ~agent'.wrote THEN room
             ELSE [room EXCEPT ![Room] = [by |-> IF agent'.worked THEN Now ELSE @.by,
                                          version |-> @.version + 1]]

AgentReturns == Run /\ pc' = "grade" /\ UNCHANGED <<at, first, bound, before, judged, grades, attempts>>

\* The run raises, whatever it did before: a failed attempt that nobody grades.
AgentRaises ==
  /\ Run /\ attempts' = Append(attempts, Attempt(FALSE, TRUE, <<>>)) /\ Onward
  /\ UNCHANGED <<first, bound, before, judged, grades>>

Grader == Task.graders[Len(grades) + 1]
Passes(judgments) == Cardinality({j \in DOMAIN judgments : judgments[j].passed})
Majority(judgments) == 2 * Passes(judgments) > Len(judgments)

Grade ==
  /\ pc = "grade" /\ Len(grades) < Len(Task.graders)
  /\ \/ /\ Kind[Grader] = "file" /\ judged' = judged
        /\ grades' = Append(grades, room[bound[Grader]].by # 0)
     \/ /\ Kind[Grader] = "unchanged" /\ judged' = judged
        /\ grades' = Append(grades, room[bound[Grader]].version = before[Grader])
     \/ /\ Kind[Grader] = "text" /\ judged' = judged
        /\ grades' = Append(grades, agent.said)
     \/ /\ Kind[Grader] = "judge"
        /\ \E says \in [1..K -> BOOLEAN] :
             judged' = [judged EXCEPT ![Grader] =
                          [i \in 1..K |-> [of |-> Now, passed |-> says[i]]]]
        /\ grades' = Append(grades, Majority(judged'[Grader]))
  /\ UNCHANGED <<pc, at, first, room, runs, bound, before, agent, attempts>>

\* The call is cut off and no report is written: the factory or the judge's own model call
\* raises, which nothing here catches, or the process is killed, maybe in the middle of a
\* run. What the attempt at hand left in its workspace stays there.
CallDies ==
  /\ \/ pc \in {"prepare", "agent", "grade"} /\ UNCHANGED <<room, runs, agent>>
     \/ Run
  /\ attempts' = IF pc = "prepare" THEN attempts
                 ELSE Append(attempts, Attempt(FALSE, TRUE, <<>>))
  /\ pc' = "down" /\ UNCHANGED <<at, first, bound, before, judged, grades>>

JudgePlaces(task) == {i \in DOMAIN task.graders : Kind[task.graders[i]] = "judge"}

\* Mutant: an attempt refers to the judge's list instead of copying it.
KeptByReference(attempt) ==
  [i \in 1..Now |->
     LET a == IF i = Now THEN attempt ELSE attempts[i]
     IN IF a.judgments = <<>> THEN a ELSE [a EXCEPT !.judgments = attempt.judgments]]

Kept(attempt) == Append(attempts, attempt)

\* Every grader must pass, and there must be one; the last judge's judgments are copied.
Close ==
  /\ pc = "grade" /\ Len(grades) = Len(Task.graders) /\ UNCHANGED <<room, agent>>
  /\ LET places == JudgePlaces(Task)
     IN attempts' = Kept(Attempt(grades # <<>> /\ \A i \in DOMAIN grades : grades[i], FALSE,
                                 IF places = {} THEN <<>>
                                 ELSE judged[Task.graders[Max(places)]]))
  /\ Onward
  /\ UNCHANGED <<first, runs, bound, before, judged, grades>>

\* bench once more, with the same --out.
Again ==
  /\ pc \in {"over", "down"} /\ Now <= MaxAttempts /\ pc' = "prepare" /\ at' = <<1, 1>>
  /\ first' = Len(attempts) /\ bound' = Unbound /\ before' = Unseen /\ judged' = Unjudged
  /\ UNCHANGED <<room, runs, grades, agent, attempts>>

Next == Prepare \/ AgentReturns \/ AgentRaises \/ Grade \/ CallDies \/ Close \/ Again

Spec == Init /\ [][Next]_vars

-----------------------------------------------------------------------------
(* summarize: the row of a task in the report of this call. *)

\* A judge's agreement, read back from the reason of its grade.
Agreement(judgments) ==
  Hundredths[Max({Passes(judgments), Len(judgments) - Passes(judgments)})]

\* What the agreements of these attempts lack to 1.00, a hundredth a pair.
Lack(rated) ==
  {p \in rated \X (1..100) : p[2] > Agreement(attempts[p[1]].judgments)}

Of(id) == {i \in first + 1..Len(attempts) : attempts[i].task = id}

\* The mean agreement is at least 0.99, or there is none.
Row(id) ==
  LET rated == {i \in Of(id) : attempts[i].judgments # <<>>}
  IN [attempts |-> Cardinality(Of(id)),
      passes |-> Cardinality({i \in Of(id) : attempts[i].passed}),
      errors |-> Cardinality({i \in Of(id) : attempts[i].error}),
      reliable |-> Cardinality(Lack(rated)) <= Cardinality(rated)]

-----------------------------------------------------------------------------
(* Properties *)

\* An attempt passes on what happened in its own workspace: the task was done there, by
\* it or by an attempt at the same task and seed in an earlier call, and what had to stay
\* as it was did, from its own setup to its own grading (runner.py:79-81, 97-112,
\* graders.py:146-166, 242-248).
PassIsEarned ==
  \A i \in DOMAIN attempts :
    LET a == attempts[i]
        kinds == {Kind[g] : g \in UNION {Range(Suite[t].graders) :
                                           t \in {u \in DOMAIN Suite : Suite[u].id = a.task}}}
    IN a.passed =>
         /\ "file" \in kinds => /\ a.by \in 1..i
                                /\ attempts[a.by].task = a.task /\ attempts[a.by].seed = a.seed
         /\ "unchanged" \in kinds => ~a.wrote

\* One attempt over which the judge is divided shows in the mean: an agreement short of 1
\* lacks more hundredths than there are seeds. With three judgments that is 32 seeds.
FewSeeds == \A p \in 1..K - 1 : Hundredths[Max({p, K - p})] + Repeats < 100

\* The record can be audited: an attempt carries the K judgments that were made of it and
\* of no other, they are the majority it passed by, and, for a few seeds, a row that is
\* called reliable has none in which the judge disagreed with itself (runner.py:104-112,
\* graders.py:194-209, report.py:36-39, 43-70).
JudgmentsAreOwn ==
  /\ \A i \in DOMAIN attempts :
       LET a == attempts[i]
       IN a.judgments # <<>> => /\ Len(a.judgments) = K
                                /\ \A j \in 1..K : a.judgments[j].of = i
                                /\ a.passed => Majority(a.judgments)
  /\ pc = "over" =>
       \A t \in DOMAIN Suite :
         LET row == Row(Suite[t].id)
         IN /\ row.attempts = Repeats /\ row.passes + row.errors <= Repeats
            /\ FewSeeds /\ row.reliable => \A i \in Of(Suite[t].id) :
                 \A j, k \in DOMAIN attempts[i].judgments :
                   attempts[i].judgments[j].passed = attempts[i].judgments[k].passed
=============================================================================
