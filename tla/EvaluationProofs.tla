--------------------------- MODULE EvaluationProofs ---------------------------
(* For any suite, any graders shared among its tasks and any number of calls: *)
(* an attempt passes on what happened in its own workspace, and is judged by  *)
(* judgments made of it and no other, which the report's rows add up.         *)
EXTENDS Evaluation, FiniteSetTheorems, WellFoundedInduction, TLAPS

\* A list of whatever; what an attempt carries besides matters to no proof here.
IsList(s) == \E S : s \in Seq(S)

LEMMA AppendToList ==
  ASSUME NEW s, NEW e, IsList(s)
  PROVE  /\ IsList(Append(s, e)) /\ Len(s) \in Nat
         /\ Len(Append(s, e)) = Len(s) + 1
         /\ \A i \in 1..Len(s) : Append(s, e)[i] = s[i]
         /\ Append(s, e)[Len(s) + 1] = e
         /\ DOMAIN s = 1..Len(s) /\ DOMAIN Append(s, e) = 1..Len(s) + 1
<1>1. PICK S : s \in Seq(S)
  BY DEF IsList
<1> DEFINE T == S \cup {e}
<1>2. s \in Seq(T) /\ e \in T
  BY <1>1
<1>3. Append(s, e) \in Seq(T)
  BY <1>2
<1>4. IsList(Append(s, e))
  BY <1>3 DEF IsList
<1> HIDE DEF T
<1> QED
  BY <1>2, <1>3, <1>4

LEMMA SuiteFacts ==
  /\ 1 \in DOMAIN Suite /\ DOMAIN Suite = 1..Len(Suite) /\ Len(Suite) \in Nat
  /\ \A t \in DOMAIN Suite : Suite[t].graders \in Seq(Graders)
  /\ \A t, u \in DOMAIN Suite : Suite[t].id = Suite[u].id => t = u
  /\ Repeats \in Nat /\ 1 \in 1..Repeats
<1>1. 1 \in 1..Repeats
  BY EvaluationAssumption
<1>2. Suite \in Seq(Range(Suite)) /\ Suite # <<>>
  BY SuiteAssumption, Zenon
<1>3. 1 \in DOMAIN Suite /\ DOMAIN Suite = 1..Len(Suite) /\ Len(Suite) \in Nat
  BY <1>2
<1> QED
  BY <1>1, <1>3, EvaluationAssumption, SuiteAssumption, Zenon

KindsOf(id) ==
  {Kind[g] : g \in UNION {Range(Suite[t].graders) :
                            t \in {u \in DOMAIN Suite : Suite[u].id = id}}}

\* A task is known by its id.
LEMMA KindsOfTask ==
  ASSUME NEW t \in DOMAIN Suite, NEW k \in KindsOf(Suite[t].id)
  PROVE  \E i \in 1..Len(Suite[t].graders) : Kind[Suite[t].graders[i]] = k
<1>1. PICK u \in DOMAIN Suite : /\ Suite[u].id = Suite[t].id
                                /\ \E g \in Range(Suite[u].graders) : Kind[g] = k
  BY DEF KindsOf
<1>2. u = t
  BY <1>1, SuiteFacts
<1>3. PICK g \in Range(Suite[t].graders) : Kind[g] = k
  BY <1>1, <1>2
<1>4. \E i \in DOMAIN Suite[t].graders : Suite[t].graders[i] = g
  BY <1>3 DEF Range
<1> QED
  BY <1>3, <1>4, SuiteFacts

-----------------------------------------------------------------------------
(* The invariant *)

AgentType == [wrote : BOOLEAN, worked : BOOLEAN, said : BOOLEAN]

Typed ==
  /\ pc \in {"prepare", "agent", "grade", "over", "down"}
  /\ at \in (DOMAIN Suite) \X (1..Repeats)
  /\ room \in [Rooms -> [by : Nat, version : Nat]]
  /\ bound \in [Graders -> Rooms \cup {NoRoom}] /\ before \in [Graders -> Nat]
  /\ agent \in AgentType
  /\ IsList(attempts) /\ IsList(grades)

\* Who did the task in a workspace was an attempt at that task and seed, or is one now.
ByOwn(r) ==
  room[r].by # 0 =>
    \/ /\ room[r].by \in 1..Len(attempts)
       /\ attempts[room[r].by].task = r[1] /\ attempts[room[r].by].seed = r[2]
    \/ pc = "grade" /\ r = Room /\ room[r].by = Now

RoomsTrue == \A r \in Rooms : ByOwn(r)

\* While an attempt lasts, its graders look where it works, and remember its setup.
BoundRight ==
  pc \in {"agent", "grade"} =>
    \A g \in Graders : g \in Range(Task.graders) =>
      /\ Kind[g] \in {"file", "unchanged"} => bound[g] = Room
      /\ Kind[g] = "unchanged" => /\ before[g] <= room[Room].version
                                  /\ pc = "agent" => before[g] = room[Room].version
                                  /\ pc = "grade" /\ agent.wrote => before[g] < room[Room].version

\* What a grade says holds until the attempt is closed.
GradesTrue ==
  /\ pc = "agent" => Len(grades) = 0
  /\ pc = "grade" =>
       \A i \in 1..Len(grades) :
         /\ Kind[Task.graders[i]] = "file" /\ grades[i] => room[Room].by # 0
         /\ Kind[Task.graders[i]] = "unchanged" /\ grades[i] => ~agent.wrote

\* Attempt a, the i-th, is earned if b is the attempt it says did the task.
EarnedWith(a, i, b) ==
  a.passed =>
    /\ "file" \in KindsOf(a.task) => a.by \in 1..i /\ b.task = a.task /\ b.seed = a.seed
    /\ "unchanged" \in KindsOf(a.task) => ~a.wrote

Earned(as, i) == EarnedWith(as[i], i, as[as[i].by])

AllEarned == \A i \in 1..Len(attempts) : Earned(attempts, i)

IInv == Typed /\ RoomsTrue /\ BoundRight /\ GradesTrue /\ AllEarned

LEMMA Earns == IInv => PassIsEarned
<1> SUFFICES ASSUME IInv, NEW i \in DOMAIN attempts PROVE Earned(attempts, i)
  BY DEF PassIsEarned, Earned, EarnedWith, KindsOf
<1>1. DOMAIN attempts = 1..Len(attempts)
  BY AppendToList DEF IInv, Typed
<1> QED
  BY <1>1 DEF IInv, AllEarned

LEMMA Indices ==
  ASSUME NEW n \in Nat
  PROVE  /\ \A i \in 1..n + 1 : i \in 1..n \/ i = n + 1
         /\ \A i \in 1..n : \A j \in 1..i : j \in 1..n
  OBVIOUS

\* A closed attempt on the list: the others stay as they were, and name each other.
LEMMA AppendEarned ==
  ASSUME NEW as, NEW a, IsList(as),
         \A i \in 1..Len(as) : Earned(as, i),
         Earned(Append(as, a), Len(as) + 1)
  PROVE  \A i \in 1..Len(Append(as, a)) : Earned(Append(as, a), i)
<1> DEFINE bs == Append(as, a)
<1>1. /\ Len(as) \in Nat /\ Len(bs) = Len(as) + 1
      /\ \A i \in 1..Len(as) : bs[i] = as[i]
  BY AppendToList, ZenonT(60)
<1>2. Earned(bs, Len(as) + 1)
  OBVIOUS
<1> HIDE DEF bs
<1>3. ASSUME NEW i \in 1..Len(as) PROVE Earned(bs, i)
  <2>1. EarnedWith(as[i], i, as[as[i].by]) /\ bs[i] = as[i]
    BY <1>1, Zenon DEF Earned
  <2>2. CASE as[i].by \in 1..i
    <3>1. bs[as[i].by] = as[as[i].by]
      BY <1>1, <2>2, Indices, Zenon
    <3> QED
      BY <2>1, <3>1, Zenon DEF Earned
  <2>3. CASE as[i].by \notin 1..i
    BY <2>1, <2>3, Zenon DEF Earned, EarnedWith
  <2> QED
    BY <2>2, <2>3, Zenon
<1> QED
  BY <1>1, <1>2, <1>3, Indices, Zenon DEF bs

-----------------------------------------------------------------------------
(* The steps *)

LEMMA InitInv == Init => IInv
<1> SUFFICES ASSUME Init PROVE IInv
  OBVIOUS
<1>1. attempts = <<>> /\ grades = <<>> /\ <<>> \in Seq({}) /\ Len(attempts) = 0
  BY DEF Init
<1>2. IsList(attempts) /\ IsList(grades)
  BY <1>1 DEF IsList
<1>3. at \in (DOMAIN Suite) \X (1..Repeats)
  <2>1. 1 \in DOMAIN Suite /\ 1 \in 1..Repeats
    BY SuiteFacts
  <2> QED
    BY <2>1 DEF Init
<1>4. /\ room \in [Rooms -> [by : Nat, version : Nat]]
      /\ bound \in [Graders -> Rooms \cup {NoRoom}] /\ before \in [Graders -> Nat]
  BY DEF Init, Unbound, Unseen
<1>5. Typed
  BY <1>2, <1>3, <1>4 DEF Init, Typed, AgentType, Idle
<1>6. RoomsTrue
  BY DEF Init, RoomsTrue, ByOwn
<1>7. BoundRight /\ GradesTrue
  BY DEF Init, BoundRight, GradesTrue
<1>8. AllEarned
  BY <1>1 DEF AllEarned
<1> QED
  BY <1>5, <1>6, <1>7, <1>8 DEF IInv

LEMMA RoomIsARoom ==
  ASSUME Typed
  PROVE  /\ Room \in Rooms /\ at[1] \in DOMAIN Suite /\ at[2] \in 1..Repeats
         /\ Room[1] = Task.id /\ Room[2] = at[2] /\ Task.graders \in Seq(Graders)
<1>1. at[1] \in DOMAIN Suite /\ at[2] \in 1..Repeats
  BY DEF Typed
<1>2. Task.id \in {Suite[t].id : t \in DOMAIN Suite}
  BY <1>1 DEF Task
<1>3. Task.graders \in Seq(Graders)
  BY <1>1, SuiteFacts, Zenon DEF Task
<1> QED
  BY <1>1, <1>2, <1>3 DEF Room, Rooms

LEMMA OnwardStays ==
  ASSUME Typed, Onward
  PROVE  at' \in (DOMAIN Suite) \X (1..Repeats) /\ pc' \in {"prepare", "over"}
<1>1. at[1] \in DOMAIN Suite /\ at[2] \in 1..Repeats
  BY DEF Typed
<1>2. Repeats \in Nat /\ 1 \in 1..Repeats /\ DOMAIN Suite = 1..Len(Suite)
  BY SuiteFacts
<1>3. CASE at[2] < Repeats
  BY <1>1, <1>2, <1>3 DEF Onward
<1>4. CASE ~(at[2] < Repeats) /\ at[1] < Len(Suite)
  <2>1. at[1] + 1 \in DOMAIN Suite
    BY <1>1, <1>2, <1>4
  <2> QED
    BY <1>2, <1>4, <2>1 DEF Onward
<1>5. CASE ~(at[2] < Repeats) /\ ~(at[1] < Len(Suite))
  BY <1>5 DEF Onward, Typed
<1> QED
  BY <1>3, <1>4, <1>5

\* A setup may undo the task, never do it.
LEMMA PrepareKeeps ==
  ASSUME IInv, Prepare
  PROVE  IInv'
<1>0. Typed /\ Room \in Rooms
  BY RoomIsARoom DEF IInv
<1>1. Typed /\ Room \in Rooms /\ room[Room].version \in Nat /\ room[Room].by \in Nat
  BY <1>0 DEF Typed
<1>2. /\ room' \in [Rooms -> [by : Nat, version : Nat]]
      /\ \A r \in Rooms : room'[r].by # 0 => room'[r].by = room[r].by
  BY <1>1 DEF Prepare, Typed
<1>3. Room' = Room /\ Task' = Task /\ attempts' = attempts
  BY DEF Prepare, Room, Task
<1>4. bound' \in [Graders -> Rooms \cup {NoRoom}]
  BY <1>1 DEF Prepare, Bound, Typed
<1>5. \A g \in Graders : g \in Range(Task.graders) /\ Kind[g] \in {"file", "unchanged"} =>
        bound'[g] = Room
  BY <1>1 DEF Prepare, Bound, Typed
<1>6. /\ before' \in [Graders -> Nat]
      /\ \A g \in Graders : g \in Range(Task.graders) /\ Kind[g] = "unchanged" =>
           before'[g] = room'[Room].version
  <2>1. before' = [g \in Graders |-> IF g \in Range(Task.graders) /\ Kind[g] = "unchanged"
                                     THEN room'[bound'[g]].version ELSE before[g]]
    BY DEF Prepare
  <2>2. \A g \in Graders : g \in Range(Task.graders) /\ Kind[g] = "unchanged" =>
          bound'[g] = Room
    BY <1>5
  <2>3. room'[Room].version \in Nat /\ before \in [Graders -> Nat]
    BY <1>1, <1>2 DEF Typed
  <2> QED
    BY <2>1, <2>2, <2>3
<1>8. IsList(grades')
  <2>1. grades' \in Seq({})
    BY DEF Prepare
  <2> QED
    BY <2>1 DEF IsList
<1>9. Typed'
  BY <1>1, <1>2, <1>4, <1>6, <1>8 DEF Prepare, Typed, AgentType, Idle
<1>10. RoomsTrue'
  BY <1>1, <1>2, <1>3 DEF IInv, RoomsTrue, ByOwn, Prepare, Now
<1>11. BoundRight'
  BY <1>2, <1>1, <1>3, <1>5, <1>6 DEF BoundRight, Prepare
<1>12. GradesTrue' /\ AllEarned'
  BY <1>3 DEF IInv, GradesTrue, AllEarned, Earned, Prepare
<1> QED
  BY <1>9, <1>10, <1>11, <1>12 DEF IInv

\* What a run does to its workspace, seen from the attempt it belongs to.
LEMMA RunFacts ==
  ASSUME IInv, Run
  PROVE  /\ agent' \in AgentType
         /\ room' \in [Rooms -> [by : Nat, version : Nat]]
         /\ \A r \in Rooms : r # Room => room'[r] = room[r]
         /\ room'[Room].by \in {room[Room].by, Now}
         /\ room[Room].version <= room'[Room].version
         /\ agent'.wrote => room[Room].version < room'[Room].version
         /\ ~agent'.wrote => room'[Room].version = room[Room].version
         /\ Now \in Nat /\ Now # 0
<1>1. Room \in Rooms /\ Len(attempts) \in Nat
  BY RoomIsARoom, AppendToList DEF IInv, Typed
<1>2. Now \in Nat /\ Now # 0
  BY <1>1 DEF Now
<1>3. /\ room \in [Rooms -> [by : Nat, version : Nat]]
      /\ room[Room].by \in Nat /\ room[Room].version \in Nat
  BY <1>1 DEF IInv, Typed
<1>4. agent' \in AgentType
  BY DEF Run, AgentType
<1>5. CASE ~agent'.wrote
  BY <1>2, <1>3, <1>4, <1>5 DEF Run
<1>6. CASE agent'.wrote
  <2>1. PICK b \in {room[Room].by, Now} :
          room' = [room EXCEPT ![Room] = [by |-> b, version |-> room[Room].version + 1]]
    BY <1>6, <1>3 DEF Run
  <2>2. /\ room' \in [Rooms -> [by : Nat, version : Nat]]
        /\ room'[Room] = [by |-> b, version |-> room[Room].version + 1]
        /\ \A r \in Rooms : r # Room => room'[r] = room[r]
    BY <1>1, <1>2, <1>3, <2>1
  <2> QED
    BY <1>2, <1>3, <1>4, <1>6, <2>2
<1> QED
  BY <1>5, <1>6

LEMMA AgentReturnsKeeps ==
  ASSUME IInv, AgentReturns
  PROVE  IInv'
<1>1. /\ pc = "agent" /\ pc' = "grade" /\ at' = at /\ attempts' = attempts
      /\ bound' = bound /\ before' = before /\ grades' = grades
      /\ Room' = Room /\ Task' = Task /\ Now' = Now /\ Run
  BY DEF AgentReturns, Run, Room, Task, Now
<1>2. Typed
  BY DEF IInv
<1>3. Typed'
  BY <1>1, <1>2, RunFacts DEF Typed
<1>4. RoomsTrue'
  <2> SUFFICES ASSUME NEW r \in Rooms PROVE ByOwn(r)'
    BY DEF RoomsTrue
  <2>1. ByOwn(r)
    BY DEF IInv, RoomsTrue
  <2>2. CASE r # Room
    BY <1>1, <2>1, <2>2, RunFacts DEF ByOwn
  <2>3. CASE r = Room
    <3>1. room'[r].by = room[r].by \/ room'[r].by = Now
      BY <2>3, RunFacts, <1>1
    <3> QED
      BY <1>1, <2>1, <2>3, <3>1 DEF ByOwn
  <2> QED
    BY <2>2, <2>3
<1>5. BoundRight'
  <2> SUFFICES ASSUME NEW g \in Graders, g \in Range(Task.graders)
               PROVE  /\ Kind[g] \in {"file", "unchanged"} => bound[g] = Room
                      /\ Kind[g] = "unchanged" =>
                           /\ before[g] <= room'[Room].version
                           /\ agent'.wrote => before[g] < room'[Room].version
    BY <1>1 DEF BoundRight
  <2>1. /\ Kind[g] \in {"file", "unchanged"} => bound[g] = Room
        /\ Kind[g] = "unchanged" => before[g] = room[Room].version
    BY <1>1 DEF IInv, BoundRight
  <2> QED
    BY <1>1, <2>1, RunFacts
<1>6. GradesTrue' /\ AllEarned'
  BY <1>1 DEF IInv, GradesTrue, AllEarned, Earned
<1> QED
  BY <1>3, <1>4, <1>5, <1>6 DEF IInv

\* When an attempt at this task and seed goes on the list, all workspaces are accounted for.
LEMMA ClosedRooms ==
  ASSUME IInv, NEW a, attempts' = Append(attempts, a), a.task = Task.id, a.seed = at[2],
         \A r \in Rooms : \/ room'[r].by = room[r].by
                          \/ r = Room /\ room'[r].by = Now
  PROVE  RoomsTrue'
<1>1. /\ IsList(attempts) /\ Len(attempts) \in Nat /\ Len(attempts') = Len(attempts) + 1
      /\ \A i \in 1..Len(attempts) : attempts'[i] = attempts[i]
      /\ attempts'[Len(attempts) + 1] = a
  BY AppendToList DEF IInv, Typed
<1> SUFFICES ASSUME NEW r \in Rooms PROVE ByOwn(r)'
  BY DEF RoomsTrue
<1>2. ByOwn(r) /\ Room[1] = Task.id /\ Room[2] = at[2]
  BY RoomIsARoom DEF IInv, RoomsTrue
<1>3. CASE room'[r].by = room[r].by /\ ~(r = Room /\ room[r].by = Now)
  BY <1>1, <1>2, <1>3 DEF ByOwn
<1>4. CASE r = Room /\ room'[r].by = Now
  BY <1>1, <1>2, <1>4 DEF ByOwn, Now
<1> QED
  BY <1>3, <1>4

LEMMA AgentRaisesKeeps ==
  ASSUME IInv, AgentRaises
  PROVE  IInv'
<1> DEFINE a == Attempt(FALSE, TRUE, <<>>)
<1>1. /\ Run /\ attempts' = Append(attempts, a) /\ a.passed = FALSE
      /\ a.task = Task.id /\ a.seed = at[2]
      /\ bound' = bound /\ before' = before /\ grades' = grades
  <2>1. /\ Run /\ attempts' = Append(attempts, a)
        /\ bound' = bound /\ before' = before /\ grades' = grades
    BY DEF AgentRaises
  <2>2. a.passed = FALSE /\ a.task = Task.id /\ a.seed = at[2]
    BY DEF Attempt
  <2> QED
    BY <2>1, <2>2, Zenon
<1> HIDE DEF a
<1>2. Typed /\ at' \in (DOMAIN Suite) \X (1..Repeats) /\ pc' \in {"prepare", "over"}
  BY OnwardStays DEF IInv, AgentRaises
<1>3. IsList(attempts) /\ IsList(attempts')
  BY <1>1, <1>2, AppendToList DEF Typed
<1>4. Typed'
  BY <1>1, <1>2, <1>3, RunFacts DEF Typed
<1>5. RoomsTrue'
  <2>1. \A r \in Rooms : \/ room'[r].by = room[r].by
                         \/ r = Room /\ room'[r].by = Now
    BY <1>1, RunFacts
  <2> QED
    BY <1>1, <2>1, ClosedRooms
<1>6. BoundRight' /\ GradesTrue'
  BY <1>2 DEF BoundRight, GradesTrue
<1>7. AllEarned'
  <2>1. \A i \in 1..Len(attempts) : Earned(attempts, i)
    BY DEF IInv, AllEarned
  <2>2. attempts'[Len(attempts) + 1] = a
    BY <1>1, <1>3, AppendToList
  <2>3. Earned(attempts', Len(attempts) + 1)
    BY <1>1, <2>2 DEF Earned, EarnedWith
  <2> QED
    BY <1>1, <1>3, <2>1, <2>3, AppendEarned, Zenon DEF AllEarned
<1> QED
  BY <1>4, <1>5, <1>6, <1>7 DEF IInv

\* A grade is about the workspace of the attempt, and the attempt is over.
LEMMA GradeKeeps ==
  ASSUME IInv, Grade
  PROVE  IInv'
<1> DEFINE n == Len(grades) + 1
<1>1. /\ pc = "grade" /\ pc' = pc /\ at' = at /\ room' = room /\ agent' = agent
      /\ bound' = bound /\ before' = before /\ attempts' = attempts
      /\ Room' = Room /\ Task' = Task /\ Now' = Now /\ Len(grades) < Len(Task.graders)
  BY DEF Grade, Room, Task, Now
<1>2. Typed /\ Room \in Rooms /\ Task.graders \in Seq(Graders)
  BY RoomIsARoom DEF IInv
<1>3. IsList(grades) /\ Len(grades) \in Nat /\ DOMAIN grades = 1..Len(grades)
  BY <1>2, AppendToList DEF Typed
<1>4. n \in DOMAIN Task.graders /\ Grader = Task.graders[n] /\ Grader \in Graders
  BY <1>1, <1>2, <1>3 DEF Grader
<1>5. Grader \in Range(Task.graders)
  BY <1>4 DEF Range
<1> HIDE DEF n
<1>6. /\ Kind[Grader] \in {"file", "unchanged"} => bound[Grader] = Room
      /\ Kind[Grader] = "unchanged" /\ agent.wrote => before[Grader] < room[Room].version
  BY <1>1, <1>4, <1>5 DEF IInv, BoundRight
<1>7. before[Grader] \in Nat /\ room[Room].version \in Nat /\ agent.wrote \in BOOLEAN
  BY <1>2, <1>4 DEF Typed, AgentType
<1>8. PICK g : /\ grades' = Append(grades, g)
               /\ Kind[Grader] = "file" /\ g => room[Room].by # 0
               /\ Kind[Grader] = "unchanged" /\ g => ~agent.wrote
  <2>1. CASE Kind[Grader] = "file" /\ grades' = Append(grades, room[bound[Grader]].by # 0)
    BY <1>6, <2>1
  <2>2. CASE /\ Kind[Grader] = "unchanged"
             /\ grades' = Append(grades, room[bound[Grader]].version = before[Grader])
    <3> DEFINE g == room[bound[Grader]].version = before[Grader]
    <3>1. g => ~agent.wrote
      BY <1>6, <1>7, <2>2
    <3>2. Kind[Grader] # "file"
      BY <2>2
    <3>3. grades' = Append(grades, g)
      BY <2>2
    <3> HIDE DEF g
    <3> QED
      BY <3>1, <3>2, <3>3
  <2>3. CASE Kind[Grader] = "text" /\ grades' = Append(grades, agent.said)
    BY <2>3
  <2>4. CASE Kind[Grader] = "judge" /\ grades' = Append(grades, Majority(judged'[Grader]))
    BY <2>4
  <2> QED
    BY <2>1, <2>2, <2>3, <2>4 DEF Grade
<1>9. /\ IsList(grades') /\ Len(grades') = n
      /\ \A i \in 1..Len(grades) : grades'[i] = grades[i]
      /\ grades'[n] = g
  BY <1>3, <1>8, AppendToList DEF n
<1>10. Typed'
  BY <1>1, <1>2, <1>9 DEF Typed
<1>11. RoomsTrue' /\ BoundRight' /\ AllEarned'
  BY <1>1 DEF IInv, RoomsTrue, ByOwn, BoundRight, AllEarned, Earned
<1>12. GradesTrue'
  <2> SUFFICES ASSUME NEW i \in 1..n
               PROVE  /\ Kind[Task.graders[i]] = "file" /\ grades'[i] => room[Room].by # 0
                      /\ Kind[Task.graders[i]] = "unchanged" /\ grades'[i] => ~agent.wrote
    BY <1>1, <1>9 DEF GradesTrue
  <2>1. CASE i = n
    BY <1>4, <1>8, <1>9, <2>1
  <2>2. CASE i \in 1..Len(grades)
    BY <1>1, <1>9, <2>2, Zenon DEF IInv, GradesTrue
  <2> QED
    BY <1>3, <2>1, <2>2 DEF n
<1> QED
  BY <1>10, <1>11, <1>12 DEF IInv

\* A call that is cut off loses its report, and adds at most a failed attempt.
LEMMA CallDiesKeeps ==
  ASSUME IInv, CallDies
  PROVE  IInv'
<1> DEFINE a == Attempt(FALSE, TRUE, <<>>)
<1>1. /\ pc' = "down" /\ at' = at /\ bound' = bound /\ before' = before /\ grades' = grades
      /\ pc \in {"prepare", "agent", "grade"}
      /\ Room' = Room /\ Task' = Task
  BY DEF CallDies, Run, Room, Task
<1>2. /\ agent' \in AgentType
      /\ room' \in [Rooms -> [by : Nat, version : Nat]]
      /\ \A r \in Rooms : \/ room'[r].by = room[r].by
                          \/ r = Room /\ room'[r].by = Now
  <2>1. CASE Run
    BY <2>1, RunFacts
  <2>2. CASE UNCHANGED <<room, runs, agent>>
    BY <2>2 DEF IInv, Typed
  <2> QED
    BY <2>1, <2>2 DEF CallDies
<1>3. BoundRight' /\ GradesTrue'
  BY <1>1 DEF BoundRight, GradesTrue
<1>4. IsList(attempts) /\ IsList(grades)
  BY DEF IInv, Typed
<1>5. CASE pc = "prepare"
  <2>1. attempts' = attempts /\ room' = room
    BY <1>5 DEF CallDies, Run
  <2>2. Typed'
    BY <1>1, <1>2, <1>4, <2>1 DEF IInv, Typed
  <2>3. RoomsTrue'
    BY <1>1, <1>5, <2>1 DEF IInv, RoomsTrue, ByOwn
  <2>4. AllEarned'
    BY <2>1 DEF IInv, AllEarned, Earned
  <2> QED
    BY <1>3, <2>2, <2>3, <2>4 DEF IInv
<1>6. CASE pc # "prepare"
  <2>1. attempts' = Append(attempts, a)
    BY <1>6 DEF CallDies
  <2>2. a.passed = FALSE /\ a.task = Task.id /\ a.seed = at[2]
    BY DEF Attempt
  <2> HIDE DEF a
  <2>3. IsList(attempts')
    BY <1>4, <2>1, AppendToList
  <2>4. Typed'
    BY <1>1, <1>2, <1>4, <2>3 DEF IInv, Typed
  <2>5. RoomsTrue'
    BY <1>2, <2>1, <2>2, ClosedRooms
  <2>6. \A i \in 1..Len(attempts) : Earned(attempts, i)
    BY DEF IInv, AllEarned
  <2>7. attempts'[Len(attempts) + 1] = a
    BY <1>4, <2>1, AppendToList
  <2>8. Earned(attempts', Len(attempts) + 1)
    BY <2>2, <2>7 DEF Earned, EarnedWith
  <2>9. AllEarned'
    BY <1>4, <2>1, <2>6, <2>8, AppendEarned, Zenon DEF AllEarned
  <2> QED
    BY <1>3, <2>4, <2>5, <2>9 DEF IInv
<1> QED
  BY <1>5, <1>6

LEMMA AgainKeeps ==
  ASSUME IInv, Again
  PROVE  IInv'
<1>1. /\ pc \in {"over", "down"} /\ pc' = "prepare" /\ at' = <<1, 1>>
      /\ bound' = Unbound /\ before' = Unseen
      /\ UNCHANGED <<room, grades, agent, attempts>>
  BY DEF Again
<1>2. Typed'
  BY <1>1, SuiteFacts DEF IInv, Typed, Unbound, Unseen
<1>3. RoomsTrue'
  BY <1>1 DEF IInv, RoomsTrue, ByOwn
<1>4. BoundRight' /\ GradesTrue' /\ AllEarned'
  BY <1>1 DEF IInv, BoundRight, GradesTrue, AllEarned, Earned
<1> QED
  BY <1>2, <1>3, <1>4 DEF IInv

\* All graders said yes, so the task was done in this workspace, and not by a stranger.
LEMMA CloseKeeps ==
  ASSUME IInv, Close
  PROVE  IInv'
<1>1. PICK judgments :
        attempts' = Append(attempts,
                      Attempt(grades # <<>> /\ \A i \in DOMAIN grades : grades[i], FALSE, judgments))
  BY DEF Close, Kept
<1> DEFINE passed == grades # <<>> /\ \A i \in DOMAIN grades : grades[i]
           a == Attempt(passed, FALSE, judgments)
<1>2. /\ attempts' = Append(attempts, a)
      /\ pc = "grade" /\ Len(grades) = Len(Task.graders) /\ room' = room /\ agent' = agent
      /\ bound' = bound /\ before' = before /\ grades' = grades
  BY <1>1 DEF Close
<1>3. a.passed = passed /\ a.task = Task.id /\ a.seed = at[2] /\ a.by = room[Room].by /\ a.wrote = agent.wrote
  BY <1>2 DEF Attempt
<1> HIDE DEF a
<1>4. Typed /\ at' \in (DOMAIN Suite) \X (1..Repeats) /\ pc' \in {"prepare", "over"}
  BY OnwardStays DEF IInv, Close
<1>5. /\ IsList(attempts) /\ IsList(attempts') /\ Len(attempts) \in Nat
      /\ Len(attempts') = Now /\ attempts'[Now] = a
      /\ \A i \in 1..Len(attempts) : attempts'[i] = attempts[i]
      /\ DOMAIN grades = 1..Len(grades)
  BY <1>2, <1>4, AppendToList DEF Typed, Now
<1>6. Typed'
  BY <1>2, <1>4, <1>5 DEF Typed
<1>7. RoomsTrue'
  BY <1>2, <1>3, ClosedRooms
<1>8. BoundRight' /\ GradesTrue'
  BY <1>4 DEF BoundRight, GradesTrue
<1>9. ASSUME NEW k \in KindsOf(a.task)
      PROVE  \E i \in 1..Len(grades) : Kind[Task.graders[i]] = k
  <2>1. at[1] \in DOMAIN Suite
    BY <1>4, RoomIsARoom
  <2>2. k \in KindsOf(Suite[at[1]].id)
    BY <1>3, <1>9 DEF Task
  <2>3. \E i \in 1..Len(Suite[at[1]].graders) : Kind[Suite[at[1]].graders[i]] = k
    BY <2>1, <2>2, KindsOfTask
  <2> QED
    BY <1>2, <2>3 DEF Task
<1>10. ASSUME passed, "file" \in KindsOf(a.task)
       PROVE  /\ a.by \in 1..Now
              /\ attempts'[a.by].task = a.task /\ attempts'[a.by].seed = a.seed
  <2>1. PICK i \in 1..Len(grades) : Kind[Task.graders[i]] = "file"
    BY <1>9, <1>10
  <2>2. grades[i]
    BY <1>5, <1>10
  <2>3. room[Room].by # 0
    BY <1>2, <2>1, <2>2 DEF IInv, GradesTrue
  <2>4. Room \in Rooms /\ Room[1] = Task.id /\ Room[2] = at[2]
    BY <1>4, RoomIsARoom
  <2>5. \/ /\ a.by \in 1..Len(attempts)
           /\ attempts[a.by].task = a.task /\ attempts[a.by].seed = a.seed
        \/ a.by = Now
    BY <1>3, <2>3, <2>4 DEF IInv, RoomsTrue, ByOwn
  <2> QED
    BY <1>3, <1>5, <2>5 DEF Now
<1>11. ASSUME passed, "unchanged" \in KindsOf(a.task)
       PROVE  ~a.wrote
  <2>1. PICK i \in 1..Len(grades) : Kind[Task.graders[i]] = "unchanged"
    BY <1>9, <1>11
  <2>2. grades[i]
    BY <1>5, <1>11
  <2> QED
    BY <1>2, <1>3, <2>1, <2>2 DEF IInv, GradesTrue
<1> HIDE DEF passed
<1>12. Earned(attempts', Now)
  BY <1>3, <1>5, <1>10, <1>11, Zenon DEF Earned, EarnedWith
<1>13. AllEarned'
  <2>1. \A i \in 1..Len(attempts) : Earned(attempts, i)
    BY DEF IInv, AllEarned
  <2> QED
    BY <1>2, <1>5, <1>12, <2>1, AppendEarned, Zenon DEF AllEarned, Now
<1> QED
  BY <1>6, <1>7, <1>8, <1>13 DEF IInv

LEMMA NextInv == IInv /\ [Next]_vars => IInv'
<1> SUFFICES ASSUME IInv, [Next]_vars PROVE IInv'
  OBVIOUS
<1>1. CASE UNCHANGED vars
  <2>1. Typed'
    BY <1>1 DEF vars, IInv, Typed
  <2>2. RoomsTrue' /\ BoundRight' /\ GradesTrue' /\ AllEarned'
    BY <1>1 DEF vars, IInv, RoomsTrue, ByOwn, BoundRight, GradesTrue, AllEarned, Earned,
                Room, Task, Now
  <2> QED
    BY <2>1, <2>2 DEF IInv
<1>2. CASE Next
  BY <1>2, PrepareKeeps, AgentReturnsKeeps, AgentRaisesKeeps, GradeKeeps, CallDiesKeeps,
     CloseKeeps, AgainKeeps DEF Next
<1> QED
  BY <1>1, <1>2

\* For every suite whose ids are distinct, every sharing of graders and every sequence of
\* calls on one directory, an attempt passes on what happened in its own workspace
\* (eval/runner.py:76-112, eval/graders.py:240-247).
THEOREM PassIsEarnedHolds == Spec => []PassIsEarned
<1> QED
  BY InitInv, NextInv, Earns, PTL DEF Spec

-----------------------------------------------------------------------------
(* The judgments an attempt carries *)

\* A set of places on a list that is not empty has a last one.
LEMMA LastPlace ==
  ASSUME NEW n \in Nat, NEW S, S \subseteq 1..n, S # {}
  PROVE  Max(S) \in S /\ \A k \in S : k <= Max(S)
<1> DEFINE R == OpToRel(<, Nat)
           T == {n - k : k \in S}
<1>1. R = {p \in Nat \X Nat : p[1] < p[2]}
  BY DEF OpToRel
<1>2. IsWellFoundedOn(R, Nat)
  BY NatLessThanWellFounded
<1> HIDE DEF R
<1>3. T \subseteq Nat /\ T # {}
  <2>1. \A k \in S : n - k \in Nat
    OBVIOUS
  <2>2. T \subseteq Nat
    BY <2>1
  <2>3. PICK k \in S : TRUE
    OBVIOUS
  <2>4. n - k \in T
    OBVIOUS
  <2> QED
    BY <2>2, <2>4
<1>4. PICK m \in T : \A k \in T : ~(<<k, m>> \in R)
  <2> HIDE DEF T
  <2> QED
    BY <1>2, <1>3, WFMin
<1>5. \A k \in T : ~(k < m)
  BY <1>1, <1>3, <1>4
<1>6. PICK x \in S : m = n - x
  BY <1>4
<1>7. \A k \in S : n - k \in T /\ n - k \in Nat /\ k \in Nat
  OBVIOUS
<1> HIDE DEF T
<1>8. \A k \in S : x >= k
  BY <1>5, <1>6, <1>7
<1>9. \E y \in S : \A k \in S : y >= k
  BY <1>8
<1>10. Max(S) \in S /\ \A k \in S : Max(S) >= k
  BY <1>9, Zenon DEF Max
<1> QED
  BY <1>7, <1>10

\* K judgments of the n-th attempt.
Verdicts(v, n) ==
  \E says \in [1..K -> BOOLEAN] : v = [i \in 1..K |-> [of |-> n, passed |-> says[i]]]

LEMMA VerdictFacts ==
  ASSUME NEW n, NEW v, Verdicts(v, n)
  PROVE  /\ K \in Nat /\ K > 0 /\ Len(v) = K /\ DOMAIN v = 1..K /\ v # <<>>
         /\ \A j \in 1..K : v[j].of = n /\ v[j].passed \in BOOLEAN
<1>1. K \in Nat /\ K > 0
  BY EvaluationAssumption
<1>2. PICK says \in [1..K -> BOOLEAN] : v = [i \in 1..K |-> [of |-> n, passed |-> says[i]]]
  BY DEF Verdicts
<1>3. DOMAIN v = 1..K /\ \A j \in 1..K : v[j].of = n /\ v[j].passed \in BOOLEAN
  BY <1>2
<1>4. v \in Seq([of : {n}, passed : BOOLEAN])
  BY <1>1, <1>2
<1>5. Len(v) = K
  BY <1>1, <1>3, <1>4
<1>6. v # <<>>
  BY <1>1, <1>5
<1> QED
  BY <1>1, <1>3, <1>5, <1>6

\* While grades are given: the judges have been heard, of this attempt, and the last of
\* them passed it only with the majority that is still on record.
HeardWith(v, g, m, n) ==
  Kind[Task.graders[m]] = "judge" =>
    /\ Verdicts(v[Task.graders[m]], Now)
    /\ (\A k \in 1..n : Kind[Task.graders[k]] = "judge" => k <= m) /\ g[m] =>
         Majority(v[Task.graders[m]])

Heard ==
  /\ judged = [g \in Graders |-> judged[g]]
  /\ pc = "agent" => Len(grades) = 0
  /\ pc = "grade" => \A m \in 1..Len(grades) : HeardWith(judged, grades, m, Len(grades))

OwnJudgments(a, i) ==
  /\ a.judgments # <<>> => Verdicts(a.judgments, i) /\ (a.passed => Majority(a.judgments))
  /\ a.error => ~a.passed

AllOwn == \A i \in 1..Len(attempts) : OwnJudgments(attempts[i], i)

HInv == Heard /\ AllOwn

LEMMA HeardInit == Init => HInv
<1> SUFFICES ASSUME Init PROVE HInv
  OBVIOUS
<1>1. attempts = <<>> /\ grades = <<>> /\ judged = [g \in Graders |-> <<>>] /\ pc = "prepare"
  BY DEF Init, Unjudged
<1>2. Len(attempts) = 0 /\ Len(grades) = 0
  BY <1>1
<1> QED
  BY <1>1, <1>2 DEF HInv, Heard, AllOwn

LEMMA AppendOwn ==
  ASSUME Typed, AllOwn, NEW a, attempts' = Append(attempts, a), OwnJudgments(a, Now)
  PROVE  AllOwn'
<1>1. /\ Len(attempts) \in Nat /\ Len(attempts') = Len(attempts) + 1
      /\ \A i \in 1..Len(attempts) : attempts'[i] = attempts[i]
      /\ attempts'[Len(attempts) + 1] = a
  BY AppendToList DEF Typed
<1> SUFFICES ASSUME NEW i \in 1..Len(attempts) + 1 PROVE OwnJudgments(attempts'[i], i)
  BY <1>1 DEF AllOwn, OwnJudgments
<1>2. CASE i \in 1..Len(attempts)
  BY <1>1, <1>2, Zenon DEF AllOwn
<1>3. CASE i = Len(attempts) + 1
  BY <1>1, <1>3 DEF Now
<1> QED
  BY <1>1, <1>2, <1>3

LEMMA HeardGrade ==
  ASSUME Typed, HInv, Grade
  PROVE  HInv'
<1> DEFINE n == Len(grades) + 1
<1>1. /\ pc = "grade" /\ pc' = pc /\ attempts' = attempts
      /\ Task' = Task /\ Now' = Now /\ Len(grades) < Len(Task.graders)
  BY DEF Grade, Task, Now
<1>2. Task.graders \in Seq(Graders)
  BY RoomIsARoom
<1>3. IsList(grades) /\ Len(grades) \in Nat
  BY AppendToList DEF Typed
<1>4. n \in DOMAIN Task.graders /\ Grader = Task.graders[n] /\ Grader \in Graders
  BY <1>1, <1>2, <1>3 DEF Grader
<1>5. judged = [g \in Graders |-> judged[g]]
  BY DEF HInv, Heard
<1>6. PICK g : /\ grades' = Append(grades, g)
               /\ \/ Kind[Grader] # "judge" /\ judged' = judged
                  \/ /\ Kind[Grader] = "judge"
                     /\ \E v : Verdicts(v, Now) /\ judged' = [judged EXCEPT ![Grader] = v]
                     /\ g = Majority(judged'[Grader])
  <2>1. CASE Kind[Grader] = "file" /\ judged' = judged
             /\ grades' = Append(grades, room[bound[Grader]].by # 0)
    BY <2>1
  <2>2. CASE Kind[Grader] = "unchanged" /\ judged' = judged
             /\ grades' = Append(grades, room[bound[Grader]].version = before[Grader])
    BY <2>2
  <2>3. CASE Kind[Grader] = "text" /\ judged' = judged /\ grades' = Append(grades, agent.said)
    BY <2>3
  <2>4. CASE /\ Kind[Grader] = "judge"
             /\ \E says \in [1..K -> BOOLEAN] :
                  judged' = [judged EXCEPT ![Grader] =
                               [i \in 1..K |-> [of |-> Now, passed |-> says[i]]]]
             /\ grades' = Append(grades, Majority(judged'[Grader]))
    <3>1. PICK says \in [1..K -> BOOLEAN] :
            judged' = [judged EXCEPT ![Grader] =
                         [i \in 1..K |-> [of |-> Now, passed |-> says[i]]]]
      BY <2>4
    <3> DEFINE v == [i \in 1..K |-> [of |-> Now, passed |-> says[i]]]
    <3>2. Verdicts(v, Now)
      BY DEF Verdicts
    <3>3. judged' = [judged EXCEPT ![Grader] = v]
      BY <3>1
    <3> HIDE DEF v
    <3> QED
      BY <2>4, <3>2, <3>3, Zenon
  <2> QED
    BY <2>1, <2>2, <2>3, <2>4 DEF Grade
<1>7. /\ Len(grades') = n
      /\ \A i \in 1..Len(grades) : grades'[i] = grades[i]
      /\ grades'[n] = g
  BY <1>3, <1>6, AppendToList
<1>8. /\ judged' = [h \in Graders |-> judged'[h]]
      /\ Kind[Grader] = "judge" => Verdicts(judged'[Grader], Now)
      /\ \A h \in Graders : h # Grader => judged'[h] = judged[h]
      /\ Kind[Grader] # "judge" => judged' = judged
  <2>1. CASE Kind[Grader] # "judge" /\ judged' = judged
    BY <1>5, <2>1
  <2>2. CASE Kind[Grader] = "judge" /\ \E v : Verdicts(v, Now) /\ judged' = [judged EXCEPT ![Grader] = v]
    <3>1. PICK v : Verdicts(v, Now) /\ judged' = [judged EXCEPT ![Grader] = v]
      BY <2>2
    <3>2. judged'[Grader] = v /\ \A h \in Graders : h # Grader => judged'[h] = judged[h]
      BY <1>4, <1>5, <3>1
    <3>3. judged' = [h \in Graders |-> judged'[h]]
      BY <1>5, <3>1
    <3> QED
      BY <2>2, <3>1, <3>2, <3>3
  <2> QED
    BY <1>6, <2>1, <2>2
<1> HIDE DEF n
<1>9. ASSUME NEW m \in 1..n
      PROVE  HeardWith(judged', grades', m, n)
  <2>1. m \in DOMAIN Task.graders /\ Task.graders[m] \in Graders
    BY <1>1, <1>2, <1>3 DEF n
  <2>2. CASE m = n
    <3>1. Kind[Grader] = "judge" => grades'[n] = Majority(judged'[Grader])
      BY <1>6, <1>7
    <3> QED
      BY <1>4, <1>8, <2>2, <3>1, Zenon DEF HeardWith
  <2>3. CASE m # n
    <3>1. m \in 1..Len(grades) /\ n \in 1..n /\ ~(n <= m)
      BY <1>3, <2>3 DEF n
    <3>2. HeardWith(judged, grades, m, Len(grades)) /\ grades'[m] = grades[m]
      BY <1>1, <1>7, <3>1 DEF HInv, Heard
    <3>3. \A k \in 1..Len(grades) : k \in 1..n
      BY <1>3 DEF n
    <3>4. CASE Kind[Grader] = "judge"
      <4>1. Kind[Task.graders[m]] = "judge" => Verdicts(judged'[Task.graders[m]], Now)
        BY <1>8, <2>1, <3>2, <3>4, Zenon DEF HeardWith
      <4> QED
        BY <1>4, <3>1, <3>4, <4>1, Zenon DEF HeardWith
    <3>5. CASE Kind[Grader] # "judge"
      BY <1>8, <3>2, <3>3, <3>5, Zenon DEF HeardWith
    <3> QED
      BY <3>4, <3>5
  <2> QED
    BY <2>2, <2>3
<1>10. Heard'
  BY <1>1, <1>7, <1>8, <1>9, Zenon DEF Heard, HeardWith
<1>11. AllOwn'
  BY <1>1 DEF HInv, AllOwn, OwnJudgments
<1> QED
  BY <1>10, <1>11 DEF HInv

LEMMA HeardClose ==
  ASSUME Typed, HInv, Close
  PROVE  HInv'
<1> DEFINE places == JudgePlaces(Task)
           passed == grades # <<>> /\ \A i \in DOMAIN grades : grades[i]
           judgments == IF places = {} THEN <<>> ELSE judged[Task.graders[Max(places)]]
           a == Attempt(passed, FALSE, judgments)
<1>1. /\ attempts' = Append(attempts, a)
      /\ pc = "grade" /\ Len(grades) = Len(Task.graders) /\ judged' = judged
  BY DEF Close, Kept
<1>2. a.passed = passed /\ a.error = FALSE /\ a.judgments = judgments
  BY DEF Attempt
<1> HIDE DEF a
<1>3. Task.graders \in Seq(Graders) /\ pc' \in {"prepare", "over"}
  BY RoomIsARoom, OnwardStays DEF Close
<1>4. DOMAIN grades = 1..Len(grades) /\ Len(grades) \in Nat
  BY AppendToList DEF Typed
<1>5. /\ places \subseteq 1..Len(grades)
      /\ \A k \in 1..Len(grades) : k \in places <=> Kind[Task.graders[k]] = "judge"
  BY <1>1, <1>3 DEF JudgePlaces
<1>6. places # {} => /\ Verdicts(judgments, Now)
                     /\ passed => Majority(judgments)
  <2> SUFFICES ASSUME places # {}
               PROVE  Verdicts(judgments, Now) /\ (passed => Majority(judgments))
    OBVIOUS
  <2> DEFINE m == Max(places)
  <2> HIDE DEF places
  <2>1. m \in places /\ \A k \in places : k <= m
    BY <1>4, <1>5, LastPlace
  <2>2. m \in 1..Len(grades) /\ Kind[Task.graders[m]] = "judge"
    BY <1>5, <2>1
  <2>3. HeardWith(judged, grades, m, Len(grades))
    BY <1>1, <2>2 DEF HInv, Heard
  <2>4. judgments = judged[Task.graders[m]]
    OBVIOUS
  <2>5. \A k \in 1..Len(grades) : Kind[Task.graders[k]] = "judge" => k <= m
    BY <1>5, <2>1
  <2>6. passed => grades[m]
    BY <1>4, <2>2
  <2> HIDE DEF judgments, passed, m
  <2> QED
    BY <2>2, <2>3, <2>4, <2>5, <2>6, Zenon DEF HeardWith
<1>7. judgments # <<>> => places # {}
  OBVIOUS
<1> HIDE DEF judgments, passed, places
<1>8. OwnJudgments(a, Now)
  BY <1>2, <1>6, <1>7, Zenon DEF OwnJudgments
<1>9. AllOwn'
  BY <1>1, <1>8, AppendOwn DEF HInv
<1>10. Heard'
  BY <1>1, <1>3 DEF HInv, Heard
<1> QED
  BY <1>9, <1>10 DEF HInv

LEMMA HeardRaises ==
  ASSUME Typed, HInv, AgentRaises
  PROVE  HInv'
<1> DEFINE a == Attempt(FALSE, TRUE, <<>>)
<1>1. attempts' = Append(attempts, a) /\ judged' = judged
  BY DEF AgentRaises
<1>2. a.passed = FALSE /\ a.error = TRUE /\ a.judgments = <<>>
  BY DEF Attempt
<1> HIDE DEF a
<1>3. pc' \in {"prepare", "over"}
  BY OnwardStays DEF AgentRaises
<1>4. OwnJudgments(a, Now)
  BY <1>2 DEF OwnJudgments
<1>5. AllOwn'
  BY <1>1, <1>4, AppendOwn DEF HInv
<1>6. Heard'
  BY <1>1, <1>3 DEF HInv, Heard
<1> QED
  BY <1>5, <1>6 DEF HInv

LEMMA HeardDies ==
  ASSUME Typed, HInv, CallDies
  PROVE  HInv'
<1> DEFINE a == Attempt(FALSE, TRUE, <<>>)
<1>1. /\ attempts' = attempts \/ attempts' = Append(attempts, a)
      /\ judged' = judged /\ pc' = "down"
  BY DEF CallDies
<1>2. a.passed = FALSE /\ a.error = TRUE /\ a.judgments = <<>>
  BY DEF Attempt
<1> HIDE DEF a
<1>3. OwnJudgments(a, Now)
  BY <1>2 DEF OwnJudgments
<1>4. CASE attempts' = attempts
  BY <1>1, <1>4 DEF HInv, Heard, AllOwn, OwnJudgments
<1>5. CASE attempts' = Append(attempts, a)
  <2>1. AllOwn'
    BY <1>3, <1>5, AppendOwn DEF HInv
  <2> QED
    BY <1>1, <2>1 DEF HInv, Heard
<1> QED
  BY <1>1, <1>4, <1>5

LEMMA HeardNext == Typed /\ HInv /\ [Next]_vars => HInv'
<1> SUFFICES ASSUME Typed, HInv, [Next]_vars PROVE HInv'
  OBVIOUS
<1>1. CASE Grade
  BY <1>1, HeardGrade
<1>2. CASE Close
  BY <1>2, HeardClose
<1>3. CASE AgentRaises
  BY <1>3, HeardRaises
<1>4. CASE Prepare
  <2>1. attempts' = attempts /\ judged' = judged /\ grades' = <<>> /\ pc' = "agent"
    BY <1>4 DEF Prepare
  <2>2. Len(grades') = 0
    BY <2>1
  <2> QED
    BY <2>1, <2>2 DEF HInv, Heard, AllOwn, OwnJudgments
<1>5. CASE AgentReturns
  <2>1. /\ attempts' = attempts /\ judged' = judged /\ grades' = grades
        /\ pc = "agent" /\ pc' = "grade"
    BY <1>5 DEF AgentReturns, Run
  <2>2. Len(grades) = 0
    BY <2>1 DEF HInv, Heard
  <2> QED
    BY <2>1, <2>2 DEF HInv, Heard, AllOwn, OwnJudgments
<1>6. CASE CallDies
  BY <1>6, HeardDies
<1>7. CASE Again
  <2>1. attempts' = attempts /\ judged' = [g \in Graders |-> <<>>] /\ pc' = "prepare"
    BY <1>7 DEF Again, Unjudged
  <2>2. judged' = [g \in Graders |-> judged'[g]]
    BY <2>1
  <2> QED
    BY <2>1, <2>2 DEF HInv, Heard, AllOwn, OwnJudgments
<1>8. CASE UNCHANGED vars
  BY <1>8 DEF vars, HInv, Heard, HeardWith, AllOwn, OwnJudgments, Task, Now
<1> QED
  BY <1>1, <1>2, <1>3, <1>4, <1>5, <1>6, <1>7, <1>8 DEF Next

-----------------------------------------------------------------------------
(* The tour of run_suite *)

Pairs == (DOMAIN Suite) \X (1..Repeats)

\* The attempts of list after the f-th are one for each of these tasks and seeds.
Tours(list, f, done) ==
  /\ f \in Nat /\ f <= Len(list)
  /\ \A i \in f + 1..Len(list) : \E t \in DOMAIN Suite :
       list[i].task = Suite[t].id /\ <<t, list[i].seed>> \in done
  /\ \A p \in done : \E i \in f + 1..Len(list) :
       list[i].task = Suite[p[1]].id /\ list[i].seed = p[2]
  /\ \A i, j \in f + 1..Len(list) :
       list[i].task = list[j].task /\ list[i].seed = list[j].seed => i = j

LEMMA ToursAppend ==
  ASSUME NEW list, IsList(list), NEW f, NEW done, done \subseteq Pairs, Tours(list, f, done),
         NEW t \in DOMAIN Suite, NEW s \in 1..Repeats, <<t, s>> \notin done,
         NEW a, a.task = Suite[t].id, a.seed = s
  PROVE  Tours(Append(list, a), f, done \cup {<<t, s>>})
<1> DEFINE bs == Append(list, a)
           D  == done \cup {<<t, s>>}
<1>1. PICK n \in Nat : n = Len(list)
  BY AppendToList
<1>2. /\ Len(bs) = n + 1 /\ bs[n + 1] = a
      /\ \A i \in 1..n : bs[i] = list[i]
  <2>1. /\ Len(bs) = Len(list) + 1 /\ bs[Len(list) + 1] = a
        /\ \A i \in 1..Len(list) : bs[i] = list[i]
    BY AppendToList
  <2> HIDE DEF bs
  <2> QED
    BY <1>1, <2>1
<1>3. f \in Nat /\ f <= n
  BY <1>1 DEF Tours
<1>4. /\ \A i \in f + 1..n : bs[i] = list[i]
      /\ \A i \in f + 1..n + 1 : i \in f + 1..n \/ i = n + 1
      /\ \A i \in f + 1..n : i \in f + 1..n + 1
      /\ n + 1 \in f + 1..n + 1
  <2> HIDE DEF bs
  <2>1. \A i \in f + 1..n : i \in 1..n /\ i \in f + 1..n + 1
    BY <1>3
  <2>2. \A i \in f + 1..n + 1 : i \in f + 1..n \/ i = n + 1
    BY <1>3
  <2>3. n + 1 \in f + 1..n + 1
    BY <1>3
  <2> QED
    BY <1>2, <2>1, <2>2, <2>3
<1> HIDE DEF bs
<1>5. \A i \in f + 1..n : \E u \in DOMAIN Suite :
        list[i].task = Suite[u].id /\ <<u, list[i].seed>> \in done
  BY <1>1 DEF Tours
<1>6. ASSUME NEW i \in f + 1..n + 1
      PROVE  \E u \in DOMAIN Suite : bs[i].task = Suite[u].id /\ <<u, bs[i].seed>> \in D
  <2>1. CASE i \in f + 1..n
    <3>1. PICK u \in DOMAIN Suite : list[i].task = Suite[u].id /\ <<u, list[i].seed>> \in done
      BY <1>5, <2>1
    <3>2. bs[i] = list[i]
      BY <1>4, <2>1
    <3>3. bs[i].task = Suite[u].id /\ <<u, bs[i].seed>> \in D
      BY <3>1, <3>2
    <3> QED
      BY <3>3
  <2>2. CASE i = n + 1
    BY <1>2, <2>2
  <2> QED
    BY <1>4, <2>1, <2>2
<1>7. ASSUME NEW p \in D
      PROVE  \E i \in f + 1..n + 1 : bs[i].task = Suite[p[1]].id /\ bs[i].seed = p[2]
  <2>1. CASE p \in done
    <3>1. PICK i \in f + 1..n : list[i].task = Suite[p[1]].id /\ list[i].seed = p[2]
      BY <1>1, <2>1 DEF Tours
    <3>2. bs[i].task = Suite[p[1]].id /\ bs[i].seed = p[2] /\ i \in f + 1..n + 1
      BY <1>4, <3>1
    <3> QED
      BY <3>2
  <2>2. CASE p = <<t, s>>
    BY <1>2, <1>4, <2>2
  <2> QED
    BY <2>1, <2>2
<1>8. ASSUME NEW i \in f + 1..n, list[i].task = a.task, list[i].seed = a.seed
      PROVE  FALSE
  <2>1. PICK u \in DOMAIN Suite : list[i].task = Suite[u].id /\ <<u, list[i].seed>> \in done
    BY <1>5
  <2>2. u = t
    BY <1>8, <2>1, SuiteFacts
  <2> QED
    BY <1>8, <2>1, <2>2
<1>9. ASSUME NEW i \in f + 1..n + 1, NEW j \in f + 1..n + 1,
             bs[i].task = bs[j].task, bs[i].seed = bs[j].seed
      PROVE  i = j
  <2>1. CASE i \in f + 1..n /\ j \in f + 1..n
    <3>1. bs[i] = list[i] /\ bs[j] = list[j]
      BY <1>4, <2>1
    <3> QED
      BY <1>1, <1>9, <2>1, <3>1 DEF Tours
  <2>2. CASE i \in f + 1..n /\ j = n + 1
    BY <1>2, <1>4, <1>8, <1>9, <2>2
  <2>3. CASE i = n + 1 /\ j \in f + 1..n
    BY <1>2, <1>4, <1>8, <1>9, <2>3
  <2> QED
    BY <1>4, <2>1, <2>2, <2>3
<1> HIDE DEF D
<1>10. f <= Len(bs)
  BY <1>2, <1>3
<1> QED
  BY <1>2, <1>3, <1>6, <1>7, <1>9, <1>10 DEF Tours, bs, D

\* The tasks and seeds that this call has been through.
Done == {p \in Pairs : p[1] < at[1] \/ pc = "over" \/ (p[1] = at[1] /\ p[2] < at[2])}

\* Until the call is cut off, its attempts are one for each of those.
Tour == first \in Nat /\ (pc # "down" => Tours(attempts, first, Done))

\* On to the next seed, the next task or the report: one more is done.
LEMMA DoneOnward ==
  ASSUME Typed, Onward, pc # "over"
  PROVE  at \in Pairs /\ at = <<at[1], at[2]>> /\ at \notin Done /\ Done' = Done \cup {at}
<1>1. /\ at \in Pairs /\ DOMAIN Suite = 1..Len(Suite) /\ Len(Suite) \in Nat /\ Repeats \in Nat
  BY SuiteFacts DEF Typed, Pairs
<1>2. PICK k \in 1..Len(Suite), r \in 1..Repeats : at = <<k, r>>
  BY <1>1 DEF Pairs
<1>3. \A p \in Pairs : /\ p \in Done <=> p[1] < k \/ (p[1] = k /\ p[2] < r)
                       /\ p \in Done' <=> p[1] < at'[1] \/ pc' = "over" \/ (p[1] = at'[1] /\ p[2] < at'[2])
  BY <1>2 DEF Done
<1>4. \A p \in Pairs : /\ p[1] \in Nat /\ p[2] \in Nat /\ p = <<p[1], p[2]>>
                       /\ 1 <= p[1] /\ p[1] <= Len(Suite) /\ 1 <= p[2] /\ p[2] <= Repeats
  BY <1>1 DEF Pairs
<1>5. /\ k \in Nat /\ r \in Nat /\ 1 <= k /\ k <= Len(Suite) /\ 1 <= r /\ r <= Repeats
  BY <1>1
<1>6. ASSUME NEW p \in Pairs
      PROVE  p \in Done' <=> p \in Done \/ p = at
  <2>1. p = at <=> p[1] = k /\ p[2] = r
    BY <1>2, <1>4
  <2>2. CASE r < Repeats
    <3>1. at' = <<k, r + 1>> /\ pc' = "prepare"
      BY <1>2, <2>2 DEF Onward
    <3>2. p \in Done' <=> p[1] < k \/ (p[1] = k /\ p[2] < r + 1)
      BY <1>3, <3>1
    <3> QED
      BY <1>3, <1>4, <1>5, <2>1, <3>2
  <2>3. CASE ~(r < Repeats) /\ k < Len(Suite)
    <3>1. at' = <<k + 1, 1>> /\ pc' = "prepare"
      BY <1>2, <2>3 DEF Onward
    <3>2. p \in Done' <=> p[1] < k + 1 \/ (p[1] = k + 1 /\ p[2] < 1)
      BY <1>3, <3>1
    <3>3. r = Repeats
      BY <1>1, <1>5, <2>3
    <3> QED
      BY <1>1, <1>3, <1>4, <1>5, <2>1, <3>2, <3>3
  <2>4. CASE ~(r < Repeats) /\ ~(k < Len(Suite))
    <3>1. pc' = "over"
      BY <1>2, <2>4 DEF Onward
    <3>2. p \in Done'
      BY <1>3, <3>1
    <3>3. r = Repeats
      BY <1>1, <1>5, <2>4
    <3>4. k = Len(Suite)
      <4>1. PICK n \in Nat : n = Len(Suite)
        BY <1>1
      <4>2. k <= n /\ ~(k < n) /\ k \in Nat
        BY <1>5, <2>4, <4>1
      <4> QED
        BY <4>1, <4>2
    <3> QED
      BY <1>1, <1>3, <1>4, <1>5, <2>1, <3>2, <3>3, <3>4
  <2> QED
    BY <2>2, <2>3, <2>4
<1>7. Done \subseteq Pairs /\ Done' \subseteq Pairs
  BY DEF Done, Pairs
<1>8. at \notin Done
  BY <1>1, <1>2, <1>3, <1>5
<1>9. Done' = Done \cup {at}
  BY <1>1, <1>6, <1>7
<1> QED
  BY <1>1, <1>2, <1>8, <1>9

LEMMA TourInit == Init => Tour
<1> SUFFICES ASSUME Init PROVE Tour
  OBVIOUS
<1>1. /\ attempts = <<>> /\ first = 0 /\ at = <<1, 1>> /\ pc = "prepare"
      /\ DOMAIN Suite = 1..Len(Suite) /\ Len(Suite) \in Nat
  BY SuiteFacts DEF Init
<1>2. Len(attempts) = 0
  BY <1>1
<1>3. first + 1..Len(attempts) = {}
  BY <1>1, <1>2
<1>4. Done = {}
  BY <1>1, SuiteFacts DEF Done, Pairs
<1>5. first \in Nat /\ first <= Len(attempts)
  BY <1>1, <1>2
<1> QED
  BY <1>3, <1>4, <1>5, Zenon DEF Tour, Tours

LEMMA TourAppend ==
  ASSUME Typed, Tour, pc \in {"agent", "grade"}, Onward, first' = first, NEW a,
         attempts' = Append(attempts, a), a.task = Task.id, a.seed = at[2]
  PROVE  Tour'
<1>1. at[1] \in DOMAIN Suite /\ at[2] \in 1..Repeats /\ Task = Suite[at[1]]
  BY RoomIsARoom DEF Task
<1>2. /\ Done \subseteq Pairs /\ <<at[1], at[2]>> \notin Done
      /\ Done' = Done \cup {<<at[1], at[2]>>}
  BY DoneOnward DEF Done
<1>3. Tours(attempts, first, Done) /\ IsList(attempts)
  BY DEF Tour, Typed
<1>4. Tours(Append(attempts, a), first, Done \cup {<<at[1], at[2]>>})
  BY <1>1, <1>2, <1>3, ToursAppend
<1> QED
  BY <1>2, <1>4 DEF Tour

\* Nothing else makes or loses an attempt of this call.
LEMMA TourStays ==
  ASSUME Tour, attempts' = attempts, first' = first, at' = at,
         \A end \in {"over", "down"} : pc = end <=> pc' = end
  PROVE  Tour'
<1>1. Done' = Done
  BY DEF Done, Pairs
<1> QED
  BY <1>1 DEF Tour

LEMMA TourNext == Typed /\ Tour /\ [Next]_vars => Tour'
<1> SUFFICES ASSUME Typed, Tour, [Next]_vars PROVE Tour'
  OBVIOUS
<1>1. CASE Close
  <2> DEFINE passed == grades # <<>> /\ \A i \in DOMAIN grades : grades[i]
  <2>1. PICK judgments : attempts' = Append(attempts, Attempt(passed, FALSE, judgments))
    BY <1>1 DEF Close, Kept
  <2> DEFINE a == Attempt(passed, FALSE, judgments)
  <2>2. a.task = Task.id /\ a.seed = at[2]
    BY DEF Attempt
  <2>3. pc = "grade" /\ Onward /\ first' = first
    BY <1>1 DEF Close
  <2>4. attempts' = Append(attempts, a)
    BY <2>1
  <2> HIDE DEF a
  <2> QED
    BY <2>2, <2>3, <2>4, TourAppend
<1>2. CASE AgentRaises
  <2> DEFINE a == Attempt(FALSE, TRUE, <<>>)
  <2>1. a.task = Task.id /\ a.seed = at[2]
    BY DEF Attempt
  <2>2. pc = "agent" /\ Onward /\ first' = first /\ attempts' = Append(attempts, a)
    BY <1>2 DEF AgentRaises, Run
  <2> HIDE DEF a
  <2> QED
    BY <2>1, <2>2, TourAppend
<1>3. CASE Again
  <2>1. /\ first' = Len(attempts) /\ attempts' = attempts /\ at' = <<1, 1>> /\ pc' = "prepare"
        /\ Len(attempts) \in Nat
    BY <1>3, AppendToList DEF Again, Typed
  <2>2. first' + 1..Len(attempts') = {}
    BY <2>1
  <2>3. Done' = {}
    BY <2>1, SuiteFacts DEF Done, Pairs
  <2>4. first' \in Nat /\ first' <= Len(attempts')
    BY <2>1
  <2> QED
    BY <2>2, <2>3, <2>4, Zenon DEF Tour, Tours
<1>4. CASE Prepare
  BY <1>4, TourStays DEF Prepare
<1>5. CASE AgentReturns
  BY <1>5, TourStays DEF AgentReturns, Run
<1>6. CASE Grade
  BY <1>6, TourStays DEF Grade
<1>7. CASE CallDies
  BY <1>7 DEF CallDies, Tour
<1>8. CASE UNCHANGED vars
  BY <1>8, TourStays DEF vars
<1> QED
  BY <1>1, <1>2, <1>3, <1>4, <1>5, <1>6, <1>7, <1>8 DEF Next

-----------------------------------------------------------------------------
(* The rows of the report *)

\* All for or all against, or the count says so.
LEMMA Unanimous ==
  ASSUME NEW n, NEW v, Verdicts(v, n)
  PROVE  /\ Passes(v) \in 0..K
         /\ Passes(v) \in {0, K} => \A j, k \in DOMAIN v : v[j].passed = v[k].passed
<1> DEFINE yes == {j \in DOMAIN v : v[j].passed}
<1>1. /\ K \in Nat /\ DOMAIN v = 1..K /\ Passes(v) = Cardinality(yes) /\ yes \subseteq 1..K
      /\ \A j \in 1..K : v[j].passed \in BOOLEAN
  BY VerdictFacts DEF Passes
<1>2. IsFiniteSet(1..K) /\ Cardinality(1..K) = K
  BY <1>1, FS_Interval
<1>3. /\ IsFiniteSet(yes) /\ Cardinality(yes) <= K
      /\ Cardinality(yes) = K => yes = 1..K
  <2> HIDE DEF yes
  <2>1. yes \in SUBSET (1..K)
    BY <1>1
  <2>2. /\ IsFiniteSet(yes) /\ Cardinality(yes) <= Cardinality(1..K)
        /\ Cardinality(1..K) = Cardinality(yes) => 1..K = yes
    BY <1>2, <2>1, FS_Subset
  <2> QED
    BY <1>2, <2>2
<1>4. Cardinality(yes) \in Nat /\ (Cardinality(yes) = 0 => yes = {})
  <2> HIDE DEF yes
  <2> QED
    BY <1>3, FS_CardinalityType, FS_EmptySet
<1>5. Passes(v) \in 0..K
  <2> HIDE DEF yes
  <2> QED
    BY <1>1, <1>3, <1>4
<1>6. ASSUME Passes(v) \in {0, K}, NEW j \in DOMAIN v, NEW k \in DOMAIN v
      PROVE  v[j].passed = v[k].passed
  <2>1. CASE yes = {}
    <3>1. ~v[j].passed /\ ~v[k].passed
      BY <2>1
    <3> QED
      BY <1>1, <3>1
  <2>2. CASE yes = 1..K
    <3>1. v[j].passed /\ v[k].passed
      BY <1>1, <2>2
    <3> QED
      BY <1>1, <3>1
  <2> QED
    BY <1>1, <1>3, <1>4, <1>6, <2>1, <2>2
<1> QED
  BY <1>5, <1>6

\* The report has one attempt for every seed of a task.
LEMMA RowIsFull ==
  ASSUME Typed, Tour, pc = "over", NEW t \in DOMAIN Suite
  PROVE  IsFiniteSet(Of(Suite[t].id)) /\ Cardinality(Of(Suite[t].id)) = Repeats
<1> DEFINE own  == Of(Suite[t].id)
           seed == [i \in own |-> attempts[i].seed]
<1>1. Done = Pairs
  BY DEF Done
<1>2. own = {i \in first + 1..Len(attempts) : attempts[i].task = Suite[t].id}
  BY DEF Of
<1>3. \A i \in own : attempts[i].seed \in 1..Repeats
  <2> SUFFICES ASSUME NEW i \in own PROVE attempts[i].seed \in 1..Repeats
    OBVIOUS
  <2>1. PICK u \in DOMAIN Suite : <<u, attempts[i].seed>> \in Pairs
    BY <1>1, <1>2 DEF Tour, Tours
  <2> QED
    BY <2>1 DEF Pairs
<1>4. \A s \in 1..Repeats : \E i \in own : attempts[i].seed = s
  <2> SUFFICES ASSUME NEW s \in 1..Repeats PROVE \E i \in own : attempts[i].seed = s
    OBVIOUS
  <2>1. <<t, s>> \in Done
    BY <1>1 DEF Pairs
  <2>2. \E i \in first + 1..Len(attempts) :
          attempts[i].task = Suite[<<t, s>>[1]].id /\ attempts[i].seed = <<t, s>>[2]
    BY <2>1 DEF Tour, Tours
  <2>3. <<t, s>>[1] = t /\ <<t, s>>[2] = s
    OBVIOUS
  <2> QED
    BY <1>2, <2>2, <2>3
<1>5. \A i, j \in own : attempts[i].seed = attempts[j].seed => i = j
  BY <1>2 DEF Tour, Tours
<1> HIDE DEF own
<1>6. /\ seed \in [own -> 1..Repeats]
      /\ \A i, j \in own : seed[i] = seed[j] => i = j
      /\ \A s \in 1..Repeats : \E i \in own : seed[i] = s
  BY <1>3, <1>4, <1>5
<1> HIDE DEF seed
<1>7. seed \in Injection(own, 1..Repeats) /\ seed \in Surjection(own, 1..Repeats)
  BY <1>6 DEF Injection, Surjection, IsInjective
<1>8. Repeats \in Nat /\ IsFiniteSet(1..Repeats) /\ Cardinality(1..Repeats) = Repeats
  <2>1. 1 \in Int /\ Repeats \in Int /\ ~(1 > Repeats) /\ Repeats - 1 + 1 = Repeats
    BY EvaluationAssumption
  <2> QED
    BY <2>1, EvaluationAssumption, FS_Interval
<1>9. IsFiniteSet(own) /\ Cardinality(own) = Cardinality(1..Repeats)
  BY <1>7, <1>8, FS_Injection
<1> QED
  BY <1>8, <1>9 DEF own

LEMMA PassesAndErrors ==
  ASSUME Typed, Tour, AllOwn, pc = "over", NEW t \in DOMAIN Suite
  PROVE  Row(Suite[t].id).passes + Row(Suite[t].id).errors <= Repeats
<1> DEFINE own    == Of(Suite[t].id)
           passes == {i \in own : attempts[i].passed}
           errors == {i \in own : attempts[i].error}
<1>1. \A i \in own : i \in 1..Len(attempts)
  <2>1. Len(attempts) \in Nat /\ first \in Nat
    BY AppendToList DEF Typed, Tour, Tours
  <2> QED
    BY <2>1 DEF Of
<1>2. passes \cap errors = {}
  BY <1>1 DEF AllOwn, OwnJudgments
<1>3. passes \subseteq own /\ errors \subseteq own /\ passes \cup errors \subseteq own
  OBVIOUS
<1>4. /\ Row(Suite[t].id).passes = Cardinality(passes)
      /\ Row(Suite[t].id).errors = Cardinality(errors)
  BY DEF Row
<1> HIDE DEF own, passes, errors
<1>5. IsFiniteSet(own) /\ Cardinality(own) = Repeats
  BY RowIsFull DEF own
<1>6. /\ IsFiniteSet(passes) /\ IsFiniteSet(errors)
      /\ Cardinality(passes \cup errors) <= Repeats
  BY <1>3, <1>5, FS_Subset
<1>7. Cardinality(passes \cup errors) = Cardinality(passes) + Cardinality(errors) - 0
  <2>1. Cardinality(passes \cap errors) = 0
    BY <1>2, FS_EmptySet
  <2> QED
    BY <1>6, <2>1, FS_Union
<1>8. Cardinality(passes) \in Nat /\ Cardinality(errors) \in Nat
  BY <1>6, FS_CardinalityType
<1> QED
  BY <1>4, <1>6, <1>7, <1>8

\* One attempt with a divided judge brings the mean below 0.99.
LEMMA DividedShows ==
  ASSUME Typed, Tour, AllOwn, FewSeeds, pc = "over", NEW t \in DOMAIN Suite,
         Row(Suite[t].id).reliable, NEW i \in Of(Suite[t].id), attempts[i].judgments # <<>>
  PROVE  Passes(attempts[i].judgments) \in {0, K}
<1> DEFINE own   == Of(Suite[t].id)
           rated == {j \in own : attempts[j].judgments # <<>>}
           v     == attempts[i].judgments
           p     == Passes(v)
           h     == Agreement(v)
           short == {i} \X (h + 1..100)
<1>1. i \in 1..Len(attempts)
  <2>1. Len(attempts) \in Nat /\ first \in Nat
    BY AppendToList DEF Typed, Tour, Tours
  <2> QED
    BY <2>1 DEF Of
<1>2. Verdicts(v, i)
  BY <1>1 DEF AllOwn, OwnJudgments
<1>3. K \in Nat /\ K > 0 /\ Len(v) = K /\ p \in 0..K
  <2> HIDE DEF v
  <2> QED
    BY <1>2, VerdictFacts, Unanimous
<1>4. h = Hundredths[Max({p, K - p})]
  BY <1>3 DEF Agreement
<1> HIDE DEF v, p, h
<1>5. SUFFICES ASSUME p \in 1..K - 1 PROVE FALSE
  BY <1>3 DEF p, v
<1>6. Repeats \in Nat /\ h + Repeats < 100
  BY <1>4, <1>5, SuiteFacts DEF FewSeeds
<1>7. h \in Nat
  <2>1. \E x \in {p, K - p} : \A y \in {p, K - p} : x >= y
    BY <1>3, <1>5
  <2>2. Max({p, K - p}) \in {p, K - p}
    BY <2>1, Zenon DEF Max
  <2>3. p \in 0..K /\ K - p \in 0..K
    BY <1>3, <1>5
  <2>4. PICK m \in 0..K : m = Max({p, K - p})
    BY <2>2, <2>3
  <2>5. h = Hundredths[m] /\ Hundredths[m] \in 0..100
    BY <1>4, <2>4, NearestAssumption
  <2>6. \A x \in 0..100 : x \in Nat
    OBVIOUS
  <2> QED
    BY <2>5, <2>6, Zenon
<1>8. IsFiniteSet(own) /\ Cardinality(own) = Repeats
  BY RowIsFull
<1>9. rated \subseteq own /\ i \in rated
  BY DEF v
<1>10. Cardinality(Lack(rated)) <= Cardinality(rated)
  BY DEF Row
<1>11. /\ Lack(rated) \subseteq rated \X (1..100)
       /\ \A u \in h + 1..100 : <<i, u>> \in Lack(rated)
  <2> HIDE DEF rated
  <2>1. Lack(rated) \subseteq rated \X (1..100)
    BY DEF Lack
  <2>2. ASSUME NEW u \in h + 1..100
        PROVE  <<i, u>> \in Lack(rated)
    <3>1. u \in 1..100 /\ u > h
      BY <1>7
    <3>2. <<i, u>> \in rated \X (1..100) /\ <<i, u>>[2] > Agreement(attempts[<<i, u>>[1]].judgments)
      BY <1>9, <3>1 DEF h, v
    <3> QED
      BY <3>2 DEF Lack
  <2> QED
    BY <2>1, <2>2
<1>12. short \subseteq Lack(rated)
  BY <1>11
<1> HIDE DEF own, rated
<1>13. IsFiniteSet(rated) /\ Cardinality(rated) <= Repeats /\ Cardinality(rated) \in Nat
  BY <1>8, <1>9, FS_Subset, FS_CardinalityType
<1>14. IsFiniteSet(Lack(rated)) /\ Cardinality(Lack(rated)) \in Nat
  <2>1. IsFiniteSet(1..100)
    <3>1. 1 \in Int /\ 100 \in Int
      OBVIOUS
    <3> QED
      BY <3>1, FS_Interval, Zenon
  <2>2. IsFiniteSet(rated \X (1..100))
    BY <1>13, <2>1, FS_Product
  <2>3. IsFiniteSet(Lack(rated))
    BY <1>11, <2>2, FS_Subset
  <2> QED
    BY <2>3, FS_CardinalityType
<1>15. Cardinality(short) = 100 - h
  <2>1. IsFiniteSet(h + 1..100) /\ Cardinality(h + 1..100) = 100 - h
    <3>1. h + 1 \in Int /\ 100 \in Int /\ ~(h + 1 > 100) /\ 100 - (h + 1) + 1 = 100 - h
      BY <1>6, <1>7
    <3> QED
      BY <3>1, FS_Interval
  <2>2. IsFiniteSet({i}) /\ Cardinality({i}) = 1
    BY FS_Singleton
  <2>3. Cardinality(short) = Cardinality({i}) * Cardinality(h + 1..100)
    <3> DEFINE S == {i}
               T == h + 1..100
    <3>1. IsFiniteSet(S) /\ IsFiniteSet(T)
      BY <2>1, <2>2
    <3> HIDE DEF S, T
    <3>2. Cardinality(S \X T) = Cardinality(S) * Cardinality(T)
      BY <3>1, FS_Product
    <3> QED
      BY <3>2 DEF S, T
  <2>4. 1 * (100 - h) = 100 - h
    BY <1>7
  <2> QED
    BY <2>1, <2>2, <2>3, <2>4
<1>16. Cardinality(short) <= Cardinality(Lack(rated))
  <2> HIDE DEF short
  <2> QED
    BY <1>12, <1>14, FS_Subset
<1> QED
  BY <1>6, <1>7, <1>10, <1>13, <1>14, <1>15, <1>16

LEMMA Audits == Typed /\ Tour /\ AllOwn => JudgmentsAreOwn
<1> SUFFICES ASSUME Typed, Tour, AllOwn PROVE JudgmentsAreOwn
  OBVIOUS
<1>1. ASSUME NEW i \in DOMAIN attempts, attempts[i].judgments # <<>>
      PROVE  /\ Len(attempts[i].judgments) = K
             /\ \A j \in 1..K : attempts[i].judgments[j].of = i
             /\ attempts[i].passed => Majority(attempts[i].judgments)
  <2>1. DOMAIN attempts = 1..Len(attempts)
    BY AppendToList DEF Typed
  <2>2. /\ Verdicts(attempts[i].judgments, i)
        /\ attempts[i].passed => Majority(attempts[i].judgments)
    BY <1>1, <2>1 DEF AllOwn, OwnJudgments
  <2> QED
    BY <2>2, VerdictFacts
<1>2. ASSUME pc = "over", NEW t \in DOMAIN Suite
      PROVE  /\ Row(Suite[t].id).attempts = Repeats
             /\ Row(Suite[t].id).passes + Row(Suite[t].id).errors <= Repeats
             /\ FewSeeds /\ Row(Suite[t].id).reliable => \A i \in Of(Suite[t].id) :
                  \A j, k \in DOMAIN attempts[i].judgments :
                    attempts[i].judgments[j].passed = attempts[i].judgments[k].passed
  <2>1. Row(Suite[t].id).attempts = Repeats
    BY <1>2, RowIsFull DEF Row
  <2>2. Row(Suite[t].id).passes + Row(Suite[t].id).errors <= Repeats
    BY <1>2, PassesAndErrors
  <2>3. ASSUME FewSeeds, Row(Suite[t].id).reliable, NEW i \in Of(Suite[t].id),
               NEW j \in DOMAIN attempts[i].judgments, NEW k \in DOMAIN attempts[i].judgments
        PROVE  attempts[i].judgments[j].passed = attempts[i].judgments[k].passed
    <3>1. attempts[i].judgments # <<>>
      BY <2>3
    <3>2. Passes(attempts[i].judgments) \in {0, K}
      BY <1>2, <2>3, <3>1, DividedShows
    <3>3. i \in 1..Len(attempts)
      <4>1. Len(attempts) \in Nat /\ first \in Nat
        BY AppendToList DEF Typed, Tour, Tours
      <4> QED
        BY <2>3, <4>1 DEF Of
    <3>4. Verdicts(attempts[i].judgments, i)
      BY <3>1, <3>3 DEF AllOwn, OwnJudgments
    <3> QED
      BY <2>3, <3>2, <3>4, Unanimous
  <2> QED
    BY <2>1, <2>2, <2>3
<1> QED
  BY <1>1, <1>2 DEF JudgmentsAreOwn

\* For every suite, any judges shared among its tasks, every number of seeds and of calls:
\* what an attempt carries is what was judged of it, and the report of a call has every
\* seed of every task once (runner.py:104-112, 122-147, graders.py:194-209, report.py:36-62).
THEOREM JudgmentsAreOwnHolds == Spec => []JudgmentsAreOwn
<1>1. IInv => Typed
  BY DEF IInv
<1>2. HInv => AllOwn
  BY DEF HInv
<1> QED
  BY <1>1, <1>2, InitInv, NextInv, HeardInit, HeardNext, TourInit, TourNext, Audits, PTL DEF Spec
=============================================================================
