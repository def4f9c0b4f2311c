----------------------------- MODULE FanOutProofs -----------------------------
(***************************************************************************)
(* Proofs about FanOut, for every plan and any labels at every level: a    *)
(* child that fails is a result like another, and, nine runs deep, a token *)
(* paid for is counted once.                                               *)
(***************************************************************************)
EXTENDS FanOut, SequenceTheorems, WellFoundedInduction, TLAPS

-----------------------------------------------------------------------------
(* Lists of whatever, and a stack by its top *)

IsList(s) == \E S : s \in Seq(S)

LEMMA ListFacts ==
  ASSUME NEW s, IsList(s)
  PROVE  /\ Len(s) \in Nat /\ DOMAIN s = 1..Len(s)
         /\ s = <<>> <=> Len(s) = 0
  BY DEF IsList

\* t is s with e at its end; t is s with x in place of its last element.
Grown(t, s, e) == t = Append(s, e)
Changed(t, s, x) == t = Front(s) \o <<x>>

LEMMA Appended ==
  ASSUME NEW s, NEW e, NEW t, IsList(s), Grown(t, s, e)
  PROVE  /\ IsList(t) /\ Len(t) = Len(s) + 1 /\ t[Len(s) + 1] = e
         /\ \A i \in 1..Len(s) : t[i] = s[i]
  <1>1. PICK S : s \in Seq(S)
    BY DEF IsList
  <1> DEFINE T == S \cup {e}
  <1>2. s \in Seq(T) /\ e \in T
    BY <1>1
  <1> HIDE DEF T
  <1>3. t \in Seq(T) /\ t = Append(s, e)
    BY <1>2 DEF Grown
  <1>4. IsList(t)
    BY <1>3 DEF IsList
  <1>5. QED
    BY <1>2, <1>3, <1>4

LEMMA Popped ==
  ASSUME NEW s, IsList(s), Len(s) >= 1, NEW t, t = Front(s)
  PROVE  /\ IsList(t) /\ Len(t) = Len(s) - 1
         /\ \A i \in 1..Len(s) - 1 : t[i] = s[i]
  <1>1. PICK S : s \in Seq(S)
    BY DEF IsList
  <1>2. PICK n \in Nat : n = Len(s) - 1
    BY <1>1
  <1>3. t = SubSeq(s, 1, n) /\ \A i \in 1..n : s[i] \in S
    BY <1>1, <1>2 DEF Front
  <1>4. /\ t \in Seq(S)
        /\ Len(t) = IF 1 <= n THEN n - 1 + 1 ELSE 0
        /\ \A i \in 1..n - 1 + 1 : t[i] = s[1 + i - 1]
    <2>1. 1 \in Int /\ n \in Int
      BY <1>2
    <2>2. QED
      BY <1>3, <2>1, SubSeqProperties
  <1>5. Len(t) = n
    BY <1>2, <1>4
  <1>6. \A i \in 1..n : t[i] = s[i]
    <2>1. n - 1 + 1 = n /\ \A i \in 1..n : 1 + i - 1 = i
      BY <1>2
    <2>2. QED
      BY <1>4, <2>1
  <1>7. QED
    BY <1>2, <1>4, <1>5, <1>6 DEF IsList

LEMMA TopReplaced ==
  ASSUME NEW s, NEW x, NEW t, IsList(s), Len(s) >= 1, Changed(t, s, x)
  PROVE  /\ IsList(t) /\ Len(t) = Len(s) /\ t[Len(s)] = x
         /\ \A i \in 1..Len(s) - 1 : t[i] = s[i]
  <1> DEFINE f == Front(s)
  <1>1. IsList(f) /\ Len(f) = Len(s) - 1 /\ (\A i \in 1..Len(s) - 1 : f[i] = s[i])
    BY Popped
  <1>2. t = f \o <<x>> /\ Len(s) \in Nat
    BY ListFacts DEF Changed
  <1> HIDE DEF f
  <1>3. PICK S : f \in Seq(S)
    BY <1>1 DEF IsList
  <1> DEFINE T == S \cup {x}
  <1>4. f \in Seq(T) /\ x \in T
    BY <1>3
  <1> HIDE DEF T
  <1>5. /\ t \in Seq(T) /\ Len(t) = Len(f) + 1 /\ t[Len(f) + 1] = x
        /\ \A i \in 1..Len(f) : t[i] = f[i]
    <2> DEFINE u == <<x>>
    <2>1. u \in Seq(T) /\ Len(u) = 1 /\ u[1] = x
      BY <1>4
    <2>2. t = f \o u
      BY <1>2
    <2> HIDE DEF u
    <2>3. /\ t \in Seq(T) /\ Len(t) = Len(f) + Len(u)
          /\ \A i \in 1..Len(f) + Len(u) : t[i] = IF i <= Len(f) THEN f[i] ELSE u[i - Len(f)]
      <3>1. /\ f \o u \in Seq(T) /\ Len(f \o u) = Len(f) + Len(u)
            /\ \A i \in 1..Len(f) + Len(u) :
                 (f \o u)[i] = IF i <= Len(f) THEN f[i] ELSE u[i - Len(f)]
        BY <1>4, <2>1, ConcatProperties
      <3>2. QED
        BY <2>2, <3>1, Zenon
    <2>4. PICK n \in Nat : n = Len(f)
      BY <1>4
    <2>5. QED
      BY <2>1, <2>3, <2>4
  <1>6. IsList(t)
    BY <1>5 DEF IsList
  <1>7. QED
    BY <1>1, <1>2, <1>5, <1>6

LEMMA Tailed ==
  ASSUME NEW s, IsList(s), Len(s) >= 1
  PROVE  /\ IsList(Tail(s)) /\ Len(Tail(s)) = Len(s) - 1 /\ Head(s) = s[1]
         /\ \A i \in 1..Len(s) - 1 : Tail(s)[i] = s[i + 1]
  <1>1. PICK S : s \in Seq(S)
    BY DEF IsList
  <1>2. Tail(s) \in Seq(S)
    BY <1>1
  <1>3. QED
    BY <1>1, <1>2 DEF IsList

-----------------------------------------------------------------------------
(* The invariant *)

IsRun(r) == r = [tape |-> r.tape, n |-> r.n, steps |-> r.steps]

Typed ==
  /\ IsList(plan) /\ IsList(todo) /\ IsList(stack) /\ IsList(results) /\ IsList(used)
  /\ Len(stack) >= 1 /\ Len(todo) <= Len(plan)
  /\ \A i \in 1..Len(stack) : IsRun(stack[i]) /\ stack[i].tape \in DOMAIN tapes
  /\ tapes = [name \in DOMAIN tapes |-> tapes[name]]
  /\ IsList(tapes[ParentTape])

\* The script is at the bottom, its children have been given their names, and the one it
\* waits for has the label of the task that was handed out last.
Placed ==
  /\ stack[1].tape = ParentTape
  /\ \A i \in 2..Len(stack) : stack[i].tape \in Range(used)
  /\ \A i \in 1..Len(todo) : todo[i] = plan[Len(plan) - Len(todo) + i]
  /\ Len(stack) > 1 =>
       /\ Len(todo) < Len(plan)
       /\ plan[Len(plan) - Len(todo)] # "" => stack[2].tape = plan[Len(plan) - Len(todo)]
  /\ pc = "done" => Len(todo) = 0 /\ Len(stack) = 1

\* The tasks that have an outcome.
Begun == Len(plan) - Len(todo) - (IF Len(stack) = 1 THEN 0 ELSE 1)

\* What fan_out has, and what the script's tape says of it.
OnTape(rs) == [i \in 1..Len(rs) |-> Subagent(rs[i].label, rs[i].ok)]

Counted ==
  /\ Len(results) = Begun
  /\ ParentTape \notin Range(used) => tapes[ParentTape] = OnTape(results)
  /\ \A i \in 1..Len(results) : plan[i] # "" => results[i].label = plan[i]

FInv == Typed /\ Placed /\ Counted

LEMMA Local == FInv => FailureIsLocal
  <1> SUFFICES ASSUME FInv PROVE FailureIsLocal
    OBVIOUS
  <1>1. DOMAIN results = 1..Len(results) /\ Len(plan) \in Nat /\ Len(todo) \in Nat
    BY ListFacts DEF FInv, Typed
  <1>2. OnTape(results) = [i \in DOMAIN results |-> Subagent(results[i].label, results[i].ok)]
    BY <1>1 DEF OnTape
  <1>3. pc = "done" => Len(results) = Len(plan)
    <2>1. Len(results) = Begun /\ (pc = "done" => Len(todo) = 0 /\ Len(stack) = 1)
      BY DEF FInv, Placed, Counted
    <2>2. Len(todo) = 0 /\ Len(stack) = 1 => Begun = Len(plan)
      BY <1>1 DEF Begun
    <2>3. QED
      BY <2>1, <2>2
  <1>4. QED
    BY <1>1, <1>2, <1>3 DEF FInv, Counted, Begun, FailureIsLocal, Script

LEMMA FanOutInit == Init => FInv
  <1> SUFFICES ASSUME Init PROVE FInv
    OBVIOUS
  <1>1. /\ plan \in Seq(Range(plan)) /\ todo = plan /\ used = <<>> /\ results = <<>>
        /\ stack = <<NewRun(ParentTape)>> /\ pc = "running" /\ tapes = [name \in {ParentTape} |-> <<>>]
    BY PlansAssumption DEF Init
  <1>3. IsRun(NewRun(ParentTape)) /\ NewRun(ParentTape).tape = ParentTape
    BY DEF IsRun, NewRun
  <1>4. IsList(plan) /\ IsList(todo)
    BY <1>1 DEF IsList
  <1>5. IsList(<<>>) /\ Len(<<>>) = 0
    <2>1. <<>> \in Seq({})
      OBVIOUS
    <2>2. QED
      BY <2>1 DEF IsList
  <1>6. IsList(stack) /\ Len(stack) = 1 /\ stack[1] = NewRun(ParentTape)
    <2>1. stack \in Seq({NewRun(ParentTape)})
      BY <1>1
    <2>2. QED
      BY <1>1, <2>1 DEF IsList
  <1>7. Typed
    BY <1>1, <1>3, <1>4, <1>5, <1>6, ListFacts DEF Typed
  <1>8. Placed
    BY <1>1, <1>3, <1>4, <1>6, ListFacts DEF Placed
  <1>9. Counted
    <2>1. OnTape(<<>>) = <<>>
      BY <1>5 DEF OnTape
    <2>2. Len(plan) \in Nat /\ Len(todo) = Len(plan) /\ Len(plan) - Len(plan) - 0 = 0
      BY <1>1, <1>4, ListFacts
    <2>3. Begun = 0
      BY <1>6, <2>2 DEF Begun
    <2>4. QED
      BY <1>1, <1>5, <2>1, <2>3 DEF Counted
  <1>10. QED
    BY <1>7, <1>8, <1>9 DEF FInv

-----------------------------------------------------------------------------
(* What the operations do to the stack *)

LEMMA TopIsARun ==
  ASSUME Typed
  PROVE  /\ Len(stack) \in Nat /\ Top = stack[Len(stack)] /\ IsRun(Top) /\ Top.tape \in DOMAIN tapes
  <1>1. Len(stack) \in Nat /\ Len(stack) >= 1
    BY ListFacts DEF Typed
  <1>2. QED
    BY <1>1 DEF Typed, Top, Last

\* The run on top goes on under its name.
LEMMA Retopped ==
  ASSUME Typed, NEW top, IsRun(top), top.tape = Top.tape, NEW t, Changed(t, stack, top)
  PROVE  /\ IsList(t) /\ Len(t) = Len(stack)
         /\ \A i \in 1..Len(stack) : IsRun(t[i]) /\ t[i].tape = stack[i].tape
  <1>1. /\ IsList(t) /\ Len(t) = Len(stack) /\ t[Len(stack)] = top
        /\ \A i \in 1..Len(stack) - 1 : t[i] = stack[i]
    BY TopReplaced DEF Typed
  <1>2. \A i \in 1..Len(stack) : i \in 1..Len(stack) - 1 \/ i = Len(stack)
    BY TopIsARun
  <1>3. \A i \in 1..Len(stack) : IsRun(stack[i])
    BY DEF Typed
  <1>4. QED
    BY <1>1, <1>2, <1>3, TopIsARun

\* Its counters are no part of its name.
LEMMA SameRun ==
  ASSUME Typed
  PROVE  /\ LET r == [Top EXCEPT !.n = @ + 1] IN IsRun(r) /\ r.tape = Top.tape
         /\ LET r == [Top EXCEPT !.steps = @ + 1] IN IsRun(r) /\ r.tape = Top.tape
  <1>1. PICK name, n, steps : Top = [tape |-> name, n |-> n, steps |-> steps]
    BY TopIsARun DEF IsRun
  <1>2. [Top EXCEPT !.steps = @ + 1] = [tape |-> name, n |-> n, steps |-> steps + 1]
    BY <1>1
  <1>3. [Top EXCEPT !.n = @ + 1] = [tape |-> name, n |-> n + 1, steps |-> steps]
    BY <1>1
  <1>4. Top.tape = name
    BY <1>1
  <1>5. QED
    BY <1>2, <1>3, <1>4 DEF IsRun

\* A new child is on top of its caller, has a tape, and its name is used.
LEMMA ChildFacts ==
  ASSUME Typed, NEW label, Child(label)
  PROVE  /\ IsList(stack') /\ Len(stack') = Len(stack) + 1
         /\ \A i \in 1..Len(stack) : IsRun(stack'[i]) /\ stack'[i].tape = stack[i].tape
         /\ IsRun(stack'[Len(stack) + 1])
         /\ stack'[Len(stack) + 1].tape = Name(label, Top.n)
         /\ IsList(used')
         /\ Range(used) \subseteq Range(used') /\ Name(label, Top.n) \in Range(used')
         /\ tapes' = [t \in DOMAIN tapes' |-> tapes'[t]]
         /\ DOMAIN tapes' = DOMAIN tapes \cup {Name(label, Top.n)}
         /\ \A t \in DOMAIN tapes : tapes'[t] = tapes[t]
  <1> DEFINE name   == Name(label, Top.n)
             caller == [Top EXCEPT !.n = @ + 1]
             under  == Front(stack) \o <<caller>>
  <1>1. /\ stack' = Append(under, NewRun(name)) /\ used' = Append(used, name)
        /\ tapes' = [t \in DOMAIN tapes \cup {name} |-> On(t)]
    BY DEF Child
  <1>2. IsRun(caller) /\ caller.tape = Top.tape
    BY SameRun
  <1> HIDE DEF caller
  <1>3. /\ IsList(under) /\ Len(under) = Len(stack)
        /\ \A i \in 1..Len(stack) : IsRun(under[i]) /\ under[i].tape = stack[i].tape
    <2>1. Changed(under, stack, caller)
      BY DEF Changed
    <2> HIDE DEF under
    <2>2. QED
      BY <1>2, <2>1, Retopped
  <1> HIDE DEF under, name
  <1>a. Grown(stack', under, NewRun(name)) /\ Grown(used', used, name)
    BY <1>1 DEF Grown
  <1>4. /\ IsList(stack') /\ Len(stack') = Len(under) + 1 /\ stack'[Len(under) + 1] = NewRun(name)
        /\ \A i \in 1..Len(under) : stack'[i] = under[i]
    BY <1>a, <1>3, Appended
  <1>5. /\ IsList(used') /\ Len(used') = Len(used) + 1 /\ used'[Len(used) + 1] = name
        /\ \A i \in 1..Len(used) : used'[i] = used[i]
    BY <1>a, Appended DEF Typed
  <1>6. IsRun(NewRun(name)) /\ NewRun(name).tape = name
    BY DEF IsRun, NewRun
  <1>7. Range(used) \subseteq Range(used') /\ name \in Range(used')
    <2>1. PICK n \in Nat : n = Len(used)
      BY ListFacts DEF Typed
    <2>2. DOMAIN used = 1..n /\ DOMAIN used' = 1..n + 1
      BY <1>5, <2>1, ListFacts DEF Typed
    <2>3. QED
      BY <1>5, <2>1, <2>2 DEF Range
  <1>8. \A t \in DOMAIN tapes : tapes'[t] = tapes[t]
    BY <1>1 DEF On
  <1>9. /\ DOMAIN tapes' = DOMAIN tapes \cup {name}
        /\ tapes' = [t \in DOMAIN tapes' |-> tapes'[t]]
    BY <1>1
  <1>10. QED
    BY <1>3, <1>4, <1>5, <1>6, <1>7, <1>8, <1>9 DEF name

-----------------------------------------------------------------------------
(* The steps *)

\* A step that leaves the tasks, the outcomes and the script's tape alone.
LEMMA OtherwiseKept ==
  ASSUME FInv, UNCHANGED <<plan, todo, results, used>>,
         IsList(stack'), Len(stack') = Len(stack),
         \A i \in 1..Len(stack) : IsRun(stack'[i]) /\ stack'[i].tape = stack[i].tape,
         tapes' = [name \in DOMAIN tapes' |-> tapes'[name]], DOMAIN tapes' = DOMAIN tapes,
         IsList(tapes'[ParentTape]),
         ParentTape \notin Range(used) => tapes'[ParentTape] = tapes[ParentTape],
         pc' = "done" => Len(todo) = 0 /\ Len(stack) = 1
  PROVE  FInv'
  <1>1. /\ plan' = plan /\ todo' = todo /\ results' = results /\ used' = used
        /\ Len(stack) \in Nat /\ Len(stack) >= 1
    BY ListFacts DEF FInv, Typed
  <1>2. Typed'
    BY <1>1 DEF FInv, Typed
  <1>3. Placed'
    <2>1. Len(stack) > 1 => 2 \in 1..Len(stack)
      BY <1>1
    <2>2. 1 \in 1..Len(stack) /\ \A i \in 2..Len(stack) : i \in 1..Len(stack)
      BY <1>1
    <2>3. QED
      BY <1>1, <2>1, <2>2 DEF FInv, Placed
  <1>4. Begun' = Begun
    BY <1>1 DEF Begun
  <1>5. Counted'
    BY <1>1, <1>4 DEF FInv, Counted, OnTape
  <1>6. QED
    BY <1>2, <1>3, <1>5 DEF FInv

LEMMA FanOutKeeps ==
  ASSUME FInv, FanOut
  PROVE  FInv'
  <1> DEFINE label == Head(todo)
             name  == Name(label, Top.n)
  <1>1. /\ pc = "running" /\ pc' = pc /\ Len(stack) = 1 /\ todo # <<>> /\ todo' = Tail(todo)
        /\ Child(label) /\ plan' = plan /\ results' = results
    BY DEF FanOut, Script
  <1>2. PICK n \in Nat, m \in Nat : n = Len(plan) /\ m = Len(todo)
    BY ListFacts DEF FInv, Typed
  <1>3. /\ m >= 1 /\ m <= n /\ IsList(todo') /\ Len(todo') = m - 1 /\ label = todo[1]
        /\ \A i \in 1..m - 1 : todo'[i] = todo[i + 1]
    BY <1>1, <1>2, ListFacts, Tailed DEF FInv, Typed
  <1>4. \A i \in 1..m : todo[i] = plan[n - m + i]
    BY <1>2 DEF FInv, Placed
  <1> HIDE DEF label
  <1>5. /\ IsList(stack') /\ Len(stack') = 2
        /\ IsRun(stack'[1]) /\ stack'[1].tape = stack[1].tape
        /\ IsRun(stack'[2]) /\ stack'[2].tape = name
        /\ IsList(used') /\ Range(used) \subseteq Range(used') /\ name \in Range(used')
        /\ tapes' = [t \in DOMAIN tapes' |-> tapes'[t]]
        /\ DOMAIN tapes' = DOMAIN tapes \cup {name}
        /\ \A t \in DOMAIN tapes : tapes'[t] = tapes[t]
    <2>1. /\ IsList(stack') /\ Len(stack') = Len(stack) + 1
          /\ \A i \in 1..Len(stack) : IsRun(stack'[i]) /\ stack'[i].tape = stack[i].tape
          /\ IsRun(stack'[Len(stack) + 1]) /\ stack'[Len(stack) + 1].tape = name
          /\ IsList(used') /\ Range(used) \subseteq Range(used') /\ name \in Range(used')
          /\ tapes' = [t \in DOMAIN tapes' |-> tapes'[t]]
          /\ DOMAIN tapes' = DOMAIN tapes \cup {name}
          /\ \A t \in DOMAIN tapes : tapes'[t] = tapes[t]
      BY <1>1, ChildFacts DEF FInv
    <2>2. Len(stack) = 1 /\ 1 + 1 = 2 /\ 1 \in 1..1
      BY <1>1
    <2>3. QED
      BY <2>1, <2>2
  <1>6. label # "" => name = label
    BY DEF Name
  <1> HIDE DEF name
  <1>7. stack[1].tape = ParentTape /\ ParentTape \in DOMAIN tapes
    BY <1>1 DEF FInv, Typed, Placed
  <1>8. Typed'
    <2>1. \A i \in 1..Len(stack') : i = 1 \/ i = 2
      BY <1>5
    <2>2. Len(todo') <= Len(plan') /\ Len(stack') >= 1
      BY <1>1, <1>2, <1>3, <1>5
    <2>3. QED
      BY <1>1, <1>3, <1>5, <1>7, <2>1, <2>2 DEF FInv, Typed
  <1>9. Placed'
    <2>1. \A i \in 2..Len(stack') : i = 2
      BY <1>5
    <2>2. \A i \in 1..m - 1 : todo'[i] = plan[n - (m - 1) + i]
      <3>1. \A i \in 1..m - 1 : i + 1 \in 1..m /\ n - m + (i + 1) = n - (m - 1) + i
        BY <1>3
      <3>2. QED
        BY <1>3, <1>4, <3>1
    <2>3. plan[n - (m - 1)] = label /\ m - 1 < n
      <3>1. 1 \in 1..m /\ n - m + 1 = n - (m - 1) /\ m - 1 < n
        BY <1>3
      <3>2. QED
        BY <1>3, <1>4, <3>1
    <2>4. QED
      BY <1>1, <1>2, <1>3, <1>5, <1>6, <1>7, <2>1, <2>2, <2>3 DEF Placed
  <1>10. Begun' = Begun
    BY <1>1, <1>2, <1>3, <1>5 DEF Begun
  <1>11. Counted'
    BY <1>1, <1>5, <1>7, <1>10 DEF FInv, Counted, OnTape
  <1>12. QED
    BY <1>8, <1>9, <1>11 DEF FInv

LEMMA DelegateKeeps ==
  ASSUME FInv, Delegate
  PROVE  FInv'
  <1>1. PICK label : Child(label)
    BY DEF Delegate
  <1> DEFINE name == Name(label, Top.n)
  <1>2. /\ pc' = "running" /\ plan' = plan /\ todo' = todo /\ results' = results /\ Len(stack) # 1
    BY DEF Delegate, Delegates, Script
  <1>3. PICK n \in Nat : n = Len(stack) /\ n > 1
    <2>1. PICK n \in Nat : n = Len(stack)
      BY ListFacts DEF FInv, Typed
    <2>2. n >= 1 /\ n # 1
      BY <1>2, <2>1 DEF FInv, Typed
    <2>3. QED
      BY <2>1, <2>2
  <1>4. /\ IsList(stack') /\ Len(stack') = n + 1
        /\ \A i \in 1..n : IsRun(stack'[i]) /\ stack'[i].tape = stack[i].tape
        /\ IsRun(stack'[n + 1]) /\ stack'[n + 1].tape = name
        /\ IsList(used') /\ Range(used) \subseteq Range(used') /\ name \in Range(used')
        /\ tapes' = [t \in DOMAIN tapes' |-> tapes'[t]]
        /\ DOMAIN tapes' = DOMAIN tapes \cup {name}
        /\ \A t \in DOMAIN tapes : tapes'[t] = tapes[t]
    BY <1>1, <1>3, ChildFacts DEF FInv
  <1> HIDE DEF name
  <1>5. /\ 1 \in 1..n /\ 2 \in 1..n /\ \A i \in 1..n + 1 : i \in 1..n \/ i = n + 1
        /\ \A i \in 2..n + 1 : i \in 2..n \/ i = n + 1
        /\ \A i \in 2..n : i \in 1..n
    BY <1>3
  <1>6. stack[1].tape = ParentTape /\ ParentTape \in DOMAIN tapes
    BY <1>3, <1>5 DEF FInv, Typed, Placed
  <1>7. Typed'
    BY <1>2, <1>3, <1>4, <1>5, <1>6 DEF FInv, Typed
  <1>8. Placed'
    <2>1. \A i \in 2..n + 1 : stack'[i].tape \in Range(used')
      BY <1>3, <1>4, <1>5 DEF FInv, Placed
    <2>2. QED
      BY <1>2, <1>3, <1>4, <1>5, <1>6, <2>1 DEF FInv, Placed
  <1>9. Begun' = Begun
    BY <1>2, <1>3, <1>4 DEF Begun
  <1>10. Counted'
    BY <1>2, <1>4, <1>6, <1>9 DEF FInv, Counted, OnTape
  <1>11. QED
    BY <1>7, <1>8, <1>10 DEF FInv

LEMMA NoChildKeeps ==
  ASSUME FInv, NoChild, UNCHANGED <<plan, todo, tapes, results, used>>, pc' # "done"
  PROVE  FInv'
  <1> DEFINE caller == [Top EXCEPT !.n = @ + 1]
  <1>1. IsRun(caller) /\ caller.tape = Top.tape /\ Changed(stack', stack, caller)
    BY SameRun DEF FInv, NoChild, Changed
  <1> HIDE DEF caller
  <1>2. /\ IsList(stack') /\ Len(stack') = Len(stack)
        /\ \A i \in 1..Len(stack) : IsRun(stack'[i]) /\ stack'[i].tape = stack[i].tape
    BY <1>1, Retopped DEF FInv
  <1>3. /\ tapes' = [name \in DOMAIN tapes' |-> tapes'[name]] /\ IsList(tapes'[ParentTape])
    BY DEF FInv, Typed
  <1>4. QED
    BY <1>2, <1>3, OtherwiseKept

\* A child works on its own tape.
LEMMA WorkKeeps ==
  ASSUME FInv, Work
  PROVE  FInv'
  <1> DEFINE top == [Top EXCEPT !.steps = @ + 1]
  <1>1. /\ pc' = "running" /\ Len(stack) # 1 /\ stack' = Front(stack) \o <<top>>
        /\ tapes' = [tapes EXCEPT ![Top.tape] = Append(@, StepRecord)]
        /\ UNCHANGED <<plan, todo, results, used>>
    BY DEF Work, Script
  <1>2. IsRun(top) /\ top.tape = Top.tape
    BY SameRun DEF FInv
  <1> HIDE DEF top
  <1>3. /\ IsList(stack') /\ Len(stack') = Len(stack)
        /\ \A i \in 1..Len(stack) : IsRun(stack'[i]) /\ stack'[i].tape = stack[i].tape
    BY <1>1, <1>2, Retopped DEF FInv, Changed
  <1>0. PICK n \in Nat : n = Len(stack) /\ n >= 2
    <2>1. PICK n \in Nat : n = Len(stack)
      BY ListFacts DEF FInv, Typed
    <2>2. n >= 1 /\ n # 1
      BY <1>1, <2>1 DEF FInv, Typed
    <2>3. QED
      BY <2>1, <2>2
  <1>4. Top = stack[n] /\ Top.tape \in DOMAIN tapes
    BY <1>0, TopIsARun DEF FInv
  <1>5. Top.tape \in Range(used)
    <2>1. n \in 2..n
      BY <1>0
    <2>2. QED
      BY <1>0, <1>4, <2>1 DEF FInv, Placed
  <1>6. /\ tapes = [name \in DOMAIN tapes |-> tapes[name]] /\ IsList(tapes[ParentTape])
    BY DEF FInv, Typed
  <1>7. /\ tapes' = [name \in DOMAIN tapes' |-> tapes'[name]] /\ DOMAIN tapes' = DOMAIN tapes
        /\ \A name \in DOMAIN tapes : name # Top.tape => tapes'[name] = tapes[name]
        /\ tapes'[Top.tape] = Append(tapes[Top.tape], StepRecord)
    BY <1>1, <1>4, <1>6
  <1>8. ParentTape \in DOMAIN tapes
    <2>1. 1 \in 1..n
      BY <1>0
    <2>2. QED
      BY <1>0, <2>1 DEF FInv, Typed, Placed
  <1>9. IsList(tapes'[ParentTape])
    <2>1. CASE Top.tape = ParentTape
      <3> DEFINE old == tapes[ParentTape]
                 new == tapes'[ParentTape]
      <3>1. Grown(new, old, StepRecord) /\ IsList(old)
        BY <1>7, <1>6, <2>1 DEF Grown
      <3> HIDE DEF old, new
      <3>2. IsList(new)
        BY <3>1, Appended
      <3>3. QED
        BY <3>2 DEF new
    <2>2. CASE Top.tape # ParentTape
      BY <1>6, <1>7, <1>8, <2>2
    <2>3. QED
      BY <2>1, <2>2
  <1>10. ParentTape \notin Range(used) => tapes'[ParentTape] = tapes[ParentTape]
    BY <1>5, <1>7, <1>8
  <1>11. QED
    BY <1>1, <1>3, <1>7, <1>9, <1>10, OtherwiseKept

\* The list of outcomes on a tape grows as the outcomes do.
LEMMA OnTapeGrows ==
  ASSUME NEW rs, NEW r, NEW qs, NEW ts, IsList(rs), Grown(qs, rs, r),
         Grown(ts, OnTape(rs), Subagent(r.label, r.ok))
  PROVE  ts = OnTape(qs)
  <1>1. PICK n \in Nat : n = Len(rs)
    BY ListFacts
  <1>2. Len(qs) = n + 1 /\ qs[n + 1] = r /\ \A i \in 1..n : qs[i] = rs[i]
    BY <1>1, Appended
  <1> DEFINE os == OnTape(rs)
             e  == Subagent(r.label, r.ok)
             T  == {os[i] : i \in 1..n} \cup {e}
  <1>3. os = [i \in 1..n |-> Subagent(rs[i].label, rs[i].ok)]
    BY <1>1 DEF OnTape
  <1>4. os \in Seq(T) /\ Len(os) = n /\ e \in T
    <2>1. os \in [1..n -> T]
      BY <1>3
    <2> HIDE DEF os, T
    <2>2. os \in Seq(T)
      BY <2>1
    <2>3. QED
      BY <2>1, <2>2 DEF T
  <1> HIDE DEF T, os, e
  <1>5. ts = Append(os, e)
    BY DEF os, e, Grown
  <1>6. /\ ts \in Seq(T) /\ Len(ts) = n + 1 /\ ts[n + 1] = e
        /\ \A i \in 1..n : ts[i] = os[i]
    BY <1>4, <1>5
  <1>7. OnTape(qs) = [i \in 1..n + 1 |-> Subagent(qs[i].label, qs[i].ok)]
    BY <1>2 DEF OnTape
  <1>8. ts = [i \in 1..n + 1 |-> ts[i]]
    BY <1>6
  <1>9. \A i \in 1..n + 1 : ts[i] = Subagent(qs[i].label, qs[i].ok)
    <2>1. \A i \in 1..n : ts[i] = Subagent(qs[i].label, qs[i].ok)
      BY <1>2, <1>3, <1>6
    <2>2. ts[n + 1] = Subagent(qs[n + 1].label, qs[n + 1].ok)
      BY <1>2, <1>6 DEF e
    <2>3. \A i \in 1..n + 1 : i \in 1..n \/ i = n + 1
      OBVIOUS
    <2>4. QED
      BY <2>1, <2>2, <2>3
  <1>10. QED
    BY <1>7, <1>8, <1>9

\* An outcome is the script's own to have when the child is its own, and goes on the tape
\* of a run with another name otherwise.
LEMMA FinishKeeps ==
  ASSUME FInv, pc = "running", ~Script, NEW ok \in BOOLEAN, Finish(ok),
         UNCHANGED <<plan, todo, used>>
  PROVE  FInv'
  <1> DEFINE caller  == stack[Len(stack) - 1]
             outcome == [label |-> Top.tape, ok |-> ok]
             record  == Subagent(Top.tape, ok)
  <1>1. PICK n \in Nat : n = Len(stack) /\ n >= 2
    <2>1. PICK n \in Nat : n = Len(stack)
      BY ListFacts DEF FInv, Typed
    <2>2. n >= 1 /\ n # 1
      BY <2>1 DEF FInv, Typed, Script
    <2>3. QED
      BY <2>1, <2>2
  <1>2. /\ tapes' = [tapes EXCEPT ![caller.tape] = Append(@, record)] /\ stack' = Front(stack)
        /\ results' = (IF n = 2 THEN Append(results, outcome) ELSE results)
        /\ pc' = "running" /\ plan' = plan /\ todo' = todo /\ used' = used
    BY <1>1 DEF Finish, Recorded
  <1>3. /\ IsList(stack') /\ Len(stack') = n - 1
        /\ \A i \in 1..n - 1 : stack'[i] = stack[i]
    BY <1>1, <1>2, Popped DEF FInv, Typed
  <1>4. /\ n - 1 \in 1..n - 1 /\ n - 1 \in 1..n /\ 1 \in 1..n /\ n \in 1..n
        /\ \A i \in 1..n - 1 : i \in 1..n
        /\ \A i \in 2..n - 1 : i \in 2..n /\ i \in 1..n - 1
    BY <1>1
  <1>5. /\ \A i \in 1..n : IsRun(stack[i]) /\ stack[i].tape \in DOMAIN tapes
        /\ stack[1].tape = ParentTape /\ \A i \in 2..n : stack[i].tape \in Range(used)
    BY <1>1 DEF FInv, Typed, Placed
  <1>6. caller.tape \in DOMAIN tapes /\ ParentTape \in DOMAIN tapes
    BY <1>1, <1>4, <1>5
  <1>7. tapes = [name \in DOMAIN tapes |-> tapes[name]] /\ IsList(tapes[ParentTape])
    BY DEF FInv, Typed
  <1> HIDE DEF caller, outcome, record
  <1>8. /\ tapes' = [name \in DOMAIN tapes' |-> tapes'[name]] /\ DOMAIN tapes' = DOMAIN tapes
        /\ \A name \in DOMAIN tapes : name # caller.tape => tapes'[name] = tapes[name]
        /\ tapes'[caller.tape] = Append(tapes[caller.tape], record)
    BY <1>2, <1>6, <1>7
  <1>9. IsList(tapes'[ParentTape])
    <2>1. CASE caller.tape = ParentTape
      <3> DEFINE old == tapes[ParentTape]
                 new == tapes'[ParentTape]
      <3>1. Grown(new, old, record) /\ IsList(old)
        BY <1>8, <1>7, <2>1 DEF Grown
      <3> HIDE DEF old, new
      <3>2. IsList(new)
        BY <3>1, Appended
      <3>3. QED
        BY <3>2 DEF new
    <2>2. CASE caller.tape # ParentTape
      BY <1>6, <1>7, <1>8, <2>2
    <2>3. QED
      BY <2>1, <2>2
  <1>10. IsList(results) /\ IsList(results') /\ (n = 2 => Grown(results', results, outcome))
    <2>1. IsList(results) /\ (n = 2 => Grown(results', results, outcome))
      BY <1>2 DEF FInv, Typed, Grown
    <2>2. QED
      BY <1>2, <2>1, Appended
  <1>11. Typed'
    <2>1. Len(stack') >= 1
      BY <1>1, <1>3
    <2>2. \A i \in 1..Len(stack') : IsRun(stack'[i]) /\ stack'[i].tape \in DOMAIN tapes'
      BY <1>3, <1>4, <1>5, <1>8
    <2>3. QED
      BY <1>2, <1>3, <1>8, <1>9, <1>10, <2>1, <2>2 DEF FInv, Typed
  <1>12. Placed'
    <2>1. stack'[1].tape = ParentTape /\ \A i \in 2..Len(stack') : stack'[i].tape \in Range(used')
      <3>1. 1 \in 1..n - 1
        BY <1>1
      <3>2. QED
        BY <1>2, <1>3, <1>4, <1>5, <3>1
    <2>2. Len(stack') > 1 => Len(stack) > 1 /\ stack'[2] = stack[2]
      <3>1. n - 1 > 1 => 2 \in 1..n - 1 /\ n > 1
        BY <1>1
      <3>2. QED
        BY <1>1, <1>3, <3>1
    <2>3. QED
      BY <1>2, <2>1, <2>2 DEF FInv, Placed
  <1>13. Counted'
    <2>1. CASE n = 2
      <3>1. PICK p \in Nat, d \in Nat, c \in Nat :
              p = Len(plan) /\ d = Len(todo) /\ c = Len(results)
        BY <1>10, ListFacts DEF FInv, Typed
      <3>2. c = p - d - 1
        <4>1. Begun = Len(plan) - Len(todo) - 1
          BY <1>1, <2>1 DEF Begun
        <4>2. Len(results) = Begun
          BY DEF FInv, Counted
        <4>3. QED
          BY <3>1, <4>1, <4>2
      <3>3. /\ results' = Append(results, outcome) /\ Len(results') = c + 1
            /\ results'[c + 1] = outcome /\ \A i \in 1..c : results'[i] = results[i]
        BY <1>2, <1>10, <2>1, <3>1, Appended
      <3>4. Begun' = c + 1
        BY <1>2, <1>3, <2>1, <3>1, <3>2 DEF Begun
      <3>5. caller.tape = ParentTape
        BY <1>1, <1>5, <2>1 DEF caller
      <3>6. outcome.label = Top.tape /\ outcome.ok = ok
        BY DEF outcome
      <3>7. ParentTape \notin Range(used') => tapes'[ParentTape] = OnTape(results')
        <4>1. SUFFICES ASSUME ParentTape \notin Range(used) PROVE tapes'[ParentTape] = OnTape(results')
          BY <1>2
        <4>2. tapes[ParentTape] = OnTape(results)
          BY <4>1 DEF FInv, Counted
        <4>3. tapes'[ParentTape] = Append(OnTape(results), Subagent(outcome.label, outcome.ok))
          BY <1>8, <3>5, <3>6, <4>2 DEF record
        <4>4. QED
          <5> DEFINE new == tapes'[ParentTape]
          <5>1. Grown(new, OnTape(results), Subagent(outcome.label, outcome.ok))
            BY <4>3 DEF Grown
          <5> HIDE DEF new
          <5>2. new = OnTape(results')
            BY <1>10, <2>1, <5>1, OnTapeGrows
          <5>3. QED
            BY <5>2 DEF new
      <3>8. plan[c + 1] # "" => results'[c + 1].label = plan[c + 1]
        <4>1. Top = stack[2] /\ Len(stack) > 1
          BY <1>1, <2>1, TopIsARun DEF FInv
        <4>2. plan[p - d] # "" => stack[2].tape = plan[p - d]
          BY <3>1, <4>1 DEF FInv, Placed
        <4>3. p - d = c + 1
          BY <3>2
        <4>4. QED
          BY <3>3, <3>6, <4>1, <4>2, <4>3
      <3>9. \A i \in 1..c + 1 : plan[i] # "" => results'[i].label = plan[i]
        <4>1. \A i \in 1..c : plan[i] # "" => results[i].label = plan[i]
          BY <3>1 DEF FInv, Counted
        <4>2. \A i \in 1..c + 1 : i \in 1..c \/ i = c + 1
          BY <3>1
        <4>3. QED
          BY <3>3, <3>8, <4>1, <4>2
      <3>10. QED
        BY <1>2, <3>3, <3>4, <3>7, <3>9 DEF Counted
    <2>2. CASE n # 2
      <3>1. results' = results /\ n - 1 \in 2..n /\ n - 1 # 1 /\ n # 1
        BY <1>1, <1>2, <2>2
      <3>2. caller.tape \in Range(used)
        BY <1>1, <1>5, <3>1 DEF caller
      <3>3. ParentTape \notin Range(used) => tapes'[ParentTape] = tapes[ParentTape]
        BY <1>6, <1>8, <3>2
      <3>4. Begun' = Begun
        BY <1>1, <1>2, <1>3, <3>1 DEF Begun
      <3>5. QED
        BY <1>2, <3>1, <3>3, <3>4 DEF FInv, Counted, OnTape
    <2>3. QED
      BY <2>1, <2>2
  <1>14. QED
    BY <1>11, <1>12, <1>13 DEF FInv

LEMMA FanOutNext == FInv /\ [Next]_vars => FInv'
  <1> SUFFICES ASSUME FInv, [Next]_vars PROVE FInv'
    OBVIOUS
  <1>1. CASE FanOut
    BY <1>1, FanOutKeeps
  <1>2. CASE FanOutRaises
    BY <1>2, NoChildKeeps DEF FanOutRaises
  <1>3. CASE Delegate
    BY <1>3, DelegateKeeps
  <1>4. CASE DelegateFails
    BY <1>4, NoChildKeeps DEF DelegateFails, Delegates
  <1>5. CASE Work
    BY <1>5, WorkKeeps
  <1>6. CASE Return
    BY <1>6, FinishKeeps DEF Return
  <1>7. CASE Raise
    BY <1>7, FinishKeeps DEF Raise
  <1>8. ASSUME UNCHANGED <<plan, todo, stack, tapes, results, used>>,
               pc' = "done" => Len(todo) = 0 /\ Len(stack) = 1
        PROVE  FInv'
    <2>1. /\ IsList(stack') /\ Len(stack') = Len(stack)
          /\ \A i \in 1..Len(stack) : IsRun(stack'[i]) /\ stack'[i].tape = stack[i].tape
          /\ tapes' = [name \in DOMAIN tapes' |-> tapes'[name]] /\ IsList(tapes'[ParentTape])
      BY <1>8 DEF FInv, Typed
    <2>2. QED
      BY <1>8, <2>1, OtherwiseKept
  <1>9. CASE Done
    <2>1. Len(todo) = 0 /\ Len(stack) = 1
      BY <1>9 DEF Done, Script
    <2>2. QED
      BY <1>8, <1>9, <2>1 DEF Done
  <1>10. CASE Die
    BY <1>8, <1>10 DEF Die
  <1>11. CASE UNCHANGED vars
    BY <1>8, <1>11 DEF vars, FInv, Placed
  <1>12. QED
    BY <1>1, <1>2, <1>3, <1>4, <1>5, <1>6, <1>7, <1>9, <1>10, <1>11 DEF Next

-----------------------------------------------------------------------------
(* Induction over the naturals *)

\* What holds of zero and is handed on by every number holds of all of them.
LEMMA SetInduction ==
  ASSUME NEW S, 0 \in S, \A n \in Nat : n \in S => n + 1 \in S
  PROVE  \A n \in Nat : n \in S
  <1> DEFINE T == {n \in Nat : n \notin S}
             R == OpToRel(<, Nat)
  <1>1. SUFFICES ASSUME T # {}
                 PROVE  FALSE
    OBVIOUS
  <1>2. T \subseteq Nat
    OBVIOUS
  <1>3. R = {p \in Nat \X Nat : p[1] < p[2]}
    BY DEF OpToRel
  <1>4. IsWellFoundedOn(R, Nat)
    BY NatLessThanWellFounded
  <1> HIDE DEF R, T
  <1>5. PICK m \in T : \A k \in T : ~(<<k, m>> \in R)
    BY <1>1, <1>2, <1>4, WFMin
  <1>6. \A k \in T : ~(k < m)
    BY <1>2, <1>3, <1>5
  <1>7. m \in Nat /\ m # 0 /\ m - 1 \in Nat
    BY <1>2, <1>5 DEF T
  <1>8. m - 1 \in S
    BY <1>6, <1>7 DEF T
  <1>9. QED
    BY <1>5, <1>7, <1>8 DEF T

-----------------------------------------------------------------------------
(* The recursion in AddUp *)

\* f solves it as far as n.
Summed(f, w, n) == f = [k \in 0..n |-> IF k = 0 THEN 0 ELSE f[k - 1] + w[k]]

LEMMA SummedAt ==
  ASSUME NEW f, NEW w, NEW n \in Nat, Summed(f, w, n)
  PROVE  f[0] = 0 /\ \A k \in 1..n : f[k] = f[k - 1] + w[k]
  <1>1. \A k \in 0..n : f[k] = IF k = 0 THEN 0 ELSE f[k - 1] + w[k]
    BY DEF Summed
  <1>2. 0 \in 0..n /\ \A k \in 1..n : k \in 0..n /\ k # 0
    OBVIOUS
  <1>3. QED
    BY <1>1, <1>2

LEMMA SummedStep ==
  ASSUME NEW w, NEW n \in Nat, NEW f, Summed(f, w, n)
  PROVE  \E g : Summed(g, w, n + 1)
  <1> DEFINE g == [k \in 0..n + 1 |-> IF k = n + 1 THEN f[n] + w[k] ELSE f[k]]
  <1>1. \A k \in 0..n : f[k] = IF k = 0 THEN 0 ELSE f[k - 1] + w[k]
    BY DEF Summed
  <1>2. \A k \in 0..n : g[k] = f[k]
    OBVIOUS
  <1>3. ASSUME NEW k \in 0..n + 1
        PROVE  g[k] = IF k = 0 THEN 0 ELSE g[k - 1] + w[k]
    <2>1. CASE k = n + 1
      <3>1. g[k] = f[n] + w[k] /\ k # 0 /\ k - 1 = n
        BY <2>1
      <3>2. g[k - 1] = f[n]
        BY <1>2, <3>1
      <3> HIDE DEF g
      <3>3. QED
        BY <3>1, <3>2
    <2>2. CASE k # n + 1
      <3>1. k \in 0..n /\ (k # 0 => k - 1 \in 0..n)
        BY <2>2
      <3> HIDE DEF g
      <3>2. QED
        BY <3>1, <1>1, <1>2
    <2>3. QED
      BY <2>1, <2>2
  <1>4. g = [k \in 0..n + 1 |-> g[k]]
    OBVIOUS
  <1> HIDE DEF g
  <1>5. g = [k \in 0..n + 1 |-> IF k = 0 THEN 0 ELSE g[k - 1] + w[k]]
    BY <1>3, <1>4
  <1>6. QED
    BY <1>5 DEF Summed

\* AddUp is the last value of a solution.
LEMMA AddUpIsSummed ==
  ASSUME NEW w, Len(w) \in Nat
  PROVE  \E f : Summed(f, w, Len(w)) /\ AddUp(w) = f[Len(w)]
  <1> DEFINE S == {n \in Nat : \E f : Summed(f, w, n)}
  <1>1. 0 \in S
    <2>1. Summed([k \in 0..0 |-> 0], w, 0)
      BY DEF Summed
    <2>2. QED
      BY <2>1
  <1>2. \A n \in Nat : n \in S => n + 1 \in S
    BY SummedStep
  <1>3. Len(w) \in S
    <2> HIDE DEF S
    <2>1. QED
      BY <1>1, <1>2, SetInduction
  <1> DEFINE f == CHOOSE f : Summed(f, w, Len(w))
  <1>4. Summed(f, w, Len(w))
    BY <1>3
  <1>5. AddUp(w) = f[Len(w)]
    BY DEF AddUp, Summed
  <1>6. QED
    BY <1>4, <1>5

LEMMA NothingAdds == AddUp(<<>>) = 0
  <1>1. Len(<<>>) = 0
    OBVIOUS
  <1>2. PICK f : Summed(f, <<>>, 0) /\ AddUp(<<>>) = f[0]
    BY <1>1, AddUpIsSummed
  <1>3. QED
    BY <1>2, SummedAt

LEMMA AddUpTyped ==
  ASSUME NEW w \in Seq(Nat)
  PROVE  AddUp(w) \in Nat
  <1>1. PICK f : Summed(f, w, Len(w)) /\ AddUp(w) = f[Len(w)]
    BY AddUpIsSummed
  <1>2. f[0] = 0 /\ \A k \in 1..Len(w) : f[k] = f[k - 1] + w[k]
    BY <1>1, SummedAt
  <1> DEFINE S == {n \in Nat : n <= Len(w) => f[n] \in Nat}
  <1>3. 0 \in S
    BY <1>2
  <1>4. \A n \in Nat : n \in S => n + 1 \in S
    <2> SUFFICES ASSUME NEW n \in Nat, n \in S, n + 1 <= Len(w)
                 PROVE  f[n + 1] \in Nat
      OBVIOUS
    <2>1. n + 1 \in 1..Len(w) /\ (n + 1) - 1 = n /\ n <= Len(w)
      OBVIOUS
    <2>2. w[n + 1] \in Nat /\ f[n] \in Nat
      BY <2>1
    <2>3. QED
      BY <1>2, <2>1, <2>2
  <1> HIDE DEF S
  <1>5. Len(w) \in S
    BY <1>3, <1>4, SetInduction
  <1>6. QED
    BY <1>1, <1>5 DEF S

\* One number more.
LEMMA AddUpAppend ==
  ASSUME NEW w \in Seq(Nat), NEW x \in Nat
  PROVE  AddUp(Append(w, x)) = AddUp(w) + x
  <1> DEFINE v == Append(w, x)
  <1>1. /\ Len(w) \in Nat /\ Len(v) = Len(w) + 1 /\ v[Len(w) + 1] = x
        /\ \A i \in 1..Len(w) : v[i] = w[i]
    OBVIOUS
  <1> HIDE DEF v
  <1>2. PICK f : Summed(f, w, Len(w)) /\ AddUp(w) = f[Len(w)]
    BY AddUpIsSummed
  <1>3. PICK g : Summed(g, v, Len(w) + 1) /\ AddUp(v) = g[Len(w) + 1]
    BY <1>1, AddUpIsSummed
  <1>4. f[0] = 0 /\ \A k \in 1..Len(w) : f[k] = f[k - 1] + w[k]
    BY <1>2, SummedAt
  <1>5. g[0] = 0 /\ \A k \in 1..Len(w) + 1 : g[k] = g[k - 1] + v[k]
    BY <1>1, <1>3, SummedAt
  <1> DEFINE S == {n \in Nat : n <= Len(w) => f[n] = g[n]}
  <1>6. 0 \in S
    BY <1>4, <1>5
  <1>7. \A n \in Nat : n \in S => n + 1 \in S
    <2> SUFFICES ASSUME NEW n \in Nat, n <= Len(w) => f[n] = g[n], n + 1 <= Len(w)
                 PROVE  f[n + 1] = g[n + 1]
      OBVIOUS
    <2>1. n <= Len(w) /\ n + 1 \in 1..Len(w) /\ n + 1 \in 1..Len(w) + 1 /\ (n + 1) - 1 = n
      OBVIOUS
    <2>2. QED
      BY <1>1, <1>4, <1>5, <2>1
  <1> HIDE DEF S
  <1>8. f[Len(w)] = g[Len(w)]
    <2>1. Len(w) \in S
      BY <1>1, <1>6, <1>7, SetInduction
    <2>2. QED
      BY <1>1, <2>1 DEF S
  <1>9. g[Len(w) + 1] = g[Len(w)] + x
    <2>1. Len(w) + 1 \in 1..Len(w) + 1 /\ (Len(w) + 1) - 1 = Len(w)
      BY <1>1
    <2>2. QED
      BY <1>1, <1>5, <2>1
  <1>10. QED
    BY <1>2, <1>3, <1>8, <1>9 DEF v

-----------------------------------------------------------------------------
(* The recursion in Totals *)

Deep(f, n) == f = [d \in 0..n |-> [name \in DOMAIN tapes |->
                    IF d = 0 THEN 0 ELSE AddUp(Counts(On(name), f[d - 1]))]]

LEMMA DeepStep ==
  ASSUME NEW n \in Nat, NEW f, Deep(f, n)
  PROVE  \E g : Deep(g, n + 1)
  <1> DEFINE Of(d, h) == [name \in DOMAIN tapes |->
                            IF d = 0 THEN 0 ELSE AddUp(Counts(On(name), h[d - 1]))]
             All(h, m) == h = [d \in 0..m |-> [name \in DOMAIN tapes |->
                            IF d = 0 THEN 0 ELSE AddUp(Counts(On(name), h[d - 1]))]]
             g == [d \in 0..n + 1 |-> IF d = n + 1 THEN Of(d, f) ELSE f[d]]
  <1>1. \A d \in 0..n : f[d] = Of(d, f)
    BY DEF Deep
  <1>2. \A d \in 0..n : g[d] = f[d]
    OBVIOUS
  <1>3. g = [d \in 0..n + 1 |-> g[d]] /\ g[n + 1] = Of(n + 1, f)
    OBVIOUS
  <1> HIDE DEF g
  <1>4. ASSUME NEW d \in 0..n + 1
        PROVE  g[d] = Of(d, g)
    <2>1. CASE d = n + 1
      <3>1. g[d - 1] = f[d - 1]
        BY <1>2, <2>1
      <3>2. QED
        BY <1>3, <2>1, <3>1
    <2>2. CASE d # n + 1
      <3>1. d \in 0..n /\ (d # 0 => d - 1 \in 0..n)
        BY <2>2
      <3>2. g[d] = Of(d, f) /\ (d # 0 => g[d - 1] = f[d - 1])
        BY <1>1, <1>2, <3>1
      <3>3. QED
        BY <3>2
    <2>3. QED
      BY <2>1, <2>2
  <1>5. g = [d \in 0..n + 1 |-> Of(d, g)]
    <2> HIDE DEF Of
    <2>1. QED
      BY <1>3, <1>4
  <1>6. QED
    BY <1>5 DEF Deep

LEMMA TotalsAre ==
  \A d \in 0..9 : \A name \in DOMAIN tapes :
    Totals[d][name] = IF d = 0 THEN 0 ELSE AddUp(Counts(On(name), Totals[d - 1]))
  <1> DEFINE S == {n \in Nat : \E f : Deep(f, n)}
  <1>1. 0 \in S
    <2>1. Deep([d \in 0..0 |-> [name \in DOMAIN tapes |-> 0]], 0)
      BY DEF Deep
    <2>2. QED
      BY <2>1
  <1>2. \A n \in Nat : n \in S => n + 1 \in S
    BY DeepStep
  <1>3. 9 \in S
    <2> HIDE DEF S
    <2>1. QED
      BY <1>1, <1>2, SetInduction
  <1> DEFINE f == CHOOSE f : Deep(f, 9)
  <1>4. Deep(f, 9)
    BY <1>3
  <1>5. Totals = f
    BY DEF Totals, Deep
  <1>6. Deep(Totals, 9)
    BY <1>4, <1>5
  <1> HIDE DEF f
  <1> DEFINE tt == Totals
  <1>7. Deep(tt, 9)
    BY <1>6
  <1> HIDE DEF tt
  <1>8. \A d \in 0..9 : \A name \in DOMAIN tapes :
          tt[d][name] = IF d = 0 THEN 0 ELSE AddUp(Counts(On(name), tt[d - 1]))
    BY <1>7 DEF Deep
  <1>9. QED
    BY <1>8 DEF tt

-----------------------------------------------------------------------------
(* The tree of tapes *)

\* What one record adds.
Adds(r, below) == IF r.kind = "step" THEN 1 ELSE below[r.tape]
Links(rs) == {rs[i].tape : i \in {j \in 1..Len(rs) : rs[j].kind # "step"}}

\* level: how deep a run is below the script; cost: what its trace adds up to. A run has
\* children one below it only, and those under way are nobody's yet.
Tree(level, cost) ==
  /\ level \in [DOMAIN tapes -> 1..9] /\ cost \in [DOMAIN tapes -> Nat]
  /\ \A name \in DOMAIN tapes :
       /\ \A child \in Links(tapes[name]) : /\ child \in DOMAIN tapes
                                            /\ level[child] = level[name] + 1
                                            /\ \A i \in 1..Len(stack) : child # stack[i].tape
       /\ cost[name] = AddUp(Counts(tapes[name], cost))
  /\ \A i \in 1..Len(stack) : level[stack[i].tape] = i

Costs(st, cost) == [i \in 1..Len(st) |-> cost[st[i].tape]]
Paid(level, cost) == Tree(level, cost) /\ AddUp(Costs(stack, cost)) = spent

TInv ==
  /\ FInv /\ spent \in Nat
  /\ \A name \in DOMAIN tapes : IsList(tapes[name])
  /\ DOMAIN tapes = {ParentTape} \cup Range(used)
  /\ Distinct => \E level, cost : Paid(level, cost)

LEMMA CountsTyped ==
  ASSUME NEW rs, IsList(rs), NEW c, \A child \in Links(rs) : c[child] \in Nat
  PROVE  Counts(rs, c) \in Seq(Nat) /\ Len(Counts(rs, c)) = Len(rs)
  <1>1. PICK n \in Nat : n = Len(rs)
    BY ListFacts
  <1>2. Counts(rs, c) = [i \in 1..n |-> Adds(rs[i], c)]
    BY <1>1 DEF Counts, Adds
  <1>3. \A i \in 1..n : Adds(rs[i], c) \in Nat
    BY <1>1 DEF Adds, Links
  <1> DEFINE w == [i \in 1..n |-> Adds(rs[i], c)]
  <1>4. w \in [1..n -> Nat]
    BY <1>3
  <1> HIDE DEF w
  <1>5. w \in Seq(Nat) /\ Len(w) = n
    BY <1>4
  <1>6. QED
    BY <1>1, <1>2, <1>5 DEF w

\* Only the children on a tape matter to what it adds up to.
LEMMA CountsSame ==
  ASSUME NEW rs, NEW b, NEW c, \A child \in Links(rs) : b[child] = c[child]
  PROVE  Counts(rs, b) = Counts(rs, c)
  <1>1. \A i \in 1..Len(rs) : rs[i].kind # "step" => b[rs[i].tape] = c[rs[i].tape]
    BY DEF Links
  <1>2. QED
    BY <1>1 DEF Counts

\* A record more.
LEMMA CountsMore ==
  ASSUME NEW rs, NEW r, NEW rt, IsList(rs), Grown(rt, rs, r), NEW c,
         \A child \in Links(rs) : c[child] \in Nat, Adds(r, c) \in Nat
  PROVE  /\ AddUp(Counts(rt, c)) = AddUp(Counts(rs, c)) + Adds(r, c)
         /\ Links(rt) = Links(rs) \cup (IF r.kind = "step" THEN {} ELSE {r.tape})
         /\ IsList(rt)
  <1>1. PICK n \in Nat : n = Len(rs)
    BY ListFacts
  <1>2. IsList(rt) /\ Len(rt) = n + 1 /\ rt[n + 1] = r /\ \A i \in 1..n : rt[i] = rs[i]
    BY <1>1, Appended
  <1> DEFINE w == Counts(rs, c)
             x == Adds(r, c)
             v == Counts(rt, c)
  <1>3. w \in Seq(Nat) /\ Len(w) = n
    BY <1>1, CountsTyped
  <1>4. \A i \in 1..n : w[i] = Adds(rs[i], c)
    BY <1>1 DEF Counts, Adds
  <1>5. v = [i \in 1..n + 1 |-> Adds(rt[i], c)]
    BY <1>2 DEF Counts, Adds
  <1>6. x \in Nat
    OBVIOUS
  <1>7. Adds(rt[n + 1], c) = x /\ \A i \in 1..n : Adds(rt[i], c) = Adds(rs[i], c)
    BY <1>2
  <1> HIDE DEF w, x, v
  <1>8. v = Append(w, x)
    <2> DEFINE u == Append(w, x)
    <2>0. /\ u \in Seq(Nat) /\ Len(u) = n + 1 /\ u[n + 1] = x
          /\ \A i \in 1..n : u[i] = w[i]
      BY <1>3, <1>6, AppendProperties
    <2> HIDE DEF u
    <2>1. u = [i \in 1..n + 1 |-> IF i = n + 1 THEN x ELSE w[i]]
      <3>1. u = [i \in 1..n + 1 |-> u[i]]
        BY <2>0
      <3>2. \A i \in 1..n + 1 : u[i] = IF i = n + 1 THEN x ELSE w[i]
        BY <2>0
      <3>3. QED
        BY <3>1, <3>2
    <2>2. \A i \in 1..n + 1 : Adds(rt[i], c) = IF i = n + 1 THEN x ELSE w[i]
      <3>1. \A i \in 1..n + 1 : i \in 1..n \/ i = n + 1
        OBVIOUS
      <3>2. \A i \in 1..n : i # n + 1
        OBVIOUS
      <3>3. QED
        BY <1>4, <1>7, <3>1, <3>2
    <2>3. QED
      BY <1>5, <2>1, <2>2 DEF u
  <1>9. AddUp(v) = AddUp(w) + x
    BY <1>3, <1>6, <1>8, AddUpAppend
  <1>10. Links(rt) = Links(rs) \cup (IF r.kind = "step" THEN {} ELSE {r.tape})
    <2>1. \A i \in 1..n + 1 : i \in 1..n \/ i = n + 1
      OBVIOUS
    <2>2. \A i \in 1..n : i \in 1..n + 1
      OBVIOUS
    <2>3. n + 1 \in 1..n + 1
      OBVIOUS
    <2>4. ASSUME NEW t \in Links(rt)
          PROVE  t \in Links(rs) \/ (r.kind # "step" /\ t = r.tape)
      <3>1. PICK i \in 1..n + 1 : rt[i].kind # "step" /\ t = rt[i].tape
        BY <1>2, <2>4 DEF Links
      <3>2. QED
        BY <1>1, <1>2, <2>1, <3>1 DEF Links
    <2>5. ASSUME NEW t \in Links(rs)
          PROVE  t \in Links(rt)
      <3>1. PICK i \in 1..n : rs[i].kind # "step" /\ t = rs[i].tape
        BY <1>1, <2>5 DEF Links
      <3>2. QED
        BY <1>2, <2>2, <3>1 DEF Links
    <2>6. r.kind # "step" => r.tape \in Links(rt)
      BY <1>2, <2>3 DEF Links
    <2>7. QED
      BY <2>4, <2>5, <2>6
  <1>11. QED
    BY <1>2, <1>9, <1>10 DEF v, w, x

\* There is one way to add up a tree: from its leaves, nine levels of it.
LEMMA OneTotal ==
  ASSUME NEW level, NEW cost, Tree(level, cost)
  PROVE  \A name \in DOMAIN tapes : TotalInput(name) = cost[name]
  <1> DEFINE S == {d \in Nat : d <= 9 => \A name \in DOMAIN tapes :
                                 level[name] + d >= 10 => Totals[d][name] = cost[name]}
  <1>1. 0 \in S
    BY DEF Tree
  <1>2. \A d \in Nat : d \in S => d + 1 \in S
    <2> SUFFICES ASSUME NEW d \in Nat, d \in S, d + 1 <= 9, NEW name \in DOMAIN tapes,
                        level[name] + (d + 1) >= 10
                 PROVE  Totals[d + 1][name] = cost[name]
      OBVIOUS
    <2>1. level[name] \in 1..9
      BY DEF Tree
    <2>2. \A child \in Links(tapes[name]) : Totals[d][child] = cost[child]
      <3> SUFFICES ASSUME NEW child \in Links(tapes[name])
                   PROVE  Totals[d][child] = cost[child]
        OBVIOUS
      <3>1. child \in DOMAIN tapes /\ level[child] = level[name] + 1
        BY DEF Tree
      <3>2. level[child] + d >= 10 /\ d <= 9
        BY <2>1, <3>1
      <3>3. QED
        BY <3>1, <3>2
    <2> DEFINE below == Totals[d]
    <2>3. Counts(tapes[name], below) = Counts(tapes[name], cost)
      BY <2>2, CountsSame
    <2>4. Totals[d + 1][name] = AddUp(Counts(On(name), below))
      <3>1. d + 1 \in 0..9 /\ d + 1 # 0 /\ (d + 1) - 1 = d
        OBVIOUS
      <3>2. QED
        BY <3>1, TotalsAre
    <2>5. On(name) = tapes[name]
      BY DEF On
    <2> HIDE DEF below, S
    <2>6. QED
      BY <2>3, <2>4, <2>5 DEF Tree
  <1> HIDE DEF S
  <1>3. 9 \in S
    BY <1>1, <1>2, SetInduction
  <1>4. \A name \in DOMAIN tapes : level[name] + 9 >= 10
    BY DEF Tree
  <1>5. QED
    BY <1>3, <1>4 DEF S, TotalInput

LEMMA CountedOnce == TInv => TokensCountOnce
  <1> SUFFICES ASSUME TInv, Distinct
               PROVE  AddUp([i \in 1..Len(stack) |-> TotalInput(stack[i].tape)]) = spent
    BY DEF TokensCountOnce
  <1>1. PICK level, cost : Paid(level, cost)
    BY DEF TInv
  <1>2. \A name \in DOMAIN tapes : TotalInput(name) = cost[name]
    BY <1>1, OneTotal DEF Paid
  <1>3. \A i \in 1..Len(stack) : TotalInput(stack[i].tape) = cost[stack[i].tape]
    BY <1>2 DEF TInv, FInv, Typed
  <1>4. [i \in 1..Len(stack) |-> TotalInput(stack[i].tape)] = Costs(stack, cost)
    BY <1>3 DEF Costs
  <1>5. QED
    BY <1>1, <1>4 DEF Paid

-----------------------------------------------------------------------------
(* What the stack comes to *)

LEMMA Pushed ==
  ASSUME NEW n \in Nat, NEW w \in [1..n -> Nat], NEW v \in [1..n + 1 -> Nat],
         \A i \in 1..n : v[i] = w[i]
  PROVE  AddUp(w) \in Nat /\ AddUp(v) = AddUp(w) + v[n + 1]
  <1>1. w \in Seq(Nat) /\ Len(w) = n /\ v[n + 1] \in Nat
    OBVIOUS
  <1> DEFINE u == Append(w, v[n + 1])
  <1>2. u \in Seq(Nat) /\ Len(u) = n + 1 /\ u[n + 1] = v[n + 1] /\ \A i \in 1..n : u[i] = w[i]
    BY <1>1, AppendProperties
  <1>3. AddUp(u) = AddUp(w) + v[n + 1] /\ AddUp(w) \in Nat
    BY <1>1, AddUpAppend, AddUpTyped
  <1> HIDE DEF u
  <1>4. \A i \in 1..n + 1 : u[i] = v[i]
    <2>1. \A i \in 1..n + 1 : i \in 1..n \/ i = n + 1
      OBVIOUS
    <2>2. QED
      BY <1>2, <2>1
  <1>5. u = [i \in 1..n + 1 |-> u[i]] /\ v = [i \in 1..n + 1 |-> v[i]]
    BY <1>2
  <1>6. u = v
    BY <1>4, <1>5
  <1>7. QED
    BY <1>3, <1>6

\* Another number at the top.
LEMMA Topped ==
  ASSUME NEW n \in Nat, n >= 1, NEW w \in [1..n -> Nat], NEW v \in [1..n -> Nat],
         \A i \in 1..n - 1 : v[i] = w[i]
  PROVE  /\ AddUp(w) \in Nat /\ AddUp(v) \in Nat
         /\ AddUp(v) + w[n] = AddUp(w) + v[n]
  <1>1. PICK m \in Nat : n = m + 1 /\ n - 1 = m
    <2>1. n - 1 \in Nat /\ n = (n - 1) + 1
      OBVIOUS
    <2>2. QED
      BY <2>1
  <1> DEFINE u == [i \in 1..m |-> w[i]]
  <1>2. u \in [1..m -> Nat] /\ \A i \in 1..m : u[i] = w[i] /\ u[i] = v[i]
    BY <1>1
  <1>3. w \in [1..m + 1 -> Nat] /\ v \in [1..m + 1 -> Nat]
    BY <1>1
  <1> HIDE DEF u
  <1>4. AddUp(u) \in Nat /\ AddUp(w) = AddUp(u) + w[m + 1] /\ AddUp(v) = AddUp(u) + v[m + 1]
    BY <1>2, <1>3, Pushed
  <1>5. w[n] \in Nat /\ v[n] \in Nat
    OBVIOUS
  <1>6. QED
    BY <1>1, <1>4, <1>5

\* The top one is added to the one below.
LEMMA Merged ==
  ASSUME NEW n \in Nat, n >= 2, NEW w \in [1..n -> Nat], NEW v \in [1..n - 1 -> Nat],
         \A i \in 1..n - 2 : v[i] = w[i], v[n - 1] = w[n - 1] + w[n]
  PROVE  AddUp(v) = AddUp(w)
  <1>1. PICK m \in Nat : n = m + 1 /\ n - 1 = m /\ m >= 1 /\ n - 2 = m - 1
    <2>1. n - 1 \in Nat /\ n = (n - 1) + 1 /\ n - 1 >= 1 /\ n - 2 = (n - 1) - 1
      OBVIOUS
    <2>2. QED
      BY <2>1
  <1> DEFINE u == [i \in 1..m |-> w[i]]
  <1>2. u \in [1..m -> Nat] /\ (\A i \in 1..m : u[i] = w[i]) /\ w \in [1..m + 1 -> Nat]
    BY <1>1
  <1>3. v \in [1..m -> Nat] /\ (\A i \in 1..m - 1 : u[i] = v[i]) /\ u[m] = w[m] /\ v[m] = w[m] + w[m + 1]
    BY <1>1
  <1> HIDE DEF u
  <1>4. AddUp(u) \in Nat /\ AddUp(w) = AddUp(u) + w[m + 1]
    BY <1>2, Pushed
  <1>5. AddUp(v) \in Nat /\ AddUp(v) + u[m] = AddUp(u) + v[m]
    BY <1>1, <1>2, <1>3, Topped
  <1>6. w[m] \in Nat /\ w[m + 1] \in Nat
    BY <1>1, <1>2
  <1>7. PICK a \in Nat, b \in Nat, c \in Nat, d \in Nat :
          a = AddUp(u) /\ b = AddUp(v) /\ c = w[m] /\ d = w[m + 1]
    BY <1>4, <1>5, <1>6
  <1>8. b + c = a + (c + d) /\ AddUp(w) = a + d
    BY <1>3, <1>4, <1>5, <1>7
  <1>9. b = a + d
    <2>1. b + c = a + (c + d)
      BY <1>8
    <2>2. QED
      BY <2>1
  <1>10. QED
    BY <1>7, <1>8, <1>9

LEMMA CostsTyped ==
  ASSUME NEW st, NEW n \in Nat, Len(st) = n, NEW c, \A i \in 1..n : c[st[i].tape] \in Nat
  PROVE  /\ Costs(st, c) \in [1..n -> Nat]
         /\ \A i \in 1..n : Costs(st, c)[i] = c[st[i].tape]
  BY DEF Costs

-----------------------------------------------------------------------------
(* The steps, again *)

\* What is known of a tree of a state in which all is as it should be.
LEMMA TreeFacts ==
  ASSUME TInv, NEW level, NEW cost, Paid(level, cost), NEW n, n = Len(stack)
  PROVE  /\ n \in Nat /\ n >= 1 /\ Top = stack[n]
         /\ \A i \in 1..n : /\ stack[i].tape \in DOMAIN tapes /\ level[stack[i].tape] = i
                            /\ cost[stack[i].tape] \in Nat
         /\ \A i, j \in 1..n : stack[i].tape = stack[j].tape => i = j
         /\ \A name \in DOMAIN tapes :
              /\ IsList(tapes[name]) /\ level[name] \in 1..9 /\ cost[name] \in Nat
              /\ cost[name] = AddUp(Counts(tapes[name], cost))
              /\ \A child \in Links(tapes[name]) :
                   /\ child \in DOMAIN tapes /\ level[child] = level[name] + 1
                   /\ cost[child] \in Nat
                   /\ \A i \in 1..n : child # stack[i].tape
         /\ Costs(stack, cost) \in [1..n -> Nat]
         /\ \A i \in 1..n : Costs(stack, cost)[i] = cost[stack[i].tape]
         /\ AddUp(Costs(stack, cost)) = spent
  <1>1. n \in Nat /\ n >= 1 /\ Top = stack[n] /\ \A i \in 1..n : stack[i].tape \in DOMAIN tapes
    BY TopIsARun DEF TInv, FInv, Typed
  <1>2. Tree(level, cost) /\ AddUp(Costs(stack, cost)) = spent
    BY DEF Paid
  <1>3. \A name \in DOMAIN tapes : level[name] \in 1..9 /\ cost[name] \in Nat
    BY <1>2 DEF Tree
  <1>4. \A i \in 1..n : level[stack[i].tape] = i
    BY <1>2 DEF Tree
  <1>5. \A i, j \in 1..n : stack[i].tape = stack[j].tape => i = j
    BY <1>4
  <1>6. \A i \in 1..n : cost[stack[i].tape] \in Nat
    BY <1>1, <1>3
  <1>7. /\ Costs(stack, cost) \in [1..n -> Nat]
        /\ \A i \in 1..n : Costs(stack, cost)[i] = cost[stack[i].tape]
    BY <1>1, <1>6, CostsTyped
  <1>8. \A name \in DOMAIN tapes :
              /\ IsList(tapes[name])
              /\ cost[name] = AddUp(Counts(tapes[name], cost))
              /\ \A child \in Links(tapes[name]) :
                   /\ child \in DOMAIN tapes /\ level[child] = level[name] + 1
                   /\ \A i \in 1..n : child # stack[i].tape
    BY <1>2 DEF Tree, TInv
  <1>9. QED
    BY <1>1, <1>2, <1>3, <1>4, <1>5, <1>6, <1>7, <1>8

\* Nothing is paid, recorded or named, and the same runs are under way.
LEMMA StillPaid ==
  ASSUME TInv, FInv', UNCHANGED <<tapes, used, spent>>, Len(stack') = Len(stack),
         \A i \in 1..Len(stack) : stack'[i].tape = stack[i].tape
  PROVE  TInv'
  <1>1. Distinct' => Distinct
    BY DEF Distinct
  <1>2. ASSUME NEW level, NEW cost, Paid(level, cost)
        PROVE  Paid(level, cost)'
    <2>1. Tree(level, cost)'
      BY <1>2 DEF Paid, Tree
    <2>2. Costs(stack', cost) = Costs(stack, cost)
      BY DEF Costs
    <2>3. QED
      BY <1>2, <2>1, <2>2 DEF Paid
  <1>3. QED
    BY <1>1, <1>2 DEF TInv

\* A child begins with a name of its own, at the level above its caller's, and with nothing.
LEMMA ChildPaid ==
  ASSUME TInv, FInv', NEW label, Child(label), spent' = spent, Len(stack) < 9
  PROVE  TInv'
  <1> DEFINE name == Name(label, Top.n)
  <1>1. PICK n \in Nat : n = Len(stack) /\ n >= 1 /\ n < 9
    BY TopIsARun DEF TInv, FInv, Typed
  <1>2. /\ Len(stack') = n + 1 /\ stack'[n + 1].tape = name
        /\ \A i \in 1..n : stack'[i].tape = stack[i].tape
        /\ DOMAIN tapes' = DOMAIN tapes \cup {name}
        /\ \A t \in DOMAIN tapes : tapes'[t] = tapes[t]
    BY <1>1, ChildFacts DEF TInv, FInv
  <1>3. tapes'[name] = On(name) /\ used' = Append(used, name)
    BY DEF Child
  <1> HIDE DEF name
  <1>4. PICK m \in Nat : m = Len(used)
    BY ListFacts DEF TInv, FInv, Typed
  <1>5. /\ DOMAIN used = 1..m /\ DOMAIN used' = 1..m + 1 /\ used'[m + 1] = name
        /\ \A i \in 1..m : used'[i] = used[i]
    <2>1. /\ IsList(used') /\ Len(used') = m + 1 /\ used'[m + 1] = name
          /\ \A i \in 1..m : used'[i] = used[i]
      BY <1>3, <1>4, Appended DEF TInv, FInv, Typed, Grown
    <2>2. QED
      BY <1>4, <2>1, ListFacts DEF TInv, FInv, Typed
  <1>6. /\ Range(used') = Range(used) \cup {name}
        /\ IsInjective(used') => IsInjective(used) /\ name \notin Range(used)
    <2>1. \A i \in 1..m : i \in 1..m + 1 /\ i # m + 1
      OBVIOUS
    <2>2. m + 1 \in 1..m + 1 /\ \A i \in 1..m + 1 : i \in 1..m \/ i = m + 1
      OBVIOUS
    <2>3. Range(used') = Range(used) \cup {name}
      BY <1>5, <2>1, <2>2 DEF Range
    <2>4. IsInjective(used') => IsInjective(used)
      BY <1>5, <2>1 DEF IsInjective
    <2>5. IsInjective(used') => name \notin Range(used)
      BY <1>5, <2>1, <2>2 DEF IsInjective, Range
    <2>6. QED
      BY <2>3, <2>4, <2>5
  <1>7. IsList(tapes'[name])
    <2>1. IsList(<<>>)
      <3>1. <<>> \in Seq({})
        OBVIOUS
      <3>2. QED
        BY <3>1 DEF IsList
    <2>2. QED
      BY <1>3, <2>1 DEF On, TInv
  <1>8. ASSUME Distinct'
        PROVE  \E level, cost : Paid(level, cost)'
    <2>1. Distinct /\ name \notin DOMAIN tapes
      BY <1>6, <1>8 DEF Distinct, TInv
    <2>2. PICK level, cost : Paid(level, cost)
      BY <2>1 DEF TInv
    <2>3. /\ n \in Nat /\ n >= 1 /\ Top = stack[n]
          /\ \A i \in 1..n : /\ stack[i].tape \in DOMAIN tapes /\ level[stack[i].tape] = i
                             /\ cost[stack[i].tape] \in Nat
          /\ \A t \in DOMAIN tapes :
               /\ level[t] \in 1..9 /\ cost[t] \in Nat
               /\ cost[t] = AddUp(Counts(tapes[t], cost))
               /\ \A child \in Links(tapes[t]) :
                    /\ child \in DOMAIN tapes /\ level[child] = level[t] + 1
                    /\ \A i \in 1..n : child # stack[i].tape
          /\ Costs(stack, cost) \in [1..n -> Nat]
          /\ \A i \in 1..n : Costs(stack, cost)[i] = cost[stack[i].tape]
          /\ AddUp(Costs(stack, cost)) = spent
      BY <1>1, <2>2, TreeFacts
    <2>4. PICK l2, c2 :
            /\ l2 \in [DOMAIN tapes' -> 1..9] /\ c2 \in [DOMAIN tapes' -> Nat]
            /\ l2[name] = n + 1 /\ c2[name] = 0
            /\ \A t \in DOMAIN tapes : l2[t] = level[t] /\ c2[t] = cost[t]
      <3> DEFINE D == DOMAIN tapes \cup {name}
                 a == [t \in D |-> IF t = name THEN n + 1 ELSE level[t]]
                 b == [t \in D |-> IF t = name THEN 0 ELSE cost[t]]
      <3>1. n + 1 \in 1..9
        BY <1>1
      <3>2. /\ a \in [DOMAIN tapes' -> 1..9] /\ b \in [DOMAIN tapes' -> Nat]
            /\ a[name] = n + 1 /\ b[name] = 0
            /\ \A t \in DOMAIN tapes : a[t] = level[t] /\ b[t] = cost[t]
        BY <1>2, <2>1, <2>3, <3>1
      <3> HIDE DEF a, b
      <3>3. QED
        BY <3>2
    <2>5. tapes'[name] = <<>>
      BY <1>3, <2>1 DEF On
    <2>6. Links(<<>>) = {} /\ AddUp(Counts(<<>>, c2)) = 0
      <3>1. Len(<<>>) = 0
        OBVIOUS
      <3>2. Counts(<<>>, c2) = <<>>
        BY <3>1 DEF Counts
      <3>3. QED
        BY <3>1, <3>2, NothingAdds DEF Links
    <2>7. ASSUME NEW t \in DOMAIN tapes'
          PROVE  /\ \A child \in Links(tapes'[t]) : /\ child \in DOMAIN tapes'
                                                    /\ l2[child] = l2[t] + 1
                                                    /\ \A i \in 1..n + 1 : child # stack'[i].tape
                 /\ c2[t] = AddUp(Counts(tapes'[t], c2))
      <3>1. CASE t = name
        BY <2>4, <2>5, <2>6, <3>1
      <3>2. CASE t # name
        <4>1. t \in DOMAIN tapes /\ tapes'[t] = tapes[t]
          BY <1>2, <3>2
        <4>2. \A child \in Links(tapes[t]) : c2[child] = cost[child]
          BY <2>3, <2>4, <4>1
        <4>3. Counts(tapes[t], c2) = Counts(tapes[t], cost)
          BY <4>2, CountsSame
        <4>4. ASSUME NEW child \in Links(tapes[t])
              PROVE  /\ child \in DOMAIN tapes' /\ l2[child] = l2[t] + 1
                     /\ \A i \in 1..n + 1 : child # stack'[i].tape
          <5>1. /\ child \in DOMAIN tapes /\ level[child] = level[t] + 1
                /\ \A i \in 1..n : child # stack[i].tape
            BY <2>3, <4>1
          <5>2. child # name
            BY <2>1, <5>1
          <5>3. \A i \in 1..n + 1 : i \in 1..n \/ i = n + 1
            OBVIOUS
          <5>4. QED
            BY <1>2, <2>4, <4>1, <5>1, <5>2, <5>3
        <4>5. c2[t] = cost[t] /\ cost[t] = AddUp(Counts(tapes[t], cost))
          BY <2>3, <2>4, <4>1
        <4>6. c2[t] = AddUp(Counts(tapes'[t], c2))
          BY <4>1, <4>3, <4>5
        <4>7. QED
          BY <4>1, <4>4, <4>6
      <3>3. QED
        BY <3>1, <3>2
    <2>8. \A i \in 1..n + 1 : l2[stack'[i].tape] = i
      <3>1. \A i \in 1..n + 1 : i \in 1..n \/ i = n + 1
        OBVIOUS
      <3>2. \A i \in 1..n : l2[stack'[i].tape] = i
        <4> SUFFICES ASSUME NEW i \in 1..n PROVE l2[stack'[i].tape] = i
          OBVIOUS
        <4>1. stack'[i].tape = stack[i].tape
          BY <1>2
        <4>2. stack[i].tape \in DOMAIN tapes /\ level[stack[i].tape] = i
          BY <2>3
        <4>3. QED
          BY <2>4, <4>1, <4>2
      <3>3. l2[stack'[n + 1].tape] = n + 1
        BY <1>2, <2>4
      <3>4. QED
        BY <3>1, <3>2, <3>3
    <2>9. Tree(l2, c2)'
      BY <1>2, <2>4, <2>7, <2>8 DEF Tree
    <2>10. AddUp(Costs(stack', c2)) = spent
      <3> DEFINE w == Costs(stack, cost)
                 v == Costs(stack', c2)
      <3>1. \A i \in 1..n : c2[stack'[i].tape] = cost[stack[i].tape]
        BY <1>2, <2>3, <2>4
      <3>2. \A i \in 1..n + 1 : c2[stack'[i].tape] \in Nat
        <4>1. \A i \in 1..n + 1 : i \in 1..n \/ i = n + 1
          OBVIOUS
        <4>2. QED
          BY <1>2, <2>3, <2>4, <3>1, <4>1
      <3>3. v \in [1..n + 1 -> Nat] /\ \A i \in 1..n + 1 : v[i] = c2[stack'[i].tape]
        <4>1. PICK k \in Nat : k = n + 1
          OBVIOUS
        <4> DEFINE st == stack'
        <4>2. Len(st) = k /\ \A i \in 1..k : c2[st[i].tape] \in Nat
          BY <1>2, <3>2, <4>1
        <4> HIDE DEF st
        <4>3. /\ Costs(st, c2) \in [1..k -> Nat]
              /\ \A i \in 1..k : Costs(st, c2)[i] = c2[st[i].tape]
          BY <4>2, CostsTyped
        <4>4. QED
          BY <4>1, <4>3 DEF st
      <3>4. w \in [1..n -> Nat] /\ \A i \in 1..n : w[i] = cost[stack[i].tape]
        BY <2>3
      <3> HIDE DEF w, v
      <3>5. v[n + 1] = 0 /\ \A i \in 1..n : v[i] = w[i]
        <4>1. n + 1 \in 1..n + 1 /\ \A i \in 1..n : i \in 1..n + 1
          OBVIOUS
        <4>2. QED
          BY <1>2, <2>4, <3>1, <3>3, <3>4, <4>1
      <3>6. AddUp(w) \in Nat /\ AddUp(v) = AddUp(w) + v[n + 1]
        BY <3>3, <3>4, <3>5, Pushed
      <3>7. QED
        BY <2>3, <3>5, <3>6 DEF w, v
    <2>11. Paid(l2, c2)'
      BY <2>9, <2>10 DEF Paid
    <2>12. QED
      BY <2>11
  <1>9. /\ spent' \in Nat /\ DOMAIN tapes' = {ParentTape} \cup Range(used')
        /\ \A t \in DOMAIN tapes' : IsList(tapes'[t])
    BY <1>2, <1>6, <1>7 DEF TInv
  <1>10. QED
    BY <1>8, <1>9 DEF TInv

\* A record on the tape of a run under way costs that run, and no other tape says more.
Records(level, cost, m, name, r) ==
  /\ \E k \in 1..Len(stack) : name = stack[k].tape
  /\ m = Len(stack') /\ m <= Len(stack) /\ \A i \in 1..m : stack'[i].tape = stack[i].tape
  /\ Adds(r, cost) \in Nat
  /\ r.kind # "step" => /\ r.tape \in DOMAIN tapes /\ level[r.tape] = level[name] + 1
                        /\ \A i \in 1..m : r.tape # stack[i].tape
  /\ DOMAIN tapes' = DOMAIN tapes /\ tapes'[name] = Append(tapes[name], r)
  /\ \A t \in DOMAIN tapes : t # name => tapes'[t] = tapes[t]

LEMMA OneMore ==
  ASSUME TInv, NEW level, NEW cost, Paid(level, cost),
         NEW m \in Nat, NEW name, NEW r, Records(level, cost, m, name, r)
  PROVE  \E c : /\ Tree(level, c)' /\ c \in [DOMAIN tapes -> Nat]
                /\ c[name] = cost[name] + Adds(r, cost)
                /\ \A t \in DOMAIN tapes : t # name => c[t] = cost[t]
  <1>a. PICK n \in Nat : n = Len(stack)
    BY TreeFacts
  <1>b. PICK k \in 1..n : name = stack[k].tape
    BY <1>a DEF Records
  <1>c. /\ m = Len(stack') /\ m <= n /\ \A i \in 1..m : stack'[i].tape = stack[i].tape
        /\ Adds(r, cost) \in Nat
        /\ r.kind # "step" => /\ r.tape \in DOMAIN tapes /\ level[r.tape] = level[name] + 1
                              /\ \A i \in 1..m : r.tape # stack[i].tape
        /\ DOMAIN tapes' = DOMAIN tapes /\ tapes'[name] = Append(tapes[name], r)
        /\ \A t \in DOMAIN tapes : t # name => tapes'[t] = tapes[t]
    BY <1>a DEF Records
  <1>1. /\ \A i \in 1..n : stack[i].tape \in DOMAIN tapes /\ level[stack[i].tape] = i
        /\ \A t \in DOMAIN tapes :
             /\ IsList(tapes[t]) /\ level[t] \in 1..9 /\ cost[t] \in Nat
             /\ cost[t] = AddUp(Counts(tapes[t], cost))
             /\ \A child \in Links(tapes[t]) :
                  /\ child \in DOMAIN tapes /\ level[child] = level[t] + 1
                  /\ cost[child] \in Nat
                  /\ \A i \in 1..n : child # stack[i].tape
    BY <1>a, TreeFacts
  <1>2. name \in DOMAIN tapes /\ cost[name] \in Nat /\ level[name] \in 1..9
    BY <1>b, <1>1
  <1>3. PICK c : /\ c \in [DOMAIN tapes -> Nat]
                 /\ c[name] = cost[name] + Adds(r, cost)
                 /\ \A t \in DOMAIN tapes : t # name => c[t] = cost[t]
    <2> DEFINE b == [t \in DOMAIN tapes |-> IF t = name THEN cost[t] + Adds(r, cost) ELSE cost[t]]
    <2>1. cost[name] + Adds(r, cost) \in Nat
      BY <1>c, <1>2
    <2>2. /\ b \in [DOMAIN tapes -> Nat]
          /\ b[name] = cost[name] + Adds(r, cost)
          /\ \A t \in DOMAIN tapes : t # name => b[t] = cost[t]
      BY <1>c, <1>1, <1>2, <2>1
    <2> HIDE DEF b
    <2>3. QED
      BY <2>2
  <1>4. \A t \in DOMAIN tapes : \A child \in Links(tapes[t]) : child # name /\ c[child] = cost[child]
    BY <1>b, <1>1, <1>3
  <1>5. Adds(r, c) = Adds(r, cost)
    <2>1. CASE r.kind = "step"
      BY <2>1 DEF Adds
    <2>2. CASE r.kind # "step"
      <3>1. r.tape \in DOMAIN tapes /\ level[r.tape] = level[name] + 1
        BY <1>c, <2>2
      <3>2. r.tape # name
        BY <1>2, <3>1
      <3>3. QED
        BY <1>3, <2>2, <3>1, <3>2 DEF Adds
    <2>3. QED
      BY <2>1, <2>2
  <1>6. \A t \in DOMAIN tapes : AddUp(Counts(tapes[t], c)) = cost[t]
    <2> SUFFICES ASSUME NEW t \in DOMAIN tapes PROVE AddUp(Counts(tapes[t], c)) = cost[t]
      OBVIOUS
    <2>1. Counts(tapes[t], c) = Counts(tapes[t], cost)
      BY <1>4, CountsSame
    <2>2. QED
      BY <1>1, <2>1
  <1>7. /\ AddUp(Counts(tapes'[name], c)) = c[name]
        /\ Links(tapes'[name]) = Links(tapes[name]) \cup (IF r.kind = "step" THEN {} ELSE {r.tape})
    <2> DEFINE rs == tapes[name]
               rt == tapes'[name]
    <2>1. IsList(rs) /\ Grown(rt, rs, r)
      BY <1>c, <1>1, <1>2 DEF Grown
    <2>2. \A child \in Links(rs) : c[child] \in Nat
      BY <1>c, <1>1, <1>2, <1>4
    <2>3. AddUp(Counts(rs, c)) = cost[name]
      BY <1>2, <1>6
    <2> HIDE DEF rs, rt
    <2>4. /\ AddUp(Counts(rt, c)) = AddUp(Counts(rs, c)) + Adds(r, c)
          /\ Links(rt) = Links(rs) \cup (IF r.kind = "step" THEN {} ELSE {r.tape})
      BY <1>c, <1>5, <2>1, <2>2, CountsMore
    <2>5. QED
      BY <1>3, <1>5, <2>3, <2>4 DEF rs, rt
  <1>8. ASSUME NEW t \in DOMAIN tapes
        PROVE  /\ \A child \in Links(tapes'[t]) : /\ child \in DOMAIN tapes
                                                  /\ level[child] = level[t] + 1
                                                  /\ \A i \in 1..m : child # stack'[i].tape
               /\ c[t] = AddUp(Counts(tapes'[t], c))
    <2>1. \A i \in 1..m : i \in 1..n
      BY <1>c
    <2>2. ASSUME NEW child \in Links(tapes[t])
          PROVE  /\ child \in DOMAIN tapes /\ level[child] = level[t] + 1
                 /\ \A i \in 1..m : child # stack'[i].tape
      BY <1>c, <1>1, <2>1
    <2>3. CASE t = name
      <3>1. r.kind # "step" => /\ r.tape \in DOMAIN tapes /\ level[r.tape] = level[t] + 1
                               /\ \A i \in 1..m : r.tape # stack'[i].tape
        BY <1>c, <2>3
      <3>2. QED
        BY <1>7, <2>2, <2>3, <3>1
    <2>4. CASE t # name
      BY <1>c, <1>3, <1>6, <2>2, <2>4
    <2>5. QED
      BY <2>3, <2>4
  <1>9. \A i \in 1..m : level[stack'[i].tape] = i
    <2>1. \A i \in 1..m : i \in 1..n
      BY <1>c
    <2>2. QED
      BY <1>c, <1>1, <2>1
  <1>10. level \in [DOMAIN tapes -> 1..9]
    BY DEF Paid, Tree
  <1>11. Tree(level, c)'
    BY <1>c, <1>3, <1>8, <1>9, <1>10 DEF Tree
  <1>12. QED
    BY <1>3, <1>11

\* A turn: a token is paid, and it is on the tape of the run on top.
LEMMA WorkPaid ==
  ASSUME TInv, FInv', Work
  PROVE  TInv'
  <1> DEFINE top  == [Top EXCEPT !.steps = @ + 1]
  <1>a. PICK name : name = Top.tape
    OBVIOUS
  <1>1. /\ spent' = spent + 1 /\ used' = used /\ stack' = Front(stack) \o <<top>>
        /\ tapes' = [tapes EXCEPT ![name] = Append(@, StepRecord)]
    BY <1>a DEF Work
  <1>2. PICK n \in Nat : n = Len(stack) /\ n >= 1 /\ name = stack[n].tape /\ name \in DOMAIN tapes
    <2>1. Typed
      BY DEF TInv, FInv
    <2>2. /\ Len(stack) \in Nat /\ Len(stack) >= 1
          /\ Top.tape = stack[Len(stack)].tape /\ Top.tape \in DOMAIN tapes
      BY <2>1, TopIsARun DEF Typed
    <2>3. QED
      BY <1>a, <2>2
  <1>3. IsRun(top) /\ top.tape = name
    BY <1>a, SameRun DEF TInv, FInv
  <1> HIDE DEF top
  <1>4. Len(stack') = n /\ \A i \in 1..n : stack'[i].tape = stack[i].tape
    BY <1>a, <1>1, <1>2, <1>3, Retopped DEF TInv, FInv, Changed
  <1>5. /\ DOMAIN tapes' = DOMAIN tapes /\ tapes'[name] = Append(tapes[name], StepRecord)
        /\ \A t \in DOMAIN tapes : t # name => tapes'[t] = tapes[t]
    <2>1. tapes = [t \in DOMAIN tapes |-> tapes[t]]
      BY DEF TInv, FInv, Typed
    <2>2. QED
      BY <1>1, <1>2, <2>1
  <1>6. \A t \in DOMAIN tapes' : IsList(tapes'[t])
    <2>1. IsList(tapes'[name])
      <3> DEFINE rs == tapes[name]
                 rt == tapes'[name]
      <3>1. IsList(rs) /\ Grown(rt, rs, StepRecord)
        BY <1>2, <1>5 DEF TInv, Grown
      <3> HIDE DEF rs, rt
      <3>2. IsList(rt)
        BY <3>1, Appended
      <3>3. QED
        BY <3>2 DEF rt
    <2>2. QED
      BY <1>5, <2>1 DEF TInv
  <1>7. ASSUME Distinct, NEW level, NEW cost, Paid(level, cost)
        PROVE  \E c : Paid(level, c)'
    <2>1. StepRecord.kind = "step" /\ Adds(StepRecord, cost) = 1
      BY DEF StepRecord, Adds
    <2>2. /\ \A i \in 1..n : stack[i].tape \in DOMAIN tapes
          /\ \A i, j \in 1..n : stack[i].tape = stack[j].tape => i = j
          /\ Costs(stack, cost) \in [1..n -> Nat]
          /\ \A i \in 1..n : Costs(stack, cost)[i] = cost[stack[i].tape]
          /\ AddUp(Costs(stack, cost)) = spent
      BY <1>2, <1>7, TreeFacts
    <2>3. PICK c : /\ Tree(level, c)' /\ c \in [DOMAIN tapes -> Nat]
                   /\ c[name] = cost[name] + 1
                   /\ \A t \in DOMAIN tapes : t # name => c[t] = cost[t]
      <3>1. PICK r : r = StepRecord
        OBVIOUS
      <3>2. r.kind = "step" /\ Adds(r, cost) = 1 /\ 1 \in Nat
        BY <2>1, <3>1
      <3>3. tapes'[name] = Append(tapes[name], r) /\ n \in 1..n /\ n <= n
        BY <1>2, <1>5, <3>1
      <3>4. Records(level, cost, n, name, r)
        BY <1>2, <1>4, <1>5, <3>2, <3>3 DEF Records
      <3>5. \E c : /\ Tree(level, c)' /\ c \in [DOMAIN tapes -> Nat]
                   /\ c[name] = cost[name] + Adds(r, cost)
                   /\ \A t \in DOMAIN tapes : t # name => c[t] = cost[t]
        BY <1>7, <3>4, OneMore
      <3>6. QED
        BY <3>2, <3>5
    <2> DEFINE w == Costs(stack, cost)
               st == stack'
               v == Costs(st, c)
    <2>4. w \in [1..n -> Nat] /\ \A i \in 1..n : w[i] = cost[stack[i].tape]
      BY <2>2
    <2>5. v \in [1..n -> Nat] /\ \A i \in 1..n : v[i] = c[stack[i].tape]
      <3>1. Len(st) = n /\ \A i \in 1..n : st[i].tape = stack[i].tape
        BY <1>4
      <3>2. \A i \in 1..n : c[st[i].tape] \in Nat
        BY <2>2, <2>3, <3>1
      <3> HIDE DEF st
      <3>3. QED
        BY <3>1, <3>2, CostsTyped
    <2> HIDE DEF w, v
    <2>6. v[n] = w[n] + 1 /\ \A i \in 1..n - 1 : v[i] = w[i]
      <3>1. n \in 1..n /\ \A i \in 1..n - 1 : i \in 1..n /\ i # n
        BY <1>2
      <3>2. \A i \in 1..n - 1 : stack[i].tape # name
        BY <1>2, <2>2, <3>1
      <3>3. v[n] = c[name] /\ w[n] = cost[name]
        BY <1>2, <2>4, <2>5, <3>1
      <3>4. ASSUME NEW i \in 1..n - 1 PROVE v[i] = w[i]
        <4>1. i \in 1..n /\ stack[i].tape # name /\ stack[i].tape \in DOMAIN tapes
          BY <2>2, <3>1, <3>2
        <4>2. v[i] = c[stack[i].tape] /\ w[i] = cost[stack[i].tape]
          BY <2>4, <2>5, <4>1
        <4>3. QED
          BY <2>3, <4>1, <4>2
      <3>5. QED
        BY <2>3, <3>3, <3>4
    <2>7. AddUp(v) = AddUp(w) + 1
      <3>1. AddUp(w) \in Nat /\ AddUp(v) \in Nat /\ AddUp(v) + w[n] = AddUp(w) + v[n]
        BY <1>2, <2>4, <2>5, <2>6, Topped
      <3>2. PICK x \in Nat : x = w[n]
        BY <1>2, <2>4
      <3>3. AddUp(v) + x = AddUp(w) + (x + 1)
        BY <2>6, <3>1, <3>2
      <3>4. PICK a \in Nat, b \in Nat : a = AddUp(v) /\ b = AddUp(w)
        BY <3>1
      <3>5. a = b + 1
        <4>1. a + x = b + (x + 1)
          BY <3>3, <3>4
        <4>2. QED
          BY <4>1
      <3>6. QED
        BY <3>4, <3>5
    <2>8. QED
      BY <1>1, <2>2, <2>3, <2>7 DEF Paid, v, w, st
  <1>8. Distinct' => Distinct
    BY <1>1 DEF Distinct
  <1>9. spent' \in Nat /\ DOMAIN tapes' = {ParentTape} \cup Range(used')
    BY <1>1, <1>5 DEF TInv
  <1>10. QED
    BY <1>6, <1>7, <1>8, <1>9 DEF TInv

\* An outcome: what the child cost is its caller's from now on, and the child is gone.
LEMMA FinishPaid ==
  ASSUME TInv, FInv', ~Script, NEW ok, Finish(ok), UNCHANGED <<used, spent>>
  PROVE  TInv'
  <1>a. PICK name, r : name = stack[Len(stack) - 1].tape /\ r = Subagent(Top.tape, ok)
    OBVIOUS
  <1>1. PICK n \in Nat : n = Len(stack) /\ n >= 2
    <2>1. PICK n \in Nat : n = Len(stack)
      BY ListFacts DEF TInv, FInv, Typed
    <2>2. n >= 1 /\ n # 1
      BY <2>1 DEF TInv, FInv, Typed, Script
    <2>3. QED
      BY <2>1, <2>2
  <1>2. tapes' = [tapes EXCEPT ![name] = Append(@, r)] /\ stack' = Front(stack)
    BY <1>a DEF Finish, Recorded
  <1>3. PICK k \in Nat : k = n - 1 /\ k \in 1..n /\ n \in 1..n /\ k <= n /\ k >= 1 /\ k + 1 = n
    <2>1. n - 1 \in Nat /\ n - 1 \in 1..n /\ n \in 1..n /\ n - 1 <= n /\ n - 1 >= 1 /\ (n - 1) + 1 = n
      BY <1>1
    <2>2. QED
      BY <2>1
  <1>4. name = stack[k].tape /\ Top = stack[n] /\ \A i \in 1..n : stack[i].tape \in DOMAIN tapes
    BY <1>a, <1>1, <1>3, TopIsARun DEF TInv, FInv, Typed
  <1>5. r.kind = "subagent" /\ r.tape = stack[n].tape
    BY <1>a, <1>4 DEF Subagent
  <1>6. Len(stack') = k /\ \A i \in 1..k : stack'[i].tape = stack[i].tape
    BY <1>1, <1>2, <1>3, Popped DEF TInv, FInv, Typed
  <1>7. /\ DOMAIN tapes' = DOMAIN tapes /\ tapes'[name] = Append(tapes[name], r)
        /\ \A t \in DOMAIN tapes : t # name => tapes'[t] = tapes[t]
    <2>1. tapes = [t \in DOMAIN tapes |-> tapes[t]]
      BY DEF TInv, FInv, Typed
    <2>2. QED
      BY <1>2, <1>3, <1>4, <2>1
  <1>8. \A t \in DOMAIN tapes' : IsList(tapes'[t])
    <2>1. IsList(tapes'[name])
      <3> DEFINE rs == tapes[name]
                 rt == tapes'[name]
      <3>1. IsList(rs) /\ Grown(rt, rs, r)
        BY <1>3, <1>4, <1>7 DEF TInv, Grown
      <3> HIDE DEF rs, rt
      <3>2. IsList(rt)
        BY <3>1, Appended
      <3>3. QED
        BY <3>2 DEF rt
    <2>2. QED
      BY <1>7, <2>1 DEF TInv
  <1>9. ASSUME Distinct, NEW level, NEW cost, Paid(level, cost)
        PROVE  \E c : Paid(level, c)'
    <2>1. /\ \A i \in 1..n : /\ stack[i].tape \in DOMAIN tapes /\ level[stack[i].tape] = i
                             /\ cost[stack[i].tape] \in Nat
          /\ \A i, j \in 1..n : stack[i].tape = stack[j].tape => i = j
          /\ Costs(stack, cost) \in [1..n -> Nat]
          /\ \A i \in 1..n : Costs(stack, cost)[i] = cost[stack[i].tape]
          /\ AddUp(Costs(stack, cost)) = spent
      <3>1. n = Len(stack) /\ Paid(level, cost)
        BY <1>1, <1>9
      <3>2. QED
        BY <3>1, TreeFacts
    <2>2. Adds(r, cost) = cost[stack[n].tape] /\ Adds(r, cost) \in Nat
      BY <1>3, <1>5, <2>1 DEF Adds
    <2>3. /\ r.tape \in DOMAIN tapes /\ level[r.tape] = level[name] + 1
          /\ \A i \in 1..k : r.tape # stack[i].tape
      <3>1. \A i \in 1..k : i \in 1..n /\ i # n
        BY <1>3
      <3>2. level[name] = k /\ level[stack[n].tape] = n
        BY <1>3, <1>4, <2>1
      <3>3. QED
        BY <1>3, <1>5, <2>1, <3>1, <3>2
    <2>4. PICK c : /\ Tree(level, c)' /\ c \in [DOMAIN tapes -> Nat]
                   /\ c[name] = cost[name] + Adds(r, cost)
                   /\ \A t \in DOMAIN tapes : t # name => c[t] = cost[t]
      <3>1. Records(level, cost, k, name, r)
        BY <1>1, <1>3, <1>4, <1>6, <1>7, <2>2, <2>3 DEF Records
      <3>2. QED
        BY <1>3, <1>9, <3>1, OneMore
    <2> DEFINE w == Costs(stack, cost)
               st == stack'
               v == Costs(st, c)
    <2>5. w \in [1..n -> Nat] /\ \A i \in 1..n : w[i] = cost[stack[i].tape]
      BY <2>1
    <2>6. v \in [1..k -> Nat] /\ \A i \in 1..k : v[i] = c[stack[i].tape]
      <3>1. Len(st) = k /\ \A i \in 1..k : st[i].tape = stack[i].tape
        BY <1>6
      <3>2. \A i \in 1..k : stack[i].tape \in DOMAIN tapes
        BY <1>3, <2>1
      <3>3. \A i \in 1..k : c[st[i].tape] \in Nat
        BY <2>4, <3>1, <3>2
      <3> HIDE DEF st
      <3>4. QED
        BY <3>1, <3>3, CostsTyped
    <2> HIDE DEF w, v
    <2>7. v[n - 1] = w[n - 1] + w[n] /\ \A i \in 1..n - 2 : v[i] = w[i]
      <3>1. \A i \in 1..n - 2 : i \in 1..n /\ i \in 1..k /\ i # k
        BY <1>3
      <3>2. \A i \in 1..n - 2 : stack[i].tape # name /\ stack[i].tape \in DOMAIN tapes
        BY <1>3, <1>4, <2>1, <3>1
      <3>3. \A i \in 1..n - 2 : v[i] = w[i]
        BY <2>4, <2>5, <2>6, <3>1, <3>2
      <3>4. k \in 1..k
        BY <1>3
      <3>5. v[k] = c[name] /\ w[k] = cost[name] /\ w[n] = cost[stack[n].tape]
        BY <1>3, <1>4, <2>5, <2>6, <3>4
      <3>6. QED
        BY <1>3, <2>2, <2>4, <3>3, <3>5
    <2>8. AddUp(v) = AddUp(w)
      <3>1. v \in [1..n - 1 -> Nat]
        BY <1>3, <2>6
      <3>2. QED
        BY <1>1, <2>5, <2>7, <3>1, Merged
    <2>9. QED
      BY <2>1, <2>4, <2>8 DEF Paid, v, w, st
  <1>10. Distinct' => Distinct
    BY DEF Distinct
  <1>11. spent' \in Nat /\ DOMAIN tapes' = {ParentTape} \cup Range(used')
    BY <1>7 DEF TInv
  <1>12. QED
    BY <1>8, <1>9, <1>10, <1>11 DEF TInv

\* At first there is the script's tape, empty, and nothing has been paid.
LEMMA TInvInit == Init => TInv
  <1> SUFFICES ASSUME Init PROVE TInv
    OBVIOUS
  <1>1. /\ stack = <<NewRun(ParentTape)>> /\ used = <<>> /\ spent = 0
        /\ tapes = [name \in {ParentTape} |-> <<>>] /\ FInv
    BY FanOutInit DEF Init
  <1>2. /\ DOMAIN tapes = {ParentTape} /\ tapes[ParentTape] = <<>>
        /\ IsList(<<>>) /\ Len(<<>>) = 0
    <2>1. <<>> \in Seq({})
      OBVIOUS
    <2>2. QED
      BY <1>1, <2>1 DEF IsList
  <1>3. Len(stack) = 1 /\ stack[1].tape = ParentTape
    BY <1>1 DEF NewRun
  <1>4. Range(used) = {}
    BY <1>1 DEF Range
  <1>5. PICK level, cost : /\ level \in [DOMAIN tapes -> 1..9] /\ cost \in [DOMAIN tapes -> Nat]
                           /\ level[ParentTape] = 1 /\ cost[ParentTape] = 0
    <2> DEFINE l == [t \in {ParentTape} |-> 1]
               c == [t \in {ParentTape} |-> 0]
    <2>1. /\ l \in [{ParentTape} -> 1..9] /\ c \in [{ParentTape} -> Nat]
          /\ l[ParentTape] = 1 /\ c[ParentTape] = 0
      OBVIOUS
    <2> HIDE DEF l, c
    <2>2. QED
      BY <1>2, <2>1
  <1>6. Links(<<>>) = {} /\ AddUp(Counts(<<>>, cost)) = 0
    BY <1>2, NothingAdds DEF Links, Counts
  <1>7. Tree(level, cost)
    BY <1>2, <1>3, <1>5, <1>6 DEF Tree
  <1>8. AddUp(Costs(stack, cost)) = 0
    <2> DEFINE w == Costs(stack, cost)
    <2>1. w = [i \in 1..1 |-> cost[stack[i].tape]]
      BY <1>3 DEF Costs
    <2>2. PICK z \in Nat : z = 0
      OBVIOUS
    <2>3. z + 1 = 1 /\ 1..z = {} /\ 1..z + 1 = {1}
      BY <2>2
    <2>4. w \in [1..z + 1 -> Nat] /\ w[z + 1] = 0
      BY <1>3, <1>5, <2>1, <2>3
    <2> HIDE DEF w
    <2> DEFINE e == [i \in 1..z |-> 0]
    <2>5. e \in [1..z -> Nat] /\ \A i \in 1..z : w[i] = e[i]
      BY <2>3
    <2>6. e = <<>>
      BY <2>2
    <2>7. AddUp(e) = 0
      BY <2>6, NothingAdds
    <2> HIDE DEF e
    <2>8. AddUp(e) \in Nat /\ AddUp(w) = AddUp(e) + w[z + 1]
      BY <2>4, <2>5, Pushed
    <2>9. QED
      BY <2>4, <2>7, <2>8 DEF w
  <1>9. QED
    BY <1>1, <1>2, <1>4, <1>5, <1>7, <1>8 DEF TInv, Paid

\* No stack is deeper than a trace follows.
Shallow == MaxDepth \in Nat /\ MaxDepth <= 9

LEMMA TInvNext == ASSUME Shallow, TInv, [Next]_vars PROVE TInv'
  <1>1. FInv'
    BY FanOutNext DEF TInv
  <1>2. Typed /\ Len(stack) \in Nat
    BY TopIsARun DEF TInv, FInv
  <1>3. ASSUME NoChild, UNCHANGED <<tapes, used, spent>>
        PROVE  TInv'
    <2> DEFINE top == [Top EXCEPT !.n = @ + 1]
               t   == stack'
    <2>1. IsRun(top) /\ top.tape = Top.tape
      BY <1>2, SameRun
    <2>2. Changed(t, stack, top)
      BY <1>3 DEF NoChild, Changed
    <2> HIDE DEF top, t
    <2>3. Len(t) = Len(stack) /\ \A i \in 1..Len(stack) : t[i].tape = stack[i].tape
      BY <1>2, <2>1, <2>2, Retopped
    <2>4. QED
      BY <1>1, <1>3, <2>3, StillPaid DEF t
  <1>4. CASE FanOut
    <2>1. PICK label : Child(label)
      BY <1>4 DEF FanOut
    <2>2. spent' = spent /\ Len(stack) < 9
      BY <1>4 DEF FanOut, Script
    <2>3. QED
      BY <1>1, <2>1, <2>2, ChildPaid
  <1>5. CASE FanOutRaises
    BY <1>3, <1>5 DEF FanOutRaises
  <1>6. CASE Delegate
    <2>1. PICK label \in Nested : Child(label)
      BY <1>6 DEF Delegate
    <2>2. spent' = spent /\ Len(stack) < MaxDepth
      BY <1>6 DEF Delegate, Delegates
    <2>3. Len(stack) < 9
      BY <1>2, <2>2 DEF Shallow
    <2>4. QED
      BY <1>1, <2>1, <2>2, <2>3, ChildPaid
  <1>7. CASE DelegateFails
    BY <1>3, <1>7 DEF DelegateFails
  <1>8. CASE Work
    BY <1>1, <1>8, WorkPaid
  <1>9. CASE Return
    BY <1>1, <1>9, FinishPaid DEF Return
  <1>10. CASE Raise
    BY <1>1, <1>10, FinishPaid DEF Raise
  <1>11. CASE Done
    BY <1>1, <1>11, StillPaid DEF Done
  <1>12. CASE Die
    BY <1>1, <1>12, StillPaid DEF Die
  <1>13. CASE UNCHANGED vars
    BY <1>1, <1>13, StillPaid DEF vars
  <1>14. QED
    BY <1>4, <1>5, <1>6, <1>7, <1>8, <1>9, <1>10, <1>11, <1>12, <1>13 DEF Next

\* For every plan, any labels and any number of children and turns: while every child has
\* a name of its own and no stack is deeper than a trace follows, every token paid for is
\* counted once in the traces of the runs under way (build_trace, Spawner.spawn).
THEOREM TokensCountOnceHolds ==
  ASSUME Shallow
  PROVE  Spec => []TokensCountOnce
  <1>1. Init => TInv
    BY TInvInit
  <1>2. TInv /\ [Next]_vars => TInv'
    BY TInvNext
  <1>3. TInv => TokensCountOnce
    BY CountedOnce
  <1>4. QED
    BY <1>1, <1>2, <1>3, PTL DEF Spec

\* For every plan, at any depth and however the children end: fan_out has an outcome for
\* every task it started, in order, and the script's tape has the same ones
\* (agents/subagent.py:57-117).
THEOREM FailureIsLocalHolds == Spec => []FailureIsLocal
  BY FanOutInit, FanOutNext, Local, PTL DEF Spec
=============================================================================
