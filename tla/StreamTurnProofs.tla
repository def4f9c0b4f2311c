--------------------------- MODULE StreamTurnProofs ---------------------------
(***************************************************************************)
(* Theorems about StreamTurn, for every response with calls that can be    *)
(* made, every adapter, every canonical form and every way to cut a        *)
(* response: what a stream assembles is what a whole response says, and a  *)
(* turn read back from its tape makes the request the run itself would     *)
(* make, with all it says in canonical form.                               *)
(***************************************************************************)
EXTENDS StreamTurn, FiniteSetTheorems, SequenceTheorems, WellFoundedInduction, TLAPS

-----------------------------------------------------------------------------
(* Sorting by a number, what came first before what came later *)

\* What is not after i.
Below(p, n, i) == {j \in 1..n : p[j] < p[i] \/ (p[j] = p[i] /\ j <= i)}

LEMMA BelowTyped ==
  ASSUME NEW n \in Nat, NEW p \in [1..n -> Nat], NEW i \in 1..n
  PROVE  IsFiniteSet(Below(p, n, i)) /\ Cardinality(Below(p, n, i)) \in 1..n
  <1> DEFINE B == Below(p, n, i)
             N == 1..n
  <1>1. B \in SUBSET N /\ i \in B
    BY DEF Below
  <1>2. IsFiniteSet(N) /\ Cardinality(N) = n
    BY FS_Interval
  <1> HIDE DEF B, N
  <1>3. IsFiniteSet(B) /\ Cardinality(B) <= n
    BY <1>1, <1>2, FS_Subset
  <1>4. Cardinality(B) \in Nat /\ Cardinality(B) # 0
    BY <1>1, <1>3, FS_CardinalityType, FS_EmptySet
  <1>5. QED
    BY <1>3, <1>4 DEF B

LEMMA BelowNests ==
  ASSUME NEW n \in Nat, NEW p \in [1..n -> Nat], NEW i \in 1..n, NEW j \in 1..n,
         p[i] < p[j] \/ (p[i] = p[j] /\ i < j)
  PROVE  Cardinality(Below(p, n, i)) < Cardinality(Below(p, n, j))
  <1> DEFINE A == Below(p, n, i)
             B == Below(p, n, j)
  <1>1. A \subseteq B
    BY DEF Below
  <1>2. j \in B /\ j \notin A
    BY DEF Below
  <1>a. IsFiniteSet(A) /\ Cardinality(A) \in 1..n /\ IsFiniteSet(B) /\ Cardinality(B) \in 1..n
    BY BelowTyped
  <1> HIDE DEF A, B
  <1>3. IsFiniteSet(B) /\ Cardinality(A) \in Nat /\ Cardinality(B) \in Nat
    BY <1>a
  <1>4. A \in SUBSET B /\ A # B
    BY <1>1, <1>2
  <1>5. Cardinality(A) <= Cardinality(B) /\ Cardinality(A) # Cardinality(B)
    BY <1>3, <1>4, FS_Subset
  <1>6. QED
    BY <1>3, <1>5 DEF A, B

\* Every place is somebody's.
LEMMA PlacesTaken ==
  ASSUME NEW n \in Nat, NEW p \in [1..n -> Nat], NEW k \in 1..n
  PROVE  \E i \in 1..n : Cardinality(Below(p, n, i)) = k
  <1> DEFINE f == [i \in 1..n |-> Cardinality(Below(p, n, i))]
  <1>1. f \in [1..n -> 1..n]
    BY BelowTyped
  <1>2. ASSUME NEW i \in 1..n, NEW j \in 1..n, f[i] = f[j]
        PROVE  i = j
    <2>1. SUFFICES ASSUME i # j PROVE FALSE
      OBVIOUS
    <2>2. p[i] \in Nat /\ p[j] \in Nat
      OBVIOUS
    <2>3. f[i] \in Nat /\ f[j] \in Nat
      BY <1>1
    <2>4. p[i] < p[j] \/ (p[i] = p[j] /\ i < j) \/ p[j] < p[i] \/ (p[j] = p[i] /\ j < i)
      BY <2>1, <2>2
    <2>5. f[i] < f[j] \/ f[j] < f[i]
      BY <2>4, BelowNests
    <2>6. QED
      BY <1>2, <2>3, <2>5
  <1> HIDE DEF f
  <1>3. f \in Injection(1..n, 1..n)
    BY <1>1, <1>2 DEF Injection, IsInjective
  <1>4. IsFiniteSet(1..n)
    BY FS_Interval
  <1>5. f \in Surjection(1..n, 1..n)
    BY <1>3, <1>4, FS_Injection
  <1>6. PICK i \in 1..n : f[i] = k
    BY <1>5 DEF Surjection
  <1>7. QED
    BY <1>6 DEF f

\* at: who comes when; q: by what number.
Sorts(p, q, at, n) ==
  /\ p \in [1..n -> Nat] /\ q \in [1..n -> Nat] /\ at \in [1..n -> 1..n]
  /\ \A k \in 1..n : Cardinality(Below(p, n, at[k])) = k /\ q[k] = p[at[k]]

\* What is sorted is in its places.
LEMMA SortedStays ==
  ASSUME NEW n \in Nat, NEW p, NEW q, NEW at, Sorts(p, q, at, n)
  PROVE  \A k \in 1..n : Cardinality(Below(q, n, k)) = k
  <1> SUFFICES ASSUME NEW k \in 1..n PROVE Cardinality(Below(q, n, k)) = k
    OBVIOUS
  <1>a. /\ p \in [1..n -> Nat] /\ q \in [1..n -> Nat] /\ at \in [1..n -> 1..n]
        /\ \A l \in 1..n : Cardinality(Below(p, n, at[l])) = l /\ q[l] = p[at[l]]
    BY DEF Sorts
  <1>1. ASSUME NEW i \in 1..n, NEW j \in 1..n, i < j
        PROVE  q[i] <= q[j]
    <2>1. SUFFICES ASSUME q[j] < q[i] PROVE FALSE
      BY <1>a
    <2>2. p[at[j]] < p[at[i]] /\ at[i] \in 1..n /\ at[j] \in 1..n
      BY <1>a, <2>1
    <2>3. Cardinality(Below(p, n, at[j])) < Cardinality(Below(p, n, at[i]))
      BY <1>a, <2>2, BelowNests
    <2>4. QED
      BY <1>a, <1>1, <2>3
  <1>2. Below(q, n, k) = 1..k
    <2>1. \A j \in 1..n : j \in 1..k <=> j <= k
      OBVIOUS
    <2>2. 1..k \subseteq 1..n /\ Below(q, n, k) \subseteq 1..n
      BY DEF Below
    <2>3. ASSUME NEW j \in 1..n PROVE j \in Below(q, n, k) <=> j <= k
      <3>1. CASE j < k
        BY <1>a, <1>1, <3>1 DEF Below
      <3>2. CASE j = k
        BY <3>2 DEF Below
      <3>3. CASE j > k
        <4>1. q[k] <= q[j]
          BY <1>1, <3>3
        <4>2. QED
          BY <1>a, <3>3, <4>1 DEF Below
      <3>4. QED
        BY <3>1, <3>2, <3>3
    <2>4. QED
      BY <2>1, <2>2, <2>3
  <1>3. QED
    BY <1>2, FS_Interval

-----------------------------------------------------------------------------
(* order_results *)

LEMMA LastPlace ==
  ASSUME NEW n \in Nat, NEW S, S \subseteq 1..n, S # {}
  PROVE  Max(S) \in S
  <1> DEFINE R == OpToRel(<, Nat)
             T == {n - k : k \in S}
  <1>1. R = {p \in Nat \X Nat : p[1] < p[2]}
    BY DEF OpToRel
  <1>2. IsWellFoundedOn(R, Nat)
    BY NatLessThanWellFounded
  <1> HIDE DEF R
  <1>3. \A k \in S : n - k \in T /\ n - k \in Nat /\ k \in Nat
    OBVIOUS
  <1>4. T \subseteq Nat /\ T # {} /\ \A m \in T : \E x \in S : m = n - x
    BY <1>3
  <1> HIDE DEF T
  <1>5. PICK m \in T : \A k \in T : ~(<<k, m>> \in R)
    BY <1>2, <1>4, WFMin
  <1>6. \A k \in T : ~(k < m)
    BY <1>1, <1>4, <1>5
  <1>7. PICK x \in S : m = n - x
    BY <1>4
  <1>8. \A k \in S : x >= k
    BY <1>3, <1>6, <1>7
  <1>9. \E y \in S : \A k \in S : y >= k
    BY <1>8
  <1>10. QED
    BY <1>9, Zenon DEF Max

\* The results of a turn, one for each call, in whatever order.
IsResults(rs, calls, n) ==
  /\ n \in Nat /\ DOMAIN calls = 1..n /\ rs = [i \in 1..n |-> rs[i]]
  /\ \A i \in 1..n : \E j \in 1..n : calls[j].id = rs[i].call_id

LEMMA Placed ==
  ASSUME NEW rs, NEW calls, NEW n, IsResults(rs, calls, n), NEW i \in 1..n
  PROVE  Position(calls, rs[i].call_id) \in Nat
  <1> DEFINE S == {j \in DOMAIN calls : calls[j].id = rs[i].call_id}
  <1>1. S \subseteq 1..n /\ S # {} /\ n \in Nat
    BY DEF IsResults
  <1>2. Position(calls, rs[i].call_id) = Max(S)
    BY DEF Position
  <1> HIDE DEF S
  <1>3. Max(S) \in S
    BY <1>1, LastPlace
  <1>4. Max(S) \in 1..n
    BY <1>1, <1>3
  <1>5. \A k \in 1..n : k \in Nat
    OBVIOUS
  <1>6. QED
    BY <1>2, <1>4, <1>5

\* Where each result goes.
Places(rs, calls, n) == [i \in 1..n |-> Position(calls, rs[i].call_id)]

LEMMA UptoIsBelow ==
  ASSUME NEW rs, NEW calls, NEW n, IsResults(rs, calls, n), NEW i \in 1..n
  PROVE  Upto(rs, calls, i) = Below(Places(rs, calls, n), n, i)
  BY DEF Upto, Below, Places, IsResults

From(os, rs, n) == \A k \in 1..n : \E i \in 1..n : os[k] = rs[i]

\* Results in their order are in their order.
LEMMA OrderedStays ==
  ASSUME NEW rs, NEW calls, NEW n, IsResults(rs, calls, n), NEW os, os = Ordered(rs, calls)
  PROVE  /\ IsResults(os, calls, n) /\ Ordered(os, calls) = os
         /\ From(os, rs, n)
  <1>a. n \in Nat /\ DOMAIN calls = 1..n /\ DOMAIN rs = 1..n /\ rs = [i \in 1..n |-> rs[i]]
    BY DEF IsResults
  <1>1. CASE calls = <<>>
    BY <1>1, <1>a DEF Ordered, From
  <1>2. CASE calls # <<>>
    <2> DEFINE p == Places(rs, calls, n)
               q == Places(os, calls, n)
               at == [k \in 1..n |-> CHOOSE i \in 1..n : Cardinality(Below(p, n, i)) = k]
    <2>1. p \in [1..n -> Nat]
      BY Placed DEF Places
    <2>2. /\ at \in [1..n -> 1..n]
          /\ \A k \in 1..n : Cardinality(Below(p, n, at[k])) = k
      <3> HIDE DEF p
      <3>1. ASSUME NEW k \in 1..n
            PROVE  at[k] \in 1..n /\ Cardinality(Below(p, n, at[k])) = k
        <4>1. \E i \in 1..n : Cardinality(Below(p, n, i)) = k
          BY <1>a, <2>1, PlacesTaken
        <4>2. QED
          BY <4>1
      <3>2. QED
        BY <3>1
    <2>3. \A i \in 1..n : Upto(rs, calls, i) = Below(p, n, i)
      BY UptoIsBelow
    <2>4. os = [k \in 1..n |-> rs[at[k]]]
      <3>1. os = [k \in 1..n |->
                    rs[CHOOSE i \in 1..n : Cardinality(Upto(rs, calls, i)) = k]]
        BY <1>2, <1>a DEF Ordered
      <3>2. ASSUME NEW k \in 1..n
            PROVE  (CHOOSE i \in 1..n : Cardinality(Upto(rs, calls, i)) = k) = at[k]
        BY <2>3
      <3> HIDE DEF p, at
      <3>3. QED
        BY <3>1, <3>2
    <2> HIDE DEF at
    <2>5. IsResults(os, calls, n) /\ \A k \in 1..n : os[k] = rs[at[k]]
      <3>1. \A k \in 1..n : os[k] = rs[at[k]] /\ at[k] \in 1..n
        BY <2>2, <2>4
      <3>2. os = [k \in 1..n |-> os[k]]
        BY <2>4
      <3>3. \A i \in 1..n : \E j \in 1..n : calls[j].id = rs[i].call_id
        BY DEF IsResults
      <3>4. \A k \in 1..n : \E j \in 1..n : calls[j].id = os[k].call_id
        BY <3>1, <3>3
      <3>5. QED
        BY <1>a, <3>1, <3>2, <3>4 DEF IsResults
    <2>6. q \in [1..n -> Nat] /\ \A k \in 1..n : q[k] = p[at[k]]
      BY <2>2, <2>5, Placed DEF Places
    <2>7. \A k \in 1..n : Upto(os, calls, k) = Below(q, n, k)
      BY <2>5, UptoIsBelow
    <2> HIDE DEF p, q
    <2>8. \A k \in 1..n : Cardinality(Below(q, n, k)) = k
      <3>1. \A k \in 1..n : Cardinality(Below(p, n, at[k])) = k /\ q[k] = p[at[k]]
        BY <2>2, <2>6
      <3>2. n \in Nat /\ p \in [1..n -> Nat] /\ q \in [1..n -> Nat] /\ at \in [1..n -> 1..n]
        BY <1>a, <2>1, <2>2, <2>6
      <3>3. Sorts(p, q, at, n)
        BY <3>1, <3>2 DEF Sorts
      <3>4. QED
        BY <3>2, <3>3, SortedStays
    <2>9. Ordered(os, calls) = [k \in 1..n |->
                    os[CHOOSE i \in 1..n : Cardinality(Upto(os, calls, i)) = k]]
      <3>1. DOMAIN os = 1..n
        BY <2>4
      <3>2. QED
        BY <1>2, <3>1 DEF Ordered
    <2>10. ASSUME NEW k \in 1..n
           PROVE  (CHOOSE i \in 1..n : Cardinality(Upto(os, calls, i)) = k) = k
      <3>1. \A i \in 1..n : Cardinality(Upto(os, calls, i)) = i
        BY <2>7, <2>8
      <3>2. QED
        BY <3>1
    <2>11. Ordered(os, calls) = [k \in 1..n |-> os[k]]
      BY <2>9, <2>10
    <2>12. QED
      BY <2>2, <2>5, <2>11 DEF IsResults, From
  <1>3. QED
    BY <1>1, <1>2

-----------------------------------------------------------------------------
(* The codec gives back what it was given *)

LEMMA KeysAre ==
  ASSUME NEW role, NEW text, NEW calls, NEW results, NEW opaque,
         NEW m, m = Message(role, text, calls, results, opaque)
  PROVE  /\ "role" \in Keys(m)
         /\ "text" \in Keys(m) <=> text # None
         /\ "calls" \in Keys(m) <=> calls # <<>>
         /\ "results" \in Keys(m) <=> results # <<>>
         /\ "opaque" \in Keys(m) <=> opaque # <<>>
  <1>1. /\ m["text"] = text /\ m["calls"] = calls /\ m["results"] = results
        /\ m["opaque"] = opaque
    BY DEF Message
  <1>2. QED
    BY <1>1 DEF Keys

\* All but the results, which go through an encoding of their own.
LEMMA FieldsBack ==
  ASSUME NEW role, NEW text, NEW calls, NEW results, NEW opaque,
         NEW m, m = Message(role, text, calls, results, opaque), NEW pending,
         NEW e, e = Encoded(m, pending)
  PROVE  /\ e.role = role /\ Get(e, "text", None) = text
         /\ Get(e, "calls", <<>>) = calls /\ Get(e, "opaque", <<>>) = opaque
         /\ results = <<>> => Get(e, "results", <<>>) = <<>>
         /\ results # <<>> =>
              LET ordered == Ordered(results, pending)
              IN  Get(e, "results", <<>>) = [i \in DOMAIN ordered |-> EncodedResult(ordered[i])]
  <1>1. /\ m["role"] = role /\ m["text"] = text /\ m["calls"] = calls /\ m.results = results
        /\ m["opaque"] = opaque
    BY DEF Message
  <1> DEFINE ordered == Ordered(results, pending)
             coded   == [i \in DOMAIN ordered |-> EncodedResult(ordered[i])]
  <1>2. e = [k \in Keys(m) |-> IF k = "results" THEN coded ELSE m[k]]
    BY <1>1 DEF Encoded
  <1> HIDE DEF coded
  <1>3. /\ DOMAIN e = Keys(m)
        /\ \A k \in Keys(m) : e[k] = IF k = "results" THEN coded ELSE m[k]
    BY <1>2
  <1>4. /\ "role" \in Keys(m)
        /\ "text" \in Keys(m) <=> text # None
        /\ "calls" \in Keys(m) <=> calls # <<>>
        /\ "results" \in Keys(m) <=> results # <<>>
        /\ "opaque" \in Keys(m) <=> opaque # <<>>
    BY KeysAre
  <1>5. e["role"] = role
    BY <1>1, <1>3, <1>4
  <1>6. Get(e, "text", None) = text
    BY <1>1, <1>3, <1>4 DEF Get
  <1>7. Get(e, "calls", <<>>) = calls
    BY <1>1, <1>3, <1>4 DEF Get
  <1>8. Get(e, "opaque", <<>>) = opaque
    BY <1>1, <1>3, <1>4 DEF Get
  <1>9. /\ results = <<>> => Get(e, "results", <<>>) = <<>>
        /\ results # <<>> => Get(e, "results", <<>>) = coded
    BY <1>1, <1>3, <1>4 DEF Get
  <1>10. QED
    BY <1>5, <1>6, <1>7, <1>8, <1>9 DEF coded

LEMMA MessageBack ==
  ASSUME NEW role, NEW text, NEW calls, NEW opaque,
         NEW m, m = Message(role, text, calls, <<>>, opaque)
  PROVE  DecodeMessage(Encoded(m, <<>>)) = m
  <1> DEFINE e == Encoded(m, <<>>)
  <1>1. /\ e.role = role /\ Get(e, "text", None) = text
        /\ Get(e, "calls", <<>>) = calls /\ Get(e, "opaque", <<>>) = opaque
        /\ Get(e, "results", <<>>) = <<>>
    BY FieldsBack
  <1>2. DecodeMessage(e) = Message(role, text, calls, <<>>, opaque)
    BY <1>1 DEF DecodeMessage
  <1>3. QED
    BY <1>2 DEF e

LEMMA UsageBack ==
  ASSUME NEW a, NEW b, NEW c, NEW u, u = Usage(a, b, c),
         NEW e, e = [k \in {j \in DOMAIN u : u[j] # 0} |-> u[k]]
  PROVE  Usage(Get(e, "input", 0), Get(e, "output", 0), Get(e, "cached", 0)) = u
  <1>1. /\ DOMAIN u = {"input", "output", "cached"}
        /\ u["input"] = a /\ u["output"] = b /\ u["cached"] = c
    BY DEF Usage
  <1>2. ASSUME NEW k \in {"input", "output", "cached"}
        PROVE  Get(e, k, 0) = u[k]
    BY <1>1, <1>2 DEF Get
  <1>3. QED
    BY <1>1, <1>2 DEF Usage

\* The canonical form of a canonical form is itself.
LEMMA CanonicalStays == \A t : Canonical(Canonical(t)) = Canonical(t)
  <1>1. ASSUME NEW t \in DOMAIN Forms
        PROVE  Canonical(Canonical(t)) = Canonical(t)
    <2>1. Canonical(t) = Forms[t]
      BY DEF Canonical
    <2>2. Canonical(Forms[t]) = Forms[t]
      BY FormsAssumption
    <2>3. QED
      BY <2>1, <2>2
  <1>2. ASSUME NEW t, t \notin DOMAIN Forms
        PROVE  Canonical(Canonical(t)) = Canonical(t)
    BY <1>2 DEF Canonical
  <1>3. QED
    BY <1>1, <1>2

\* The parts of a canonical message.
CanonicalCalls(calls)    == [i \in DOMAIN calls |-> CanonicalCall(calls[i])]
CanonicalResult(r)       == Result(r.call_id, Canonical(r.content), r.is_error)
CanonicalResults(rs)     == [i \in DOMAIN rs |-> CanonicalResult(rs[i])]
CanonicalPayloads(os)    == [i \in DOMAIN os |-> <<os[i][1], Canonical(os[i][2])>>]

LEMMA CanonicalParts ==
  ASSUME NEW role, NEW text, NEW calls, NEW results, NEW opaque,
         NEW m, m = Message(role, text, calls, results, opaque)
  PROVE  CanonicalMessage(m) =
           Message(role, Canonical(text), CanonicalCalls(calls), CanonicalResults(results),
                   CanonicalPayloads(opaque))
  <1>1. m.role = role /\ m.text = text /\ m.calls = calls /\ m.results = results /\ m.opaque = opaque
    BY DEF Message
  <1>2. QED
    BY <1>1 DEF CanonicalMessage, CanonicalCalls, CanonicalResults, CanonicalResult,
                CanonicalPayloads

LEMMA CanonicalAgain ==
  ASSUME NEW x
  PROVE  CanonicalMessage(CanonicalMessage(x)) = CanonicalMessage(x)
  <1>1. PICK t, cs, rs, os :
          /\ t = Canonical(x.text) /\ cs = CanonicalCalls(x.calls)
          /\ rs = CanonicalResults(x.results) /\ os = CanonicalPayloads(x.opaque)
    OBVIOUS
  <1>2. CanonicalMessage(x) = Message(x.role, t, cs, rs, os)
    BY <1>1 DEF CanonicalMessage, CanonicalCalls, CanonicalResults, CanonicalResult,
                CanonicalPayloads
  <1>3. CanonicalMessage(Message(x.role, t, cs, rs, os))
          = Message(x.role, Canonical(t), CanonicalCalls(cs), CanonicalResults(rs),
                    CanonicalPayloads(os))
    BY CanonicalParts
  <1>4. Canonical(t) = t
    BY <1>1, CanonicalStays
  <1>5. CanonicalCalls(cs) = cs
    <2>1. DOMAIN cs = DOMAIN x.calls
      BY <1>1 DEF CanonicalCalls
    <2>2. ASSUME NEW i \in DOMAIN x.calls
          PROVE  CanonicalCall(cs[i]) = cs[i]
      <3>1. PICK c, a : c = x.calls[i] /\ a = c.arguments
        OBVIOUS
      <3>2. PICK b : b = [kind |-> a.kind, json |-> Canonical(a.json)]
        OBVIOUS
      <3>3. cs[i] = Call(c.id, c.name, b)
        BY <1>1, <3>1, <3>2 DEF CanonicalCalls, CanonicalCall
      <3>4. PICK d : d = Call(c.id, c.name, b)
        OBVIOUS
      <3>5. d.id = c.id /\ d.name = c.name /\ d.arguments = b
        BY <3>4 DEF Call
      <3>6. b.kind = a.kind /\ b.json = Canonical(a.json)
        BY <3>2
      <3>7. Canonical(b.json) = b.json
        BY <3>6, CanonicalStays
      <3>8. [kind |-> b.kind, json |-> Canonical(b.json)] = b
        BY <3>2, <3>6, <3>7
      <3>9. CanonicalCall(d) = Call(c.id, c.name, b)
        BY <3>5, <3>8 DEF CanonicalCall
      <3>10. QED
        BY <3>3, <3>4, <3>9
    <2>3. CanonicalCalls(cs) = [i \in DOMAIN x.calls |-> cs[i]]
      BY <2>1, <2>2 DEF CanonicalCalls
    <2>4. cs = [i \in DOMAIN x.calls |-> cs[i]]
      BY <1>1 DEF CanonicalCalls
    <2>5. QED
      BY <2>3, <2>4
  <1>6. CanonicalResults(rs) = rs
    <2>1. DOMAIN rs = DOMAIN x.results
      BY <1>1 DEF CanonicalResults
    <2>2. ASSUME NEW i \in DOMAIN x.results
          PROVE  CanonicalResult(rs[i]) = rs[i]
      <3>1. PICK r : r = x.results[i]
        OBVIOUS
      <3>2. rs[i] = Result(r.call_id, Canonical(r.content), r.is_error)
        BY <1>1, <3>1 DEF CanonicalResults, CanonicalResult
      <3>3. PICK d : d = rs[i]
        OBVIOUS
      <3>4. d.call_id = r.call_id /\ d.content = Canonical(r.content) /\ d.is_error = r.is_error
        BY <3>2, <3>3 DEF Result
      <3>5. Canonical(d.content) = Canonical(r.content)
        BY <3>4, CanonicalStays
      <3>6. QED
        BY <3>2, <3>3, <3>4, <3>5 DEF CanonicalResult
    <2>3. CanonicalResults(rs) = [i \in DOMAIN x.results |-> rs[i]]
      BY <2>1, <2>2 DEF CanonicalResults
    <2>4. rs = [i \in DOMAIN x.results |-> rs[i]]
      BY <1>1 DEF CanonicalResults
    <2>5. QED
      BY <2>3, <2>4
  <1>7. CanonicalPayloads(os) = os
    <2>1. DOMAIN os = DOMAIN x.opaque
      BY <1>1 DEF CanonicalPayloads
    <2>2. ASSUME NEW i \in DOMAIN x.opaque
          PROVE  <<os[i][1], Canonical(os[i][2])>> = os[i]
      <3>1. PICK o : o = x.opaque[i]
        OBVIOUS
      <3>2. os[i] = <<o[1], Canonical(o[2])>>
        BY <1>1, <3>1 DEF CanonicalPayloads
      <3>3. PICK a, b : a = o[1] /\ b = Canonical(o[2])
        OBVIOUS
      <3>4. Canonical(b) = b
        BY <3>3, CanonicalStays
      <3>5. QED
        BY <3>2, <3>3, <3>4
    <2>3. CanonicalPayloads(os) = [i \in DOMAIN x.opaque |-> os[i]]
      BY <2>1, <2>2 DEF CanonicalPayloads
    <2>4. os = [i \in DOMAIN x.opaque |-> os[i]]
      BY <1>1 DEF CanonicalPayloads
    <2>5. QED
      BY <2>3, <2>4
  <1>8. QED
    BY <1>2, <1>3, <1>4, <1>5, <1>6, <1>7

\* A message without results comes back in canonical form.
LEMMA CanonicalBack ==
  ASSUME NEW role, NEW text, NEW calls, NEW opaque,
         NEW m, m = Message(role, text, calls, <<>>, opaque)
  PROVE  DecodeMessage(EncodeMessage(m, <<>>)) = CanonicalMessage(m)
  <1>1. CanonicalResults(<<>>) = <<>>
    BY DEF CanonicalResults
  <1>2. PICK c : c = CanonicalMessage(m)
    OBVIOUS
  <1>3. c = Message(role, Canonical(text), CanonicalCalls(calls), <<>>, CanonicalPayloads(opaque))
    BY <1>1, <1>2, CanonicalParts
  <1>4. DecodeMessage(Encoded(c, <<>>)) = c
    BY <1>3, MessageBack
  <1>5. QED
    BY <1>2, <1>4 DEF EncodeMessage

\* Which result each place takes, under calls.
TakenAs(rs, calls) ==
  [k \in DOMAIN rs |-> CHOOSE i \in DOMAIN rs : Cardinality(Upto(rs, calls, i)) = k]

LEMMA OrderedTaken ==
  ASSUME NEW rs, NEW cs, cs # <<>>, NEW p, p = TakenAs(rs, cs)
  PROVE  Ordered(rs, cs) = [k \in DOMAIN rs |-> rs[p[k]]]
  <1>1. Ordered(rs, cs) =
          [k \in DOMAIN rs |->
             rs[CHOOSE i \in DOMAIN rs : Cardinality(Upto(rs, cs, i)) = k]]
    BY DEF Ordered
  <1>2. ASSUME NEW k \in DOMAIN rs
        PROVE  (CHOOSE i \in DOMAIN rs : Cardinality(Upto(rs, cs, i)) = k) = p[k]
    BY DEF TakenAs
  <1>3. QED
    BY <1>1, <1>2

\* The order of results hangs on the ids of the calls alone.
LEMMA OrderedByIds ==
  ASSUME NEW calls, NEW n \in Nat, calls = [i \in 1..n |-> calls[i]], NEW rs
  PROVE  Ordered(rs, CanonicalCalls(calls)) = Ordered(rs, calls)
  <1>1. PICK cs : cs = CanonicalCalls(calls)
    OBVIOUS
  <1>2. DOMAIN cs = 1..n /\ DOMAIN calls = 1..n
    BY <1>1 DEF CanonicalCalls
  <1>3. \A i \in 1..n : cs[i].id = calls[i].id
    BY <1>1, <1>2 DEF CanonicalCalls, CanonicalCall, Call
  <1>4. cs = <<>> <=> calls = <<>>
    <2>1. cs = [i \in 1..n |-> cs[i]]
      BY <1>1, <1>2 DEF CanonicalCalls
    <2>2. n = 0 => cs = <<>> /\ calls = <<>>
      BY <2>1
    <2>3. n # 0 => 1 \in 1..n
      OBVIOUS
    <2>4. n # 0 => cs # <<>> /\ calls # <<>>
      BY <1>2, <2>3
    <2>5. QED
      BY <2>2, <2>4
  <1>5. \A id : Position(cs, id) = Position(calls, id)
    <2>1. \A id : {i \in DOMAIN cs : cs[i].id = id} = {i \in DOMAIN calls : calls[i].id = id}
      BY <1>2, <1>3
    <2>2. QED
      BY <2>1 DEF Position
  <1>6. \A i : Upto(rs, cs, i) = Upto(rs, calls, i)
    BY <1>5 DEF Upto
  <1>7. PICK D : D = DOMAIN rs
    OBVIOUS
  <1>a. PICK p, q : p = TakenAs(rs, cs) /\ q = TakenAs(rs, calls)
    OBVIOUS
  <1>8. ASSUME NEW k \in D
        PROVE  p[k] = q[k]
    <2>1. p[k] = (CHOOSE i \in D : Cardinality(Upto(rs, cs, i)) = k)
      BY <1>7, <1>a DEF TakenAs
    <2>2. q[k] = (CHOOSE i \in D : Cardinality(Upto(rs, calls, i)) = k)
      BY <1>7, <1>a DEF TakenAs
    <2>3. QED
      BY <1>6, <2>1, <2>2
  <1>9. /\ calls # <<>> => Ordered(rs, calls) = [k \in D |-> rs[q[k]]]
        /\ cs # <<>> => Ordered(rs, cs) = [k \in D |-> rs[p[k]]]
    BY <1>7, <1>a, OrderedTaken
  <1>b. [k \in D |-> rs[p[k]]] = [k \in D |-> rs[q[k]]]
    BY <1>8
  <1>10. Ordered(rs, cs) = Ordered(rs, calls)
    <2>1. CASE calls = <<>>
      BY <1>4, <2>1 DEF Ordered
    <2>2. CASE calls # <<>>
      BY <1>4, <1>9, <1>b, <2>2
    <2>3. QED
      BY <2>1, <2>2
  <1>11. QED
    BY <1>1, <1>10

\* What a client returns: a message with calls in a row, why it stopped, and three counts.
IsAnswer(r) ==
  \E text, calls, opaque, stop, a, b, c : \E n \in Nat :
    /\ calls = [i \in 1..n |-> calls[i]]
    /\ r = [message |-> Message("assistant", text, calls, <<>>, opaque),
            stop |-> stop, usage |-> Usage(a, b, c)]

LEMMA ResponseBack ==
  ASSUME NEW r, IsAnswer(r)
  PROVE  DecodeResponse(EncodeResponse(r))
           = [message |-> CanonicalMessage(r.message), stop |-> r.stop, usage |-> r.usage]
  <1>1. PICK text, calls, opaque, stop, a, b, c :
          r = [message |-> Message("assistant", text, calls, <<>>, opaque),
               stop |-> stop, usage |-> Usage(a, b, c)]
    BY DEF IsAnswer
  <1>2. PICK m, u : m = Message("assistant", text, calls, <<>>, opaque) /\ u = Usage(a, b, c)
    OBVIOUS
  <1>3. r.message = m /\ r.stop = stop /\ r.usage = u
    BY <1>1, <1>2
  <1> DEFINE e == [k \in {j \in DOMAIN u : u[j] # 0} |-> u[k]]
  <1>4. EncodeResponse(r) = [message |-> EncodeMessage(m, <<>>), stop |-> stop, usage |-> e]
    BY <1>3 DEF EncodeResponse
  <1>5. Usage(Get(e, "input", 0), Get(e, "output", 0), Get(e, "cached", 0)) = u
    BY <1>2, UsageBack
  <1>6. DecodeMessage(EncodeMessage(m, <<>>)) = CanonicalMessage(m)
    BY <1>2, CanonicalBack
  <1>7. QED
    BY <1>3, <1>4, <1>5, <1>6 DEF DecodeResponse

LEMMA ResultBack ==
  ASSUME NEW id, NEW content, NEW failed \in BOOLEAN, NEW r, r = Result(id, content, failed),
         NEW e, e = EncodedResult(r)
  PROVE  Result(e.call_id, e.content, Get(e, "is_error", FALSE)) = r
  <1>1. r["call_id"] = id /\ r["content"] = content /\ r.is_error = failed /\ r["is_error"] = failed
    BY DEF Result
  <1> DEFINE K == {"call_id", "content"} \cup {k \in {"is_error"} : r.is_error}
  <1>2. e = [k \in K |-> r[k]] /\ "call_id" \in K /\ "content" \in K
    BY DEF EncodedResult
  <1>3. "is_error" \in K <=> failed
    BY <1>1
  <1> HIDE DEF K
  <1>4. DOMAIN e = K /\ e["call_id"] = id /\ e["content"] = content
    BY <1>1, <1>2
  <1>5. Get(e, "is_error", FALSE) = failed
    BY <1>1, <1>2, <1>3, <1>4 DEF Get
  <1>6. QED
    BY <1>4, <1>5 DEF Result

\* Results come back in the order of their calls.
LEMMA ResultsBack ==
  ASSUME NEW calls, NEW n, NEW rs, IsResults(rs, calls, n), n # 0,
         \A i \in 1..n : \E id, content : \E failed \in BOOLEAN : rs[i] = Result(id, content, failed),
         NEW m, m = Message("tool_results", None, <<>>, rs, <<>>)
  PROVE  DecodeMessage(Encoded(m, calls))
           = Message("tool_results", None, <<>>, Ordered(rs, calls), <<>>)
  <1>a. PICK os : os = Ordered(rs, calls)
    OBVIOUS
  <1> DEFINE e  == Encoded(m, calls)
             es == [i \in DOMAIN os |-> EncodedResult(os[i])]
  <1> HIDE DEF es, e
  <1>1. rs # <<>>
    <2>1. DOMAIN rs = 1..n /\ n \in Nat
      BY DEF IsResults
    <2>2. 1 \in DOMAIN rs
      BY <2>1
    <2>3. QED
      BY <2>2
  <1>2. IsResults(os, calls, n) /\ \A k \in 1..n : \E i \in 1..n : os[k] = rs[i]
    <2>1. IsResults(os, calls, n) /\ From(os, rs, n)
      BY <1>a, OrderedStays
    <2>2. QED
      BY <2>1 DEF From
  <1>3. /\ e.role = "tool_results" /\ Get(e, "text", None) = None
        /\ Get(e, "calls", <<>>) = <<>> /\ Get(e, "opaque", <<>>) = <<>>
        /\ Get(e, "results", <<>>) = es
    BY <1>a, <1>1, FieldsBack DEF e, es
  <1>4. DOMAIN os = 1..n /\ os = [i \in 1..n |-> os[i]]
    BY <1>2 DEF IsResults
  <1>5. ASSUME NEW k \in 1..n
        PROVE  Result(es[k].call_id, es[k].content, Get(es[k], "is_error", FALSE)) = os[k]
    <2>1. PICK i \in 1..n : os[k] = rs[i]
      BY <1>2
    <2>2. PICK id, content : \E failed \in BOOLEAN : os[k] = Result(id, content, failed)
      BY <2>1
    <2>3. PICK failed \in BOOLEAN : os[k] = Result(id, content, failed)
      BY <2>2
    <2>4. es[k] = EncodedResult(os[k])
      BY <1>4 DEF es
    <2>5. PICK x, r : x = es[k] /\ r = os[k]
      OBVIOUS
    <2>6. r = Result(id, content, failed) /\ x = EncodedResult(r)
      BY <2>3, <2>4, <2>5
    <2>7. Result(x.call_id, x.content, Get(x, "is_error", FALSE)) = r
      BY <2>6, ResultBack
    <2>8. QED
      BY <2>5, <2>7
  <1>6. DOMAIN es = 1..n
    BY <1>4 DEF es
  <1>7. [i \in DOMAIN es |-> Result(es[i].call_id, es[i].content, Get(es[i], "is_error", FALSE))] = os
    BY <1>4, <1>5, <1>6
  <1>8. DecodeMessage(e) = Message("tool_results", None, <<>>, os, <<>>)
    BY <1>3, <1>7 DEF DecodeMessage
  <1>9. QED
    BY <1>a, <1>8 DEF e

-----------------------------------------------------------------------------
(* Requests *)

LEMMA PlainResults ==
  ASSUME NEW rs, CanonicalResults(rs) = rs
  PROVE  LET x == Message("tool_results", None, <<>>, rs, <<>>) IN CanonicalMessage(x) = x
  <1>1. Canonical(None) = None
    BY FormsAssumption DEF Canonical
  <1>2. CanonicalCalls(<<>>) = <<>> /\ CanonicalPayloads(<<>>) = <<>>
    BY DEF CanonicalCalls, CanonicalPayloads
  <1>3. QED
    BY <1>1, <1>2, CanonicalParts

\* Two histories that differ in the order of the last results only, if in anything.
LEMMA SameRequests ==
  ASSUME NEW t1, NEW t2, NEW m, NEW rs, NEW os, Ordered(rs, m.calls) = Ordered(os, m.calls),
         t1.role # "tool_results", t2.role # "tool_results", m.role # "tool_results",
         rs # <<>>, os # <<>>, CanonicalResults(rs) = rs, CanonicalResults(os) = os,
         NEW g, g = <<t1, t2, m, Message("tool_results", None, <<>>, rs, <<>>)>>,
         NEW h, h = <<t1, t2, m, Message("tool_results", None, <<>>, os, <<>>)>>
  PROVE  RenderMessages({}, g) = RenderMessages({}, h) /\ EncodeHistory(g) = EncodeHistory(h)
  <1>1. /\ DOMAIN g = 1..4 /\ DOMAIN h = 1..4
        /\ \A i \in 1..3 : g[i] = h[i] /\ g[i].role # "tool_results"
        /\ g[3] = m
    <2>1. \A i \in 1..3 : i = 1 \/ i = 2 \/ i = 3
      OBVIOUS
    <2>2. QED
      BY <2>1
  <1>2. PICK x, y : /\ x = Message("tool_results", None, <<>>, rs, <<>>) /\ g[4] = x
                    /\ y = Message("tool_results", None, <<>>, os, <<>>) /\ h[4] = y
    OBVIOUS
  <1>3. /\ x.role = "tool_results" /\ x.results = rs /\ y.role = "tool_results" /\ y.results = os
        /\ x["role"] = y["role"] /\ x["text"] = y["text"] /\ x["calls"] = y["calls"]
        /\ x["opaque"] = y["opaque"]
    BY <1>2 DEF Message
  <1>4. \A i \in 1..4 : i \in 1..3 \/ i = 4
    OBVIOUS
  <1>5. RenderMessages({}, g) = RenderMessages({}, h)
    <2>1. ASSUME NEW i \in 1..4
          PROVE  Pending(g, i) = Pending(h, i)
      <3> DEFINE S == {j \in 1..i - 1 : g[j].role # "tool_results"}
                 T == {j \in 1..i - 1 : h[j].role # "tool_results"}
      <3>1. \A j \in 1..i - 1 : j \in 1..3
        OBVIOUS
      <3>2. S = T /\ S \subseteq 1..3
        BY <1>1, <3>1
      <3>3. Pending(g, i) = (IF S = {} THEN <<>> ELSE g[Max(S)].calls)
            /\ Pending(h, i) = (IF T = {} THEN <<>> ELSE h[Max(T)].calls)
        BY DEF Pending
      <3> HIDE DEF S, T
      <3>4. S # {} => Max(S) \in S
        BY <3>2, LastPlace
      <3>5. QED
        BY <1>1, <3>2, <3>3, <3>4
    <2>2. Pending(g, 4) = m.calls
      <3> DEFINE S == {j \in 1..4 - 1 : g[j].role # "tool_results"}
      <3>1. S = {1, 2, 3}
        BY <1>1
      <3>2. Pending(g, 4) = g[Max(S)].calls
        BY <3>1 DEF Pending
      <3> HIDE DEF S
      <3>3. \A a \in S : (\A b \in S : a >= b) => a = 3
        BY <3>1
      <3>4. \E a \in S : \A b \in S : a >= b
        BY <3>1
      <3>5. Max(S) = 3
        BY <3>3, <3>4 DEF Max
      <3>6. QED
        BY <1>1, <3>2, <3>5
    <2>3. ASSUME NEW i \in 1..4
          PROVE  Rendered({}, g[i], Pending(g, i)) = Rendered({}, h[i], Pending(h, i))
      <3>1. CASE i \in 1..3
        BY <1>1, <2>1, <3>1
      <3>2. CASE i = 4
        <4>1. Pending(g, 4) = m.calls /\ Pending(h, 4) = m.calls
          BY <2>1, <2>2
        <4>2. Rendered({}, x, m.calls) = Rendered({}, y, m.calls)
          BY <1>3 DEF Rendered
        <4>3. QED
          BY <1>2, <3>2, <4>1, <4>2
      <3>3. QED
        BY <1>4, <3>1, <3>2
    <2>4. [i \in DOMAIN g |-> Rendered({}, g[i], Pending(g, i))]
            = [i \in DOMAIN h |-> Rendered({}, h[i], Pending(h, i))]
      BY <1>1, <2>3
    <2>5. QED
      BY <2>4 DEF RenderMessages
  <1>6. EncodeHistory(g) = EncodeHistory(h)
    <2>1. ASSUME NEW i \in 1..4
          PROVE  EncodeMessage(g[i], IF i = 1 THEN <<>> ELSE g[i - 1].calls)
                   = EncodeMessage(h[i], IF i = 1 THEN <<>> ELSE h[i - 1].calls)
      <3>1. CASE i \in 1..3
        <4>1. i # 1 => i - 1 \in 1..3
          BY <3>1
        <4>2. g[i] = h[i] /\ (i # 1 => g[i - 1] = h[i - 1])
          BY <1>1, <3>1, <4>1
        <4>3. QED
          BY <4>2
      <3>2. CASE i = 4
        <4>1. g[i - 1] = m /\ h[i - 1] = m /\ i # 1
          BY <1>1, <3>2
        <4>2. Keys(x) = Keys(y)
          BY <1>2, <1>3 DEF Keys
        <4>3. \A k \in Keys(x) : k # "results" => x[k] = y[k]
          BY <1>3 DEF Keys
        <4>a. CanonicalMessage(x) = x /\ CanonicalMessage(y) = y
          BY <1>2, PlainResults
        <4>b. Encoded(x, m.calls) = Encoded(y, m.calls)
          BY <1>3, <4>2, <4>3 DEF Encoded
        <4>4. EncodeMessage(x, m.calls) = EncodeMessage(y, m.calls)
          BY <4>a, <4>b DEF EncodeMessage
        <4>5. QED
          BY <1>2, <3>2, <4>1, <4>4
      <3>3. QED
        BY <1>4, <3>1, <3>2
    <2>2. QED
      BY <1>1, <2>1 DEF EncodeHistory
  <1>7. QED
    BY <1>5, <1>6

-----------------------------------------------------------------------------
(* The turn on its tape *)

LEMMA TaskFacts ==
  \E t1, t2 : /\ Task = <<t1, t2>>
              /\ t1.role # "tool_results" /\ t2.role # "tool_results"
  <1> DEFINE t1 == Message("system", <<"s">>, <<>>, <<>>, <<>>)
             t2 == Message("user", <<"u">>, <<>>, <<>>, <<>>)
  <1>1. Task = <<t1, t2>>
    BY DEF Task
  <1>2. t1.role = "system" /\ t2.role = "user"
    BY DEF Message
  <1> HIDE DEF t1, t2
  <1>3. t1.role # "tool_results" /\ t2.role # "tool_results"
    BY <1>2
  <1>4. QED
    BY <1>1, <1>3

LEMMA OneMore ==
  ASSUME NEW S, NEW s \in Seq(S), NEW e \in S, NEW n \in Nat, Len(s) = n
  PROVE  /\ s \o <<e>> \in Seq(S) /\ Len(s \o <<e>>) = n + 1
         /\ (s \o <<e>>)[n + 1] = e
         /\ \A i \in 1..n : (s \o <<e>>)[i] = s[i]
  <1>1. PICK t : t = <<e>>
    OBVIOUS
  <1>2. t \in Seq(S) /\ Len(t) = 1 /\ t[1] = e
    BY <1>1
  <1>3. /\ s \o t \in Seq(S) /\ Len(s \o t) = Len(s) + Len(t)
        /\ \A i \in 1..Len(s) + Len(t) :
             (s \o t)[i] = IF i <= Len(s) THEN s[i] ELSE t[i - Len(s)]
    BY <1>2, ConcatProperties
  <1>4. \A i \in 1..n + 1 : (s \o t)[i] = IF i <= n THEN s[i] ELSE t[i - n]
    BY <1>2, <1>3
  <1>5. (s \o t)[n + 1] = e
    <2>1. PICK k \in 1..n + 1 : k = n + 1
      OBVIOUS
    <2>2. (s \o t)[k] = IF k <= n THEN s[k] ELSE t[k - n]
      BY <1>4
    <2>3. ~(k <= n) /\ k - n = 1
      BY <2>1
    <2>4. QED
      BY <1>2, <2>1, <2>2, <2>3
  <1>6. \A i \in 1..n : (s \o t)[i] = s[i]
    <2>1. \A i \in 1..n : i \in 1..n + 1 /\ i <= n
      OBVIOUS
    <2>2. QED
      BY <1>4, <2>1
  <1>7. QED
    BY <1>1, <1>2, <1>3, <1>5, <1>6

LEMMA Joined ==
  ASSUME NEW a, NEW b, NEW c, NEW d
  PROVE  <<a, b>> \o <<c>> \o <<d>> = <<a, b, c, d>>
  <1>1. PICK S, s, whole : S = {a, b, c, d} /\ s = <<a, b>> /\ whole = <<a, b, c, d>>
    OBVIOUS
  <1>2. PICK x : x = s \o <<c>>
    OBVIOUS
  <1>3. PICK y : y = x \o <<d>>
    OBVIOUS
  <1>4. s \in Seq(S) /\ Len(s) = 2 /\ s[1] = a /\ s[2] = b /\ c \in S /\ d \in S
    BY <1>1
  <1>5. /\ x \in Seq(S) /\ Len(x) = 2 + 1 /\ x[2 + 1] = c
        /\ \A i \in 1..2 : x[i] = s[i]
    BY <1>2, <1>4, OneMore
  <1>6. Len(x) = 3 /\ x[1] = a /\ x[2] = b /\ x[3] = c
    BY <1>4, <1>5
  <1>7. /\ y \in Seq(S) /\ Len(y) = 3 + 1 /\ y[3 + 1] = d
        /\ \A i \in 1..3 : y[i] = x[i]
    BY <1>3, <1>4, <1>5, <1>6, OneMore
  <1>8. Len(y) = 4 /\ y[1] = a /\ y[2] = b /\ y[3] = c /\ y[4] = d
    BY <1>6, <1>7
  <1>9. /\ whole \in Seq(S) /\ Len(whole) = 4
        /\ whole[1] = a /\ whole[2] = b /\ whole[3] = c /\ whole[4] = d
    BY <1>1
  <1>10. \A i \in 1..4 : i = 1 \/ i = 2 \/ i = 3 \/ i = 4
    OBVIOUS
  <1>11. \A i \in 1..4 : y[i] = whole[i]
    BY <1>8, <1>9, <1>10
  <1>12. y = whole
    BY <1>7, <1>8, <1>9, <1>11, SeqEqual
  <1>13. QED
    BY <1>1, <1>2, <1>3, <1>12

\* Its canonical form gives a history the key it has already.
LEMMA SameKeys ==
  ASSUME NEW n \in Nat, NEW h, h = [i \in 1..n |-> h[i]],
         \A i \in 1..n : \E k \in Nat : h[i].calls = [j \in 1..k |-> h[i].calls[j]],
         NEW g, g = [i \in DOMAIN h |-> CanonicalMessage(h[i])]
  PROVE  EncodeHistory(g) = EncodeHistory(h)
  <1>1. DOMAIN h = 1..n /\ DOMAIN g = 1..n
    <2>1. DOMAIN h = 1..n
      OBVIOUS
    <2>2. QED
      BY <2>1
  <1>2. ASSUME NEW i \in 1..n
        PROVE  EncodeMessage(g[i], IF i = 1 THEN <<>> ELSE g[i - 1].calls)
                 = EncodeMessage(h[i], IF i = 1 THEN <<>> ELSE h[i - 1].calls)
    <2>1. g[i] = CanonicalMessage(h[i])
      BY <1>1
    <2>2. PICK c : c = CanonicalMessage(h[i])
      OBVIOUS
    <2>3. CanonicalMessage(g[i]) = c
      BY <2>1, <2>2, CanonicalAgain
    <2>4. CASE i = 1
      BY <2>2, <2>3, <2>4 DEF EncodeMessage
    <2>5. CASE i # 1
      <3>1. PICK p \in 1..n : p = i - 1
        BY <2>5
      <3>2. PICK calls, coded : calls = h[p].calls /\ coded = g[p].calls
        OBVIOUS
      <3>3. g[p] = CanonicalMessage(h[p])
        BY <1>1
      <3>4. coded = CanonicalCalls(calls)
        BY <3>2, <3>3 DEF CanonicalMessage, Message, CanonicalCalls
      <3>5. PICK k \in Nat : calls = [j \in 1..k |-> calls[j]]
        BY <3>2
      <3>6. \A rs : Ordered(rs, coded) = Ordered(rs, calls)
        BY <3>4, <3>5, OrderedByIds
      <3>7. Encoded(c, coded) = Encoded(c, calls)
        BY <3>6 DEF Encoded
      <3>8. EncodeMessage(g[i], coded) = EncodeMessage(h[i], calls)
        BY <2>2, <2>3, <3>7 DEF EncodeMessage
      <3>9. QED
        BY <2>5, <3>1, <3>2, <3>8
    <2>6. QED
      BY <2>4, <2>5
  <1>3. QED
    BY <1>1, <1>2 DEF EncodeHistory

\* The prompt and the task, as they come back from the tape.
TaskRead == [i \in DOMAIN Task |-> DecodeMessage(EncodeMessage(Task[i], <<>>))]

\* All of it, when the turn is told by t.
ReadOf(t) ==
  TaskRead \o <<DecodeResponse(t.step).message>> \o [i \in DOMAIN t.rest |-> DecodeMessage(t.rest[i])]

LEMMA TaskComesBack ==
  ASSUME NEW t1, NEW t2, Task = <<t1, t2>>
  PROVE  TaskRead = <<CanonicalMessage(t1), CanonicalMessage(t2)>>
  <1>1. PICK a, b : /\ a = Message("system", <<"s">>, <<>>, <<>>, <<>>)
                    /\ b = Message("user", <<"u">>, <<>>, <<>>, <<>>)
    OBVIOUS
  <1>2. Task = <<a, b>>
    BY <1>1 DEF Task
  <1>3. a = t1 /\ b = t2
    BY <1>2
  <1>4. DecodeMessage(EncodeMessage(t1, <<>>)) = CanonicalMessage(t1)
    BY <1>1, <1>3, CanonicalBack
  <1>5. DecodeMessage(EncodeMessage(t2, <<>>)) = CanonicalMessage(t2)
    BY <1>1, <1>3, CanonicalBack
  <1>6. PICK c, d : c = CanonicalMessage(t1) /\ d = CanonicalMessage(t2)
    OBVIOUS
  <1>7. PICK q : q = <<t1, t2>>
    OBVIOUS
  <1>8. DOMAIN q = 1..2 /\ q[1] = t1 /\ q[2] = t2
    BY <1>7
  <1>9. \A i \in 1..2 : i = 1 \/ i = 2
    OBVIOUS
  <1>10. \A i \in 1..2 : DecodeMessage(EncodeMessage(q[i], <<>>)) = IF i = 1 THEN c ELSE d
    BY <1>4, <1>5, <1>6, <1>8, <1>9
  <1>11. TaskRead = [i \in 1..2 |-> IF i = 1 THEN c ELSE d]
    BY <1>7, <1>8, <1>10 DEF TaskRead
  <1>12. [i \in 1..2 |-> IF i = 1 THEN c ELSE d] = <<c, d>>
    OBVIOUS
  <1>13. QED
    BY <1>6, <1>11, <1>12

\* The messages of the task: no calls in them, and their roles in canonical form too.
LEMMA TaskPlain ==
  ASSUME NEW t1, NEW t2, Task = <<t1, t2>>
  PROVE  /\ t1.calls = <<>> /\ t2.calls = <<>>
         /\ CanonicalMessage(t1).role # "tool_results" /\ CanonicalMessage(t2).role # "tool_results"
  <1>1. PICK a, b : /\ a = Message("system", <<"s">>, <<>>, <<>>, <<>>)
                    /\ b = Message("user", <<"u">>, <<>>, <<>>, <<>>)
    OBVIOUS
  <1>2. Task = <<a, b>>
    BY <1>1 DEF Task
  <1>3. a = t1 /\ b = t2
    BY <1>2
  <1>4. t1.calls = <<>> /\ t2.calls = <<>> /\ t1.role = "system" /\ t2.role = "user"
    BY <1>1, <1>3 DEF Message
  <1>5. CanonicalMessage(t1).role = "system" /\ CanonicalMessage(t2).role = "user"
    BY <1>4 DEF CanonicalMessage, Message
  <1>6. QED
    BY <1>4, <1>5

LEMMA Joined3 ==
  ASSUME NEW a, NEW b, NEW c
  PROVE  <<a, b>> \o <<c>> \o <<>> = <<a, b, c>>
  <1>1. PICK S, s, whole : S = {a, b, c} /\ s = <<a, b>> /\ whole = <<a, b, c>>
    OBVIOUS
  <1>2. PICK x : x = s \o <<c>>
    OBVIOUS
  <1>3. s \in Seq(S) /\ Len(s) = 2 /\ s[1] = a /\ s[2] = b /\ c \in S
    BY <1>1
  <1>4. /\ x \in Seq(S) /\ Len(x) = 2 + 1 /\ x[2 + 1] = c
        /\ \A i \in 1..2 : x[i] = s[i]
    BY <1>2, <1>3, OneMore
  <1>5. Len(x) = 3 /\ x[1] = a /\ x[2] = b /\ x[3] = c
    BY <1>3, <1>4
  <1>6. /\ whole \in Seq(S) /\ Len(whole) = 3 /\ whole[1] = a /\ whole[2] = b /\ whole[3] = c
    BY <1>1
  <1>7. \A i \in 1..3 : i = 1 \/ i = 2 \/ i = 3
    OBVIOUS
  <1>8. \A i \in 1..3 : x[i] = whole[i]
    BY <1>5, <1>6, <1>7
  <1>9. x = whole
    BY <1>4, <1>5, <1>6, <1>8, SeqEqual
  <1>10. x \o <<>> = x
    BY <1>4, ConcatEmptySeq
  <1>11. QED
    BY <1>1, <1>2, <1>9, <1>10

LEMMA RecordCarries ==
  ASSUME Record, history = Task, NEW r, response = {r}, IsAnswer(r)
  PROVE  TapeCarriesTheTurn'
  <1>0. PICK text, calls, opaque, stop, a, b, c :
          \E n \in Nat :
            /\ calls = [i \in 1..n |-> calls[i]]
            /\ r = [message |-> Message("assistant", text, calls, <<>>, opaque),
                    stop |-> stop, usage |-> Usage(a, b, c)]
    BY DEF IsAnswer
  <1>1. PICK n \in Nat :
          /\ calls = [i \in 1..n |-> calls[i]]
          /\ r = [message |-> Message("assistant", text, calls, <<>>, opaque),
                  stop |-> stop, usage |-> Usage(a, b, c)]
    BY <1>0
  <1>2. PICK m : m = Message("assistant", text, calls, <<>>, opaque)
    OBVIOUS
  <1>3. r.message = m /\ m.calls = calls /\ DOMAIN calls = 1..n
    BY <1>1, <1>2 DEF Message
  <1>4. Answer = r /\ Answer' = r
    BY DEF Answer, Record
  <1>5. PICK t1, t2 : Task = <<t1, t2>>
    BY TaskFacts
  <1>a. PICK asked : asked = IF r.stop = "tool_use" THEN calls ELSE <<>>
    OBVIOUS
  <1>b. PICK k \in Nat : asked = [i \in 1..k |-> asked[i]] /\ DOMAIN asked = 1..k
    <2>1. CASE asked = calls
      BY <1>1, <1>3, <2>1
    <2>2. CASE asked = <<>>
      <3>1. asked = [i \in 1..0 |-> asked[i]] /\ DOMAIN asked = 1..0
        BY <2>2
      <3>2. QED
        BY <3>1
    <2>3. QED
      BY <1>a, <2>1, <2>2
  <1>6. PICK failed \in [1..k -> BOOLEAN] :
          LET results == Message("tool_results", None, <<>>,
                           [i \in 1..k |-> Result(asked[i].id, Output, failed[i])], <<>>)
          IN  /\ history' = Task \o <<m>> \o (IF asked = <<>> THEN <<>> ELSE <<results>>)
              /\ told' = {[step |-> EncodeResponse(r),
                           rest |-> IF asked = <<>> THEN <<>>
                                    ELSE <<EncodeMessage(results, asked)>>]}
    <2>1. Answer.message = m
          /\ (IF Answer.stop = "tool_use" THEN Answer.message.calls ELSE <<>>) = asked
      BY <1>3, <1>4, <1>a
    <2> DEFINE A == IF Answer.stop = "tool_use" THEN Answer.message.calls ELSE <<>>
    <2>3. PICK failed \in [DOMAIN A -> BOOLEAN] :
            LET results == Message("tool_results", None, <<>>,
                             [i \in DOMAIN A |-> Result(A[i].id, Output, failed[i])], <<>>)
            IN  /\ history' = history \o <<Answer.message>> \o
                               (IF A = <<>> THEN <<>> ELSE <<results>>)
                /\ told' = {[step |-> EncodeResponse(Answer),
                             rest |-> IF A = <<>> THEN <<>> ELSE <<EncodeMessage(results, A)>>]}
      BY Zenon DEF Record
    <2>a. A = asked
      BY <2>1
    <2> HIDE DEF A
    <2>4. failed \in [1..k -> BOOLEAN]
      BY <1>b, <2>a, <2>3
    <2>5. LET results == Message("tool_results", None, <<>>,
                           [i \in 1..k |-> Result(asked[i].id, Output, failed[i])], <<>>)
          IN  /\ history' = Task \o <<m>> \o (IF asked = <<>> THEN <<>> ELSE <<results>>)
              /\ told' = {[step |-> EncodeResponse(r),
                           rest |-> IF asked = <<>> THEN <<>>
                                    ELSE <<EncodeMessage(results, asked)>>]}
      BY <1>4, <1>b, <2>1, <2>a, <2>3
    <2>6. QED
      BY <2>4, <2>5
  <1>7. PICK rs : rs = [i \in 1..k |-> Result(asked[i].id, Output, failed[i])]
    OBVIOUS
  <1>8. PICK res : res = Message("tool_results", None, <<>>, rs, <<>>)
    OBVIOUS
  <1>9. PICK d : d = [step |-> EncodeResponse(r),
                      rest |-> IF asked = <<>> THEN <<>> ELSE <<EncodeMessage(res, asked)>>]
    OBVIOUS
  <1>10. /\ history' = Task \o <<m>> \o (IF asked = <<>> THEN <<>> ELSE <<res>>)
         /\ told' = {d}
    BY <1>6, <1>7, <1>8, <1>9
  <1>c. PICK cm, c1, c2 : /\ cm = CanonicalMessage(m) /\ c1 = CanonicalMessage(t1)
                          /\ c2 = CanonicalMessage(t2)
    OBVIOUS
  <1>d. /\ cm.calls = CanonicalCalls(calls) /\ cm.role # "tool_results"
        /\ c1.role # "tool_results" /\ c2.role # "tool_results"
    <2>1. PICK ctext, ccalls, cres, cop :
            /\ ctext = Canonical(text) /\ ccalls = CanonicalCalls(calls)
            /\ cres = CanonicalResults(<<>>) /\ cop = CanonicalPayloads(opaque)
      OBVIOUS
    <2>2. cm = Message("assistant", ctext, ccalls, cres, cop)
      BY <1>2, <1>c, <2>1, CanonicalParts
    <2>3. cm.calls = ccalls /\ cm.role = "assistant"
      BY <2>2 DEF Message
    <2>4. QED
      BY <1>5, <1>c, <2>1, <2>3, TaskPlain
  <1>11. DecodeResponse(d.step) = [message |-> cm, stop |-> r.stop, usage |-> r.usage]
    BY <1>3, <1>9, <1>c, ResponseBack
  <1>12. PICK g, h : g = Read' /\ h = history'
    OBVIOUS
  <1>13. g = <<c1, c2>> \o <<cm>> \o [i \in DOMAIN d.rest |-> DecodeMessage(d.rest[i])]
    <2>1. (CHOOSE t \in told' : TRUE) = d
      BY <1>10
    <2>a. Read' = ReadOf(CHOOSE t \in told' : TRUE)
      BY Zenon DEF Read, ReadOf, TaskRead
    <2>b. g = ReadOf(d)
      BY Zenon, <1>12, <2>1, <2>a
    <2>2. g = TaskRead \o <<DecodeResponse(d.step).message>> \o
                [i \in DOMAIN d.rest |-> DecodeMessage(d.rest[i])]
      BY <2>b DEF ReadOf
    <2>3. TaskRead = <<c1, c2>>
      BY <1>5, <1>c, TaskComesBack
    <2>4. DecodeResponse(d.step).message = cm
      BY <1>11
    <2>5. QED
      BY <2>2, <2>3, <2>4
  <1>e. PICK hc : hc = [i \in DOMAIN h |-> CanonicalMessage(h[i])]
    OBVIOUS
  <1>f. t1.calls = <<>> /\ t2.calls = <<>>
    BY <1>5, TaskPlain
  <1>14. RenderMessages({}, g) = RenderMessages({}, hc) /\ EncodeHistory(g) = EncodeHistory(h)
    <2>1. CASE asked = <<>>
      <3>1. d.rest = <<>>
        BY <1>9, <2>1
      <3>2. [i \in DOMAIN d.rest |-> DecodeMessage(d.rest[i])] = <<>>
        BY <3>1
      <3>3. g = <<c1, c2, cm>> /\ h = <<t1, t2, m>>
        <4>1. g = <<c1, c2>> \o <<cm>> \o <<>> /\ h = <<t1, t2>> \o <<m>> \o <<>>
          BY <1>5, <1>10, <1>12, <1>13, <2>1, <3>2
        <4>2. QED
          BY <4>1, Joined3
      <3>4. DOMAIN h = 1..3 /\ h[1] = t1 /\ h[2] = t2 /\ h[3] = m /\ h = [i \in 1..3 |-> h[i]]
        BY <3>3
      <3>5. \A i \in 1..3 : i = 1 \/ i = 2 \/ i = 3
        OBVIOUS
      <3>6. hc = <<c1, c2, cm>>
        <4>1. \A i \in 1..3 : CanonicalMessage(h[i]) = IF i = 1 THEN c1 ELSE IF i = 2 THEN c2 ELSE cm
          BY <1>c, <3>4, <3>5
        <4>2. hc = [i \in 1..3 |-> IF i = 1 THEN c1 ELSE IF i = 2 THEN c2 ELSE cm]
          BY <1>e, <3>4, <4>1
        <4>3. QED
          BY <4>2
      <3>7. EncodeHistory(hc) = EncodeHistory(h)
        <4>1. \A i \in 1..3 : \E j \in Nat : h[i].calls = [x \in 1..j |-> h[i].calls[x]]
          <5>1. \E j \in Nat : m.calls = [x \in 1..j |-> m.calls[x]]
            BY <1>1, <1>3
          <5>2. <<>> = [x \in 1..0 |-> <<>>[x]]
            OBVIOUS
          <5>3. \A i \in 1..3 : h[i].calls = <<>> \/ h[i].calls = m.calls
            BY <1>f, <3>4, <3>5
          <5>4. QED
            BY <5>1, <5>2, <5>3
        <4>2. PICK k0 \in Nat : k0 = 3
          OBVIOUS
        <4>3. h = [i \in 1..k0 |-> h[i]]
          BY <3>4, <4>2
        <4>4. \A i \in 1..k0 : \E j \in Nat : h[i].calls = [x \in 1..j |-> h[i].calls[x]]
          BY <4>1, <4>2
        <4>5. QED
          BY <1>e, <4>3, <4>4, SameKeys
      <3>8. QED
        BY <3>3, <3>6, <3>7
    <2>2. CASE asked # <<>>
      <3>a. asked = calls /\ k = n
        <4>1. asked = calls
          BY <1>a, <2>2
        <4>2. 1..k = 1..n
          BY <1>3, <1>b, <4>1
        <4>3. k = n
          BY <4>2
        <4>4. QED
          BY <4>1, <4>3
      <3>1. n # 0
        BY <1>1, <2>2, <3>a
      <3>b. PICK crs : crs = CanonicalResults(rs)
        OBVIOUS
      <3>c. \A i \in 1..n : crs[i] = Result(calls[i].id, Canonical(Output), failed[i])
        <4>1. ASSUME NEW i \in 1..n
              PROVE  crs[i] = Result(calls[i].id, Canonical(Output), failed[i])
          <5>1. DOMAIN rs = 1..n /\ rs[i] = Result(calls[i].id, Output, failed[i])
            BY <1>7, <3>a
          <5>2. crs[i] = CanonicalResult(rs[i])
            BY <3>b, <5>1 DEF CanonicalResults
          <5>3. QED
            BY <5>1, <5>2 DEF CanonicalResult, Result
        <4>2. QED
          BY <4>1
      <3>2. IsResults(crs, calls, n)
        <4>1. \A i \in 1..n : crs[i].call_id = calls[i].id
          <5>1. ASSUME NEW i \in 1..n
                PROVE  crs[i].call_id = calls[i].id
            <6>1. PICK x, id, content, f : /\ x = crs[i] /\ id = calls[i].id
                                           /\ content = Canonical(Output) /\ f = failed[i]
              OBVIOUS
            <6>2. x = Result(id, content, f)
              BY <3>c, <6>1
            <6>3. x.call_id = id
              BY <6>2 DEF Result
            <6>4. QED
              BY <6>1, <6>3
          <5>2. QED
            BY <5>1
        <4>2. crs = [i \in 1..n |-> crs[i]]
          BY <1>7, <3>a, <3>b DEF CanonicalResults
        <4>3. QED
          BY <1>3, <4>1, <4>2 DEF IsResults
      <3>3. PICK os : os = Ordered(crs, calls)
        OBVIOUS
      <3>4. IsResults(os, calls, n) /\ Ordered(os, calls) = os /\ From(os, crs, n)
        BY <3>2, <3>3, OrderedStays
      <3>5. crs # <<>> /\ os # <<>>
        <4>1. DOMAIN crs = 1..n /\ DOMAIN os = 1..n /\ 1 \in 1..n
          BY <3>1, <3>2, <3>4 DEF IsResults
        <4>2. QED
          BY <4>1
      <3>d. CanonicalResults(crs) = crs /\ CanonicalResults(os) = os
        <4>1. \A i \in 1..n : CanonicalResult(crs[i]) = crs[i]
          <5>1. ASSUME NEW id, NEW f, NEW x, x = Result(id, Canonical(Output), f)
                PROVE  CanonicalResult(x) = x
            <6>1. x.call_id = id /\ x.content = Canonical(Output) /\ x.is_error = f
              BY <5>1 DEF Result
            <6>2. Canonical(x.content) = Canonical(Output)
              BY <6>1, CanonicalStays
            <6>3. QED
              BY <5>1, <6>1, <6>2 DEF CanonicalResult
          <5>2. QED
            BY <3>c, <5>1
        <4>2. \A i \in 1..n : CanonicalResult(os[i]) = os[i]
          BY <3>4, <4>1 DEF From
        <4>3. /\ DOMAIN crs = 1..n /\ crs = [i \in 1..n |-> crs[i]]
              /\ DOMAIN os = 1..n /\ os = [i \in 1..n |-> os[i]]
          BY <3>2, <3>4 DEF IsResults
        <4>4. CanonicalResults(crs) = crs
          BY <4>1, <4>3 DEF CanonicalResults
        <4>5. CanonicalResults(os) = os
          BY <4>2, <4>3 DEF CanonicalResults
        <4>6. QED
          BY <4>4, <4>5
      <3>6. PICK y, cres : /\ y = Message("tool_results", None, <<>>, os, <<>>)
                           /\ cres = Message("tool_results", None, <<>>, crs, <<>>)
        OBVIOUS
      <3>e. CanonicalMessage(res) = cres
        <4>1. Canonical(None) = None
          BY FormsAssumption DEF Canonical
        <4>2. CanonicalCalls(<<>>) = <<>> /\ CanonicalPayloads(<<>>) = <<>>
          BY DEF CanonicalCalls, CanonicalPayloads
        <4>3. QED
          BY <1>8, <3>b, <3>6, <4>1, <4>2, CanonicalParts
      <3>7. DecodeMessage(EncodeMessage(res, asked)) = y
        <4>1. \A i \in 1..n : \E id, content : \E f \in BOOLEAN : crs[i] = Result(id, content, f)
          <5>1. \A i \in 1..n : failed[i] \in BOOLEAN
            BY <3>a
          <5>2. QED
            BY <3>c, <5>1
        <4>2. DecodeMessage(Encoded(cres, calls)) = y
          BY <3>1, <3>2, <3>3, <3>6, <4>1, ResultsBack
        <4>3. QED
          BY <3>a, <3>e, <4>2 DEF EncodeMessage
      <3>8. d.rest = <<EncodeMessage(res, asked)>>
        BY <1>9, <2>2
      <3>9. [i \in DOMAIN d.rest |-> DecodeMessage(d.rest[i])] = <<y>>
        BY <3>7, <3>8
      <3>10. g = <<c1, c2, cm, y>> /\ h = <<t1, t2, m, res>>
        <4>1. g = <<c1, c2>> \o <<cm>> \o <<y>> /\ h = <<t1, t2>> \o <<m>> \o <<res>>
          BY <1>5, <1>10, <1>12, <1>13, <2>2, <3>9
        <4>2. QED
          BY <4>1, Joined
      <3>f. /\ DOMAIN h = 1..4 /\ h[1] = t1 /\ h[2] = t2 /\ h[3] = m /\ h[4] = res
            /\ h = [i \in 1..4 |-> h[i]]
        BY <3>10
      <3>g. \A i \in 1..4 : i = 1 \/ i = 2 \/ i = 3 \/ i = 4
        OBVIOUS
      <3>h. hc = <<c1, c2, cm, cres>>
        <4>1. \A i \in 1..4 : CanonicalMessage(h[i]) =
                 IF i = 1 THEN c1 ELSE IF i = 2 THEN c2 ELSE IF i = 3 THEN cm ELSE cres
          BY <1>c, <3>e, <3>f, <3>g
        <4>2. hc = [i \in 1..4 |-> IF i = 1 THEN c1 ELSE IF i = 2 THEN c2
                                   ELSE IF i = 3 THEN cm ELSE cres]
          BY <1>e, <3>f, <4>1
        <4>3. QED
          BY <4>2
      <3>11. Ordered(os, cm.calls) = Ordered(crs, cm.calls)
        <4>1. \A x : Ordered(x, cm.calls) = Ordered(x, calls)
          BY <1>1, <1>d, OrderedByIds
        <4>2. QED
          BY <3>3, <3>4, <4>1
      <3>12. RenderMessages({}, g) = RenderMessages({}, hc) /\ EncodeHistory(g) = EncodeHistory(hc)
        BY <1>d, <3>5, <3>6, <3>d, <3>10, <3>h, <3>11, SameRequests
      <3>13. EncodeHistory(hc) = EncodeHistory(h)
        <4>1. \A i \in 1..4 : \E j \in Nat : h[i].calls = [x \in 1..j |-> h[i].calls[x]]
          <5>1. \E j \in Nat : m.calls = [x \in 1..j |-> m.calls[x]]
            BY <1>1, <1>3
          <5>2. <<>> = [x \in 1..0 |-> <<>>[x]]
            OBVIOUS
          <5>3. res.calls = <<>>
            BY <1>8 DEF Message
          <5>4. \A i \in 1..4 : h[i].calls = <<>> \/ h[i].calls = m.calls
            BY <1>f, <3>f, <3>g, <5>3
          <5>5. QED
            BY <5>1, <5>2, <5>4
        <4>2. PICK k0 \in Nat : k0 = 4
          OBVIOUS
        <4>3. h = [i \in 1..k0 |-> h[i]]
          BY <3>f, <4>2
        <4>4. \A i \in 1..k0 : \E j \in Nat : h[i].calls = [x \in 1..j |-> h[i].calls[x]]
          BY <4>1, <4>2
        <4>5. QED
          BY <1>e, <4>3, <4>4, SameKeys
      <3>14. QED
        BY <3>12, <3>13
    <2>3. QED
      BY <2>1, <2>2
  <1>15. /\ \A t \in told' : DecodeResponse(t.step) = [message |-> CanonicalMessage(Answer'.message),
                                    stop |-> Answer'.stop, usage |-> Answer'.usage]
         /\ RenderMessages({}, Read') =
              RenderMessages({}, [i \in DOMAIN history' |-> CanonicalMessage(history'[i])])
    BY <1>3, <1>4, <1>10, <1>11, <1>12, <1>14, <1>c, <1>e
  <1>16. StepKey(target'.provider, Read') = StepKey(target'.provider, history')
    BY <1>12, <1>14 DEF StepKey
  <1>17. QED
    BY <1>15, <1>16 DEF TapeCarriesTheTurn

-----------------------------------------------------------------------------
(* A whole response *)

LEMMA ListedTyped ==
  ASSUME NEW f, IsFiniteSet(DOMAIN f)
  PROVE  \E n \in Nat : Listed(f) = [i \in 1..n |-> Listed(f)[i]]
  <1>1. Cardinality(DOMAIN f) \in Nat
    BY FS_CardinalityType
  <1>2. PICK n \in Nat : n = Cardinality(DOMAIN f)
    BY <1>1
  <1>3. Listed(f) = [i \in 1..n |-> Listed(f)[i]]
    BY <1>2 DEF Listed
  <1>4. QED
    BY <1>3

LEMMA CallsAreListed ==
  ASSUME NEW r \in Responses, NEW habits, NEW calls, calls = CallsOf(habits, r)
  PROVE  \E n \in Nat : calls = [i \in 1..n |-> calls[i]]
  <1> DEFINE functions == {i \in DOMAIN r.calls : r.calls[i].type = "function"}
             parsed == [i \in functions |->
                          Call(r.calls[i].id, r.calls[i].name,
                               IF "raw_arguments" \in habits
                               THEN [kind |-> "text", json |-> r.calls[i].json]
                               ELSE Loads(r.calls[i].json))]
             kept == {i \in functions :
                        "drops_malformed" \in habits => parsed[i].arguments.kind # "malformed"}
             f == [i \in kept |-> parsed[i]]
  <1>1. calls = IF "first_call" \in habits /\ Listed(f) # <<>> THEN <<Head(Listed(f))>>
                ELSE Listed(f)
    BY DEF CallsOf
  <1>2. IsFiniteSet(DOMAIN f)
    <2>1. r.calls \in Seq(Range(r.calls))
      BY ResponsesAssumption
    <2>2. PICK m \in Nat : DOMAIN r.calls = 1..m
      BY <2>1
    <2>3. DOMAIN f \in SUBSET (1..m)
      BY <2>2
    <2>4. IsFiniteSet(1..m)
      BY FS_Interval
    <2> HIDE DEF f
    <2>5. QED
      BY <2>3, <2>4, FS_Subset
  <1> HIDE DEF f
  <1>3. CASE calls = Listed(f)
    BY <1>2, <1>3, ListedTyped
  <1>4. CASE calls = <<Head(Listed(f))>>
    <2>1. calls = [i \in 1..1 |-> calls[i]]
      BY <1>4
    <2>2. QED
      BY <2>1
  <1>5. QED
    BY <1>1, <1>3, <1>4

LEMMA ParsedAnswers ==
  ASSUME NEW r \in Responses, NEW habits, NEW provider
  PROVE  IsAnswer(Parsed(habits, provider, r))
  <1>1. PICK text, calls, opaque :
          /\ calls = CallsOf(habits, r)
          /\ Parsed(habits, provider, r).message = Message("assistant", text, calls, <<>>, opaque)
          /\ Parsed(habits, provider, r)
               = [message |-> Message("assistant", text, calls, <<>>, opaque),
                  stop |-> StopOf(habits, r.finish), usage |-> UsageOf(habits, r)]
    BY DEF Parsed
  <1>2. \E a, b, c : UsageOf(habits, r) = Usage(a, b, c)
    BY DEF UsageOf
  <1>3. \E n \in Nat : calls = [i \in 1..n |-> calls[i]]
    BY <1>1, CallsAreListed
  <1>4. QED
    BY <1>1, <1>2, <1>3 DEF IsAnswer

-----------------------------------------------------------------------------
(* What a stream has brought so far *)

\* How much of each call of r is there; and what that makes the client's slots.
Counted(r, at) ==
  /\ at \in [DOMAIN r.calls -> Nat]
  /\ \A i \in DOMAIN r.calls : at[i] <= 1 + Len(r.calls[i].json)

Slot(c, n) ==
  [id |-> c.id, name |-> IF c.type = "function" THEN c.name ELSE Absent,
   json |-> IF c.type = "function" THEN SubSeq(c.json, 1, n) ELSE <<>>]

Collected(r, at) ==
  [i \in {j \in DOMAIN r.calls : at[j] > 0} |-> Slot(r.calls[i], at[i] - 1)]

LEMMA PiecesJoin ==
  ASSUME NEW S, NEW s \in Seq(S), NEW m \in Nat, NEW k \in Nat, m + k <= Len(s)
  PROVE  SubSeq(s, 1, m) \o SubSeq(s, m + 1, m + k) = SubSeq(s, 1, m + k)
  <1>1. /\ 1 \in 1..Len(s) + 1 /\ m \in 1 - 1..Len(s) /\ m + k \in m..Len(s)
    OBVIOUS
  <1>2. QED
    BY <1>1, ConcatAdjacentSubSeq

LEMMA FragmentAdds ==
  ASSUME NEW i \in DOMAIN raw.calls, NEW k \in 0..Len(raw.calls[i].json), CanSend(i, k),
         raw \in Responses, NEW at, at = sent.calls, Counted(raw, at), slots = Collected(raw, at),
         NEW to, to = [at EXCEPT ![i] = Sent(i, k)]
  PROVE  Counted(raw, to) /\ Added(slots, Delta(i, k)) = Collected(raw, to)
  <1>1. PICK c : c = raw.calls[i]
    OBVIOUS
  <1>a. c.json \in Seq(Range(c.json))
    BY <1>1, ResponsesAssumption
  <1>b. c.type = "function" => c.id # Absent /\ c.name # Absent
    BY <1>1, ResponsesAssumption
  <1>2. PICK l \in Nat : l = Len(c.json)
    BY <1>a
  <1>3. at \in [DOMAIN raw.calls -> Nat] /\ at[i] \in Nat /\ at[i] <= 1 + l /\ k \in 0..l
    <2>1. at \in [DOMAIN raw.calls -> Nat] /\ at[i] <= 1 + Len(raw.calls[i].json)
      BY DEF Counted
    <2>2. QED
      BY <1>1, <1>2, <2>1
  <1>4. PICK m \in Nat : m = IF at[i] = 0 THEN 0 ELSE at[i] - 1
    BY <1>3
  <1>5. m + k <= l /\ Sent(i, k) = 1 + m + k
    <2>1. /\ IF at[i] = 0 THEN k <= l ELSE k > 0 /\ at[i] - 1 + k <= l
          /\ Sent(i, k) = IF at[i] = 0 THEN 1 + k ELSE at[i] + k
      BY <1>1, <1>2 DEF CanSend, Sent
    <2>2. QED
      BY <1>3, <1>4, <2>1
  <1>6. /\ to \in [DOMAIN raw.calls -> Nat] /\ to[i] = 1 + m + k
        /\ \A j \in DOMAIN raw.calls : j # i => to[j] = at[j]
    BY <1>3, <1>5
  <1>7. Counted(raw, to)
    <2>1. to[i] <= 1 + Len(raw.calls[i].json)
      BY <1>1, <1>2, <1>3, <1>5, <1>6
    <2>2. \A j \in DOMAIN raw.calls : at[j] <= 1 + Len(raw.calls[j].json)
      BY DEF Counted
    <2>3. QED
      BY <1>6, <2>1, <2>2 DEF Counted
  <1>8. PICK d : d = Delta(i, k)
    OBVIOUS
  <1>9. /\ d.index = i
        /\ d.id = IF at[i] = 0 THEN c.id ELSE Absent
        /\ d.name = IF at[i] = 0 /\ c.type = "function" THEN c.name ELSE Absent
        /\ d.fragment = IF c.type = "function" THEN SubSeq(c.json, m + 1, m + k) ELSE <<>>
    BY <1>1, <1>4, <1>8 DEF Delta
  <1>10. PICK slot : slot = IF i \in DOMAIN slots THEN slots[i]
                            ELSE Partial
    OBVIOUS
  <1>11. /\ DOMAIN slots = {j \in DOMAIN raw.calls : at[j] > 0}
         /\ \A j \in DOMAIN slots : slots[j] = Slot(raw.calls[j], at[j] - 1)
    BY DEF Collected
  <1>c. ASSUME at[i] = 0
        PROVE  slot.id = Absent /\ slot.name = Absent /\ slot.json = <<>> /\ m = 0
    <2>1. i \notin DOMAIN slots
      BY <1>c, <1>11
    <2>2. slot = Partial /\ m = 0
      BY <1>4, <1>10, <1>c, <2>1
    <2>3. QED
      BY <2>2 DEF Partial
  <1>d. ASSUME at[i] # 0
        PROVE  slot = Slot(c, m)
    <2>1. at[i] > 0 /\ at[i] - 1 = m
      BY <1>3, <1>4, <1>d
    <2>2. i \in DOMAIN slots
      BY <1>11, <2>1
    <2>3. slot = Slot(raw.calls[i], at[i] - 1)
      BY <1>10, <1>11, <2>2
    <2>4. QED
      BY <1>1, <2>1, <2>3
  <1>12. slot.json = IF c.type = "function" THEN SubSeq(c.json, 1, m) ELSE <<>>
    <2>1. CASE at[i] = 0
      <3>1. slot.json = <<>> /\ m = 0
        BY <1>c, <2>1
      <3>2. SubSeq(c.json, 1, 0) = <<>>
        BY SubSeqEmpty
      <3>3. QED
        BY <3>1, <3>2
    <2>2. CASE at[i] # 0
      <3>1. slot = Slot(c, m)
        BY <1>d, <2>2
      <3>2. QED
        BY <3>1 DEF Slot
    <2>3. QED
      BY <2>1, <2>2
  <1>13. /\ (IF d.id # Absent THEN d.id ELSE slot.id) = c.id
         /\ (IF d.name # Absent THEN d.name ELSE slot.name)
              = (IF c.type = "function" THEN c.name ELSE Absent)
    <2>1. CASE at[i] = 0
      <3>1. slot.id = Absent /\ slot.name = Absent
        BY <1>c, <2>1
      <3>2. QED
        BY <1>9, <2>1, <3>1
    <2>2. CASE at[i] # 0
      <3>1. slot = Slot(c, m)
        BY <1>d, <2>2
      <3>2. slot.id = c.id /\ slot.name = IF c.type = "function" THEN c.name ELSE Absent
        BY <3>1 DEF Slot
      <3>3. QED
        BY <1>9, <2>2, <3>2
    <2>3. QED
      BY <2>1, <2>2
  <1>14. slot.json \o d.fragment = IF c.type = "function" THEN SubSeq(c.json, 1, m + k) ELSE <<>>
    <2>1. CASE c.type = "function"
      <3>1. SubSeq(c.json, 1, m) \o SubSeq(c.json, m + 1, m + k) = SubSeq(c.json, 1, m + k)
        BY <1>a, <1>2, <1>3, <1>5, PiecesJoin
      <3>2. QED
        BY <1>9, <1>12, <2>1, <3>1
    <2>2. CASE c.type # "function"
      <3>1. slot.json = <<>> /\ d.fragment = <<>>
        BY <1>9, <1>12, <2>2
      <3>2. <<>> \o <<>> = <<>>
        OBVIOUS
      <3>3. QED
        BY <2>2, <3>1, <3>2
    <2>3. QED
      BY <2>1, <2>2
  <1>15. PICK new : new = [id |-> IF d.id # Absent THEN d.id ELSE slot.id,
                           name |-> IF d.name # Absent THEN d.name ELSE slot.name,
                           json |-> slot.json \o d.fragment]
    OBVIOUS
  <1>16. new = Slot(c, m + k)
    BY <1>13, <1>14, <1>15 DEF Slot
  <1>17. Added(slots, d) = [j \in DOMAIN slots \cup {i} |-> IF j # i THEN slots[j] ELSE new]
    BY <1>9, <1>10, <1>15 DEF Added
  <1>18. DOMAIN slots \cup {i} = {j \in DOMAIN raw.calls : to[j] > 0}
    BY <1>6, <1>11
  <1>19. ASSUME NEW j \in DOMAIN slots \cup {i}
         PROVE  (IF j # i THEN slots[j] ELSE new) = Slot(raw.calls[j], to[j] - 1)
    <2>1. CASE j = i
      <3>1. to[j] - 1 = m + k
        BY <1>6, <2>1
      <3>2. QED
        BY <1>1, <1>16, <2>1, <3>1
    <2>2. CASE j # i
      BY <1>6, <1>11, <2>2
    <2>3. QED
      BY <2>1, <2>2
  <1>20. Added(slots, d) = Collected(raw, to)
    BY <1>17, <1>18, <1>19 DEF Collected
  <1>21. QED
    BY <1>7, <1>8, <1>20

-----------------------------------------------------------------------------
(* A stream to its end *)

\* All that has been sent is with the client, in its place.
Brought ==
  /\ sent = [text |-> sent.text, calls |-> sent.calls, finish |-> sent.finish,
             usage |-> sent.usage, trailing |-> sent.trailing]
  /\ sent.text \in 0..Pieces(raw.text) /\ parts = SubSeq(raw.text, 1, sent.text)
  /\ Counted(raw, sent.calls) /\ slots = Collected(raw, sent.calls)
  /\ sent.finish \in BOOLEAN /\ sent.usage \in BOOLEAN /\ (sent.finish => AllSent)
  /\ finish = IF sent.finish THEN raw.finish ELSE Absent
  /\ usage = IF sent.usage THEN UsageOf({}, raw) ELSE Usage(0, 0, 0)

LEMMA PiecesTyped ==
  ASSUME NEW r \in Responses
  PROVE  /\ r.text \in Seq(Range(r.text)) /\ Pieces(r.text) \in 0..Len(r.text)
         /\ SubSeq(r.text, 1, Pieces(r.text)) = IF r.text = None THEN <<>> ELSE r.text
  <1>1. r.text \in Seq(Range(r.text))
    BY ResponsesAssumption
  <1>2. Len(r.text) \in Nat
    BY <1>1
  <1>3. Pieces(r.text) = IF r.text = None THEN 0 ELSE Len(r.text)
    BY DEF Pieces
  <1>4. SubSeq(r.text, 1, 0) = <<>>
    BY SubSeqEmpty
  <1>5. SubSeq(r.text, 1, Len(r.text)) = r.text
    BY <1>1, SubSeqFull
  <1>6. QED
    BY <1>1, <1>2, <1>3, <1>4, <1>5

LEMMA CallsAssemble ==
  ASSUME raw \in Responses, slots = Collected(raw, sent.calls), AllSent
  PROVE  Calls = CallsOf({}, raw)
  <1> DEFINE functions == {i \in DOMAIN raw.calls : raw.calls[i].type = "function"}
             named == {i \in DOMAIN slots : slots[i].id # Absent /\ slots[i].name # Absent}
             called == [i \in functions |-> Call(raw.calls[i].id, raw.calls[i].name,
                                                 Loads(raw.calls[i].json))]
  <1>1. ASSUME NEW i \in DOMAIN raw.calls
        PROVE  /\ i \in DOMAIN slots
               /\ slots[i].id = raw.calls[i].id
               /\ slots[i].name = IF raw.calls[i].type = "function" THEN raw.calls[i].name ELSE Absent
               /\ raw.calls[i].type = "function" => slots[i].json = raw.calls[i].json
    <2>1. PICK c : c = raw.calls[i]
      OBVIOUS
    <2>2. c.json \in Seq(Range(c.json))
      BY <2>1, ResponsesAssumption
    <2>3. PICK l \in Nat : l = Len(c.json)
      BY <2>2
    <2>4. sent.calls[i] = 1 + l
      BY <2>1, <2>3 DEF AllSent, AllOf
    <2>5. sent.calls[i] > 0 /\ sent.calls[i] - 1 = l
      BY <2>4
    <2>6. i \in DOMAIN slots /\ slots[i] = Slot(c, l)
      BY <2>1, <2>5 DEF Collected
    <2>7. SubSeq(c.json, 1, l) = c.json
      BY <2>2, <2>3, SubSeqFull
    <2>8. /\ slots[i].id = c.id
          /\ slots[i].name = IF c.type = "function" THEN c.name ELSE Absent
          /\ slots[i].json = IF c.type = "function" THEN SubSeq(c.json, 1, l) ELSE <<>>
      BY <2>6 DEF Slot
    <2>9. QED
      BY <2>1, <2>6, <2>7, <2>8
  <1>2. ASSUME NEW i \in DOMAIN raw.calls, raw.calls[i].type = "function"
        PROVE  raw.calls[i].id # Absent /\ raw.calls[i].name # Absent
    BY <1>2, ResponsesAssumption
  <1>3. DOMAIN slots \subseteq DOMAIN raw.calls
    BY DEF Collected
  <1>4. named = functions
    BY <1>1, <1>2, <1>3
  <1>5. [i \in named |-> Call(slots[i].id, slots[i].name, Loads(slots[i].json))] = called
    <2>1. ASSUME NEW i \in functions
          PROVE  /\ slots[i].id = raw.calls[i].id /\ slots[i].name = raw.calls[i].name
                 /\ slots[i].json = raw.calls[i].json
      BY <1>1
    <2> HIDE DEF named, functions
    <2>2. QED
      BY <1>4, <2>1
  <1>6. Calls = Listed(called)
    BY <1>5 DEF Calls
  <1>7. CallsOf({}, raw) = Listed(called)
    <2> DEFINE parsed == [i \in functions |->
                            Call(raw.calls[i].id, raw.calls[i].name,
                                 IF "raw_arguments" \in {}
                                 THEN [kind |-> "text", json |-> raw.calls[i].json]
                                 ELSE Loads(raw.calls[i].json))]
               kept == {i \in functions :
                          "drops_malformed" \in {} => parsed[i].arguments.kind # "malformed"}
    <2>1. CallsOf({}, raw) = Listed([i \in kept |-> parsed[i]])
      BY DEF CallsOf
    <2>2. parsed = called /\ kept = functions
      OBVIOUS
    <2>3. [i \in kept |-> parsed[i]] = called
      BY <2>2
    <2> HIDE DEF parsed, kept, called
    <2>4. QED
      BY <2>1, <2>3
  <1>8. QED
    BY <1>6, <1>7

LEMMA EndAssembles ==
  ASSUME raw \in Responses, Brought, sent.finish, sent.usage = (raw.usage # {}),
         NEW whole, whole = Parsed({}, target.provider, raw)
  PROVE  [message |-> Message("assistant", IF parts = <<>> THEN None ELSE parts, Calls, <<>>, <<>>),
          stop |-> StopOf({}, finish), usage |-> usage]
           = [whole EXCEPT !.message.opaque = <<>>,
                           !.message.text = IF @ = <<>> THEN None ELSE @]
  <1>1. Calls = CallsOf({}, raw)
    BY CallsAssemble DEF Brought
  <1>2. (IF parts = <<>> THEN None ELSE parts) = IF raw.text = <<>> THEN None ELSE raw.text
    <2>1. parts = SubSeq(raw.text, 1, Pieces(raw.text))
      BY DEF Brought, AllSent, AllOf
    <2>2. parts = IF raw.text = None THEN <<>> ELSE raw.text
      BY <2>1, PiecesTyped
    <2>3. None # <<>>
      BY DEF None
    <2>4. QED
      BY <2>2, <2>3
  <1>3. finish = raw.finish
    BY DEF Brought
  <1>4. usage = UsageOf({}, raw)
    BY DEF Brought, UsageOf
  <1>5. PICK calls, opaque :
          /\ calls = CallsOf({}, raw)
          /\ whole = [message |-> Message("assistant", raw.text, calls, <<>>, opaque),
                      stop |-> StopOf({}, raw.finish), usage |-> UsageOf({}, raw)]
    <2>1. whole.message.opaque = whole.message.opaque
      OBVIOUS
    <2>2. QED
      BY DEF Parsed
  <1>6. PICK text, kept, stop, counts :
          /\ text = raw.text /\ stop = StopOf({}, raw.finish) /\ counts = UsageOf({}, raw)
          /\ kept = IF raw.text = <<>> THEN None ELSE raw.text
    OBVIOUS
  <1>7. PICK m : m = Message("assistant", text, calls, <<>>, opaque)
    OBVIOUS
  <1>8. /\ whole = [message |-> m, stop |-> stop, usage |-> counts]
        /\ whole.message = m /\ whole.message.text = text
    BY <1>5, <1>6, <1>7 DEF Message
  <1>9. PICK n : n = [m EXCEPT !.opaque = <<>>]
    OBVIOUS
  <1>10. n = Message("assistant", text, calls, <<>>, <<>>)
    BY <1>7, <1>9 DEF Message
  <1>11. [n EXCEPT !.text = kept] = Message("assistant", kept, calls, <<>>, <<>>)
    BY <1>10 DEF Message
  <1>12. PICK x : x = [whole EXCEPT !.message.opaque = <<>>]
    OBVIOUS
  <1>13. x = [message |-> n, stop |-> stop, usage |-> counts]
    BY <1>8, <1>9, <1>12
  <1>14. [x EXCEPT !.message.text = kept]
           = [message |-> [n EXCEPT !.text = kept], stop |-> stop, usage |-> counts]
    BY <1>13
  <1>15. [whole EXCEPT !.message.opaque = <<>>, !.message.text = IF @ = <<>> THEN None ELSE @]
           = [x EXCEPT !.message.text = kept]
    BY <1>6, <1>8, <1>12
  <1>16. QED
    BY <1>1, <1>2, <1>3, <1>4, <1>5, <1>6, <1>11, <1>14, <1>15

LEMMA OpenBrings ==
  ASSUME raw \in Responses, OpenStream, slots = NoSlots, parts = <<>>, finish = Absent,
         usage = Usage(0, 0, 0)
  PROVE  Brought'
  <1>1. PICK at : at = [i \in DOMAIN raw.calls |-> 0]
    OBVIOUS
  <1>2. sent' = [text |-> 0, calls |-> at, finish |-> FALSE, usage |-> FALSE, trailing |-> 0]
    BY <1>1 DEF OpenStream, Nothing
  <1>3. Counted(raw, at)
    <2>1. ASSUME NEW i \in DOMAIN raw.calls
          PROVE  at[i] <= 1 + Len(raw.calls[i].json)
      <3>1. PICK c : c = raw.calls[i]
        OBVIOUS
      <3>2. c.json \in Seq(Range(c.json))
        BY <3>1, ResponsesAssumption
      <3>3. Len(c.json) \in Nat /\ at[i] = 0
        BY <1>1, <3>2
      <3>4. QED
        BY <3>1, <3>3
    <2>2. QED
      BY <1>1, <2>1 DEF Counted
  <1>4. Collected(raw, at) = NoSlots
    BY <1>1 DEF Collected, NoSlots
  <1>5. SubSeq(raw.text, 1, 0) = <<>>
    BY SubSeqEmpty
  <1>6. 0 \in 0..Pieces(raw.text)
    BY PiecesTyped
  <1>7. UNCHANGED <<raw, slots, parts, finish, usage>>
    BY DEF OpenStream
  <1>8. QED
    BY <1>2, <1>3, <1>4, <1>5, <1>6, <1>7 DEF Brought
LEMMA ChunkBrings ==
  ASSUME raw \in Responses, Brought, Chunk
  PROVE  Brought'
  <1>1. PICK n \in 0..Pieces(raw.text) - sent.text, withCall, ends \in BOOLEAN :
          \E i \in IF withCall THEN DOMAIN raw.calls ELSE {0} :
          \E k \in IF withCall THEN 0..Len(raw.calls[i].json) ELSE {0} :
            /\ withCall \/ n > 0
            /\ withCall => CanSend(i, k)
            /\ sent' = [sent EXCEPT !.text = @ + n, !.finish = ends,
                          !.calls = IF withCall THEN [@ EXCEPT ![i] = Sent(i, k)] ELSE @]
            /\ ends => AllOf(sent')
            /\ Takes(SubSeq(raw.text, sent.text + 1, sent.text + n),
                     IF withCall THEN Added(slots, Delta(i, k)) ELSE slots,
                     IF ends THEN raw.finish ELSE Absent, FALSE)
    BY Zenon DEF Chunk
  <1>2. PICK i \in IF withCall THEN DOMAIN raw.calls ELSE {0} :
          \E k \in IF withCall THEN 0..Len(raw.calls[i].json) ELSE {0} :
            /\ withCall \/ n > 0
            /\ withCall => CanSend(i, k)
            /\ sent' = [sent EXCEPT !.text = @ + n, !.finish = ends,
                          !.calls = IF withCall THEN [@ EXCEPT ![i] = Sent(i, k)] ELSE @]
            /\ ends => AllOf(sent')
            /\ Takes(SubSeq(raw.text, sent.text + 1, sent.text + n),
                     IF withCall THEN Added(slots, Delta(i, k)) ELSE slots,
                     IF ends THEN raw.finish ELSE Absent, FALSE)
    BY <1>1
  <1>3. PICK k \in IF withCall THEN 0..Len(raw.calls[i].json) ELSE {0} :
          /\ withCall => CanSend(i, k)
          /\ sent' = [sent EXCEPT !.text = @ + n, !.finish = ends,
                        !.calls = IF withCall THEN [@ EXCEPT ![i] = Sent(i, k)] ELSE @]
          /\ ends => AllOf(sent')
          /\ Takes(SubSeq(raw.text, sent.text + 1, sent.text + n),
                   IF withCall THEN Added(slots, Delta(i, k)) ELSE slots,
                   IF ends THEN raw.finish ELSE Absent, FALSE)
    BY <1>2
  <1>4. PICK at : at = sent.calls
    OBVIOUS
  <1>5. PICK to, added : /\ to = (IF withCall THEN [at EXCEPT ![i] = Sent(i, k)] ELSE at)
                         /\ added = (IF withCall THEN Added(slots, Delta(i, k)) ELSE slots)
    OBVIOUS
  <1>6. Counted(raw, to) /\ added = Collected(raw, to)
    <2>1. CASE withCall
      <3>1. i \in DOMAIN raw.calls /\ k \in 0..Len(raw.calls[i].json) /\ CanSend(i, k)
        BY <1>3, <2>1
      <3>2. to = [at EXCEPT ![i] = Sent(i, k)] /\ added = Added(slots, Delta(i, k))
        BY <1>5, <2>1
      <3>3. Counted(raw, at) /\ slots = Collected(raw, at)
        BY <1>4 DEF Brought
      <3>4. QED
        BY <1>4, <3>1, <3>2, <3>3, FragmentAdds
    <2>2. CASE ~withCall
      BY <1>4, <1>5, <2>2 DEF Brought
    <2>3. QED
      BY <2>1, <2>2
  <1>7. PICK text, trailing, use : text = sent.text /\ trailing = sent.trailing /\ use = sent.usage
    OBVIOUS
  <1>8. sent' = [text |-> text + n, calls |-> to, finish |-> ends, usage |-> use,
                 trailing |-> trailing]
    <2>1. sent = [text |-> text, calls |-> at, finish |-> sent.finish, usage |-> use,
                  trailing |-> trailing]
      BY <1>4, <1>7 DEF Brought
    <2>2. sent' = [sent EXCEPT !.text = text + n, !.finish = ends, !.calls = to]
      BY <1>3, <1>4, <1>5, <1>7
    <2>3. PICK x : x = [sent EXCEPT !.text = text + n]
      OBVIOUS
    <2>4. x = [text |-> text + n, calls |-> at, finish |-> sent.finish, usage |-> use,
               trailing |-> trailing]
      BY <2>1, <2>3
    <2>5. PICK y : y = [x EXCEPT !.finish = ends]
      OBVIOUS
    <2>6. y = [text |-> text + n, calls |-> at, finish |-> ends, usage |-> use,
               trailing |-> trailing]
      BY <2>4, <2>5
    <2>7. [y EXCEPT !.calls = to] = [text |-> text + n, calls |-> to, finish |-> ends,
                                     usage |-> use, trailing |-> trailing]
      BY <2>6
    <2>8. sent' = [y EXCEPT !.calls = to]
      BY <2>2, <2>3, <2>5
    <2>9. QED
      BY <2>7, <2>8
  <1>9. /\ usage' = usage /\ parts' = parts \o SubSeq(raw.text, text + 1, text + n)
        /\ slots' = added
        /\ finish' = IF (IF ends THEN raw.finish ELSE Absent) # Absent
                     THEN (IF ends THEN raw.finish ELSE Absent) ELSE finish
    BY <1>3, <1>5, <1>7 DEF Takes
  <1>10. raw' = raw
    BY DEF Chunk
  <1>11. PICK p \in Nat, l \in Nat : p = Pieces(raw.text) /\ l = Len(raw.text) /\ p <= l
    <2>1. Pieces(raw.text) \in 0..Len(raw.text) /\ raw.text \in Seq(Range(raw.text))
      BY PiecesTyped
    <2>2. Len(raw.text) \in Nat
      BY <2>1
    <2>3. QED
      BY <2>1, <2>2
  <1>12. text \in Nat /\ n \in Nat /\ text + n <= p
    <2>1. text \in 0..p /\ n \in 0..p - text
      BY <1>1, <1>7, <1>11 DEF Brought
    <2>2. QED
      BY <1>11, <2>1
  <1>13. parts' = SubSeq(raw.text, 1, text + n)
    <2>1. raw.text \in Seq(Range(raw.text)) /\ parts = SubSeq(raw.text, 1, text)
      BY <1>7, PiecesTyped DEF Brought
    <2>2. text + n <= Len(raw.text)
      BY <1>11, <1>12
    <2>3. SubSeq(raw.text, 1, text) \o SubSeq(raw.text, text + 1, text + n)
            = SubSeq(raw.text, 1, text + n)
      BY <1>12, <2>1, <2>2, PiecesJoin
    <2>4. QED
      BY <1>9, <2>1, <2>3
  <1>14. finish' = IF ends THEN raw.finish ELSE Absent
    <2>1. finish = Absent
      BY DEF Brought, Chunk
    <2>2. QED
      BY <1>9, <2>1
  <1>15. sent'.finish => AllSent'
    <2>1. ends => AllOf(sent')
      BY <1>3
    <2>2. AllSent' <=> AllOf(sent')
      BY <1>10 DEF AllSent, AllOf
    <2>3. QED
      BY <1>8, <2>1, <2>2
  <1>16. /\ sent'.text = text + n /\ sent'.calls = to /\ sent'.finish = ends /\ sent'.usage = use
         /\ sent'.trailing = trailing /\ use \in BOOLEAN
    BY <1>7, <1>8 DEF Brought
  <1>17. usage' = IF sent'.usage THEN UsageOf({}, raw) ELSE Usage(0, 0, 0)
    BY <1>7, <1>9, <1>16 DEF Brought
  <1>18. text + n \in 0..Pieces(raw.text)
    BY <1>11, <1>12
  <1>19. QED
    BY <1>6, <1>8, <1>9, <1>10, <1>13, <1>14, <1>15, <1>16, <1>17, <1>18 DEF Brought

\* A chunk without text or fragments.
LEMMA EmptyBrings ==
  ASSUME raw \in Responses, Brought, AllSent, raw' = raw,
         NEW why, NEW withUsage \in BOOLEAN, Takes(<<>>, slots, why, withUsage),
         why = raw.finish \/ (why = Absent /\ sent.finish),
         NEW trailing, sent' = [text |-> sent.text, calls |-> sent.calls, finish |-> TRUE,
                                usage |-> sent.usage \/ withUsage, trailing |-> trailing]
  PROVE  Brought'
  <1>1. /\ sent'.text = sent.text /\ sent'.calls = sent.calls /\ sent'.finish = TRUE
        /\ sent'.usage = (sent.usage \/ withUsage) /\ sent'.trailing = trailing
    OBVIOUS
  <1>2. /\ usage' = (IF withUsage THEN UsageOf({}, raw) ELSE usage)
        /\ finish' = (IF why # Absent THEN why ELSE finish)
        /\ parts' = parts \o <<>> /\ slots' = slots
    BY DEF Takes
  <1>3. parts' = parts
    <2>1. raw.text \in Seq(Range(raw.text)) /\ parts = SubSeq(raw.text, 1, Pieces(raw.text))
      BY PiecesTyped DEF Brought, AllSent, AllOf
    <2>2. parts = <<>> \/ parts = raw.text
      BY <2>1, PiecesTyped
    <2>3. parts \in Seq(Range(raw.text))
      <3>1. CASE parts = <<>>
        BY <3>1
      <3>2. CASE parts = raw.text
        BY <2>1, <3>2
      <3>3. QED
        BY <2>2, <3>1, <3>2
    <2>4. QED
      BY <1>2, <2>3, ConcatEmptySeq
  <1>4. finish' = raw.finish
    BY <1>2 DEF Brought
  <1>5. usage' = IF sent'.usage THEN UsageOf({}, raw) ELSE Usage(0, 0, 0)
    BY <1>1, <1>2 DEF Brought
  <1>6. AllSent'
    BY <1>1 DEF AllSent, AllOf
  <1>7. sent' = [text |-> sent'.text, calls |-> sent'.calls, finish |-> sent'.finish,
                 usage |-> sent'.usage, trailing |-> sent'.trailing]
    BY <1>1
  <1>8. QED
    BY <1>1, <1>2, <1>3, <1>4, <1>5, <1>6, <1>7 DEF Brought

LEMMA LastChunkBrings ==
  ASSUME raw \in Responses, Brought, LastChunk
  PROVE  Brought'
  <1>1. /\ AllSent /\ ~sent.finish /\ sent' = [sent EXCEPT !.finish = TRUE]
        /\ Takes(<<>>, slots, raw.finish, FALSE) /\ raw' = raw
    BY DEF LastChunk
  <1>2. PICK trailing : trailing = sent.trailing
    OBVIOUS
  <1>3. PICK why : why = raw.finish
    OBVIOUS
  <1>4. sent' = [text |-> sent.text, calls |-> sent.calls, finish |-> TRUE,
                 usage |-> sent.usage \/ FALSE, trailing |-> trailing]
    BY <1>1, <1>2 DEF Brought
  <1>5. QED
    BY <1>1, <1>3, <1>4, EmptyBrings

LEMMA TrailingBrings ==
  ASSUME raw \in Responses, Brought, Trailing
  PROVE  Brought'
  <1>1. PICK withUsage \in BOOLEAN :
          /\ sent' = [sent EXCEPT !.trailing = @ + 1, !.usage = @ \/ withUsage]
          /\ Takes(<<>>, slots, Absent, withUsage)
    BY DEF Trailing
  <1>2. sent.finish /\ raw' = raw
    BY DEF Trailing
  <1>3. AllSent
    BY <1>2 DEF Brought
  <1>4. PICK trailing : trailing = sent.trailing + 1
    OBVIOUS
  <1>5. PICK why : why = Absent
    OBVIOUS
  <1>6. sent' = [text |-> sent.text, calls |-> sent.calls, finish |-> TRUE,
                 usage |-> sent.usage \/ withUsage, trailing |-> trailing]
    BY <1>1, <1>2, <1>4 DEF Brought
  <1>7. QED
    BY <1>1, <1>2, <1>3, <1>5, <1>6, EmptyBrings

-----------------------------------------------------------------------------
(* The turn *)

Untouched ==
  sent = Nothing /\ slots = NoSlots /\ parts = <<>> /\ finish = Absent /\ usage = Usage(0, 0, 0)

Answered == \E r : response = {r} /\ IsAnswer(r)

\* What holds of the turn, phase by phase.
TurnInv ==
  /\ raw \in Responses
  /\ pc \in {"test", "turn", "refused"} => Untouched
  /\ pc = "stream" => Brought
  /\ pc = "record" => Answered
  /\ pc # "next" => history = Task
  /\ StreamSaysTheSame
  /\ TapeCarriesTheTurn

LEMMA TurnInvInit == Init => TurnInv
  BY DEF Init, TurnInv, Untouched, StreamSaysTheSame, TapeCarriesTheTurn

LEMMA StreamAnswers ==
  ASSUME raw \in Responses, Brought, StreamEnd
  PROVE  Answered' /\ StreamSaysTheSame'
  <1>1. sent.finish /\ sent.usage = (raw.usage # {})
    BY DEF StreamEnd
  <1>2. PICK whole : whole = Parsed({}, target.provider, raw)
    OBVIOUS
  <1>3. PICK r : r = [message |-> Message("assistant", IF parts = <<>> THEN None ELSE parts,
                                          Calls, <<>>, <<>>),
                      stop |-> StopOf({}, finish), usage |-> usage]
    OBVIOUS
  <1>4. response' = {r} /\ raw' = raw /\ target' = target
    BY <1>3 DEF StreamEnd
  <1>5. r = [whole EXCEPT !.message.opaque = <<>>,
                          !.message.text = IF @ = <<>> THEN None ELSE @]
    BY <1>1, <1>2, <1>3, EndAssembles
  <1>6. Answer' = r
    BY <1>4 DEF Answer
  <1>7. StreamSaysTheSame'
    BY <1>2, <1>4, <1>5, <1>6 DEF StreamSaysTheSame
  <1>8. Answered'
    <2>1. PICK calls : calls = Calls
      OBVIOUS
    <2>2. calls = CallsOf({}, raw)
      BY <1>1, <2>1, CallsAssemble DEF Brought
    <2>3. \E n \in Nat : calls = [i \in 1..n |-> calls[i]]
      BY <2>2, CallsAreListed
    <2>4. \E a, b, c : usage = Usage(a, b, c)
      BY DEF Brought, UsageOf
    <2>5. IsAnswer(r)
      BY <1>3, <2>1, <2>3, <2>4 DEF IsAnswer
    <2>6. QED
      BY <1>4, <2>5 DEF Answered
  <1>9. QED
    BY <1>7, <1>8

LEMMA TurnInvNext == TurnInv /\ [Next]_vars => TurnInv'
  <1> SUFFICES ASSUME TurnInv, [Next]_vars
               PROVE  TurnInv'
    OBVIOUS
  <1>a. raw \in Responses
    BY DEF TurnInv
  <1>1. CASE Test
    <2>1. Untouched /\ history = Task
      BY <1>1 DEF Test, TurnInv
    <2>2. Untouched' /\ history' = Task
      BY <1>1, <2>1 DEF Test, Untouched
    <2>3. pc' \in {"turn", "refused"} /\ raw' = raw
      BY <1>1 DEF Test
    <2>4. QED
      BY <1>a, <2>2, <2>3 DEF TurnInv, StreamSaysTheSame, TapeCarriesTheTurn
  <1>2. CASE Complete
    <2>1. Untouched /\ history = Task
      BY <1>2 DEF Complete, TurnInv
    <2>2. pc' = "record" /\ raw' = raw /\ history' = Task /\ sent' = Nothing
      BY <1>2, <2>1 DEF Complete, Untouched
    <2>3. response' = {Parsed(target.habits, target.provider, raw)}
      BY <1>2 DEF Complete
    <2>4. Answered'
      BY <1>a, <2>3, ParsedAnswers DEF Answered
    <2>5. ~sent'.finish
      BY <2>2 DEF Nothing
    <2>6. QED
      BY <1>a, <2>2, <2>4, <2>5 DEF TurnInv, StreamSaysTheSame, TapeCarriesTheTurn
  <1>3. CASE OpenStream
    <2>1. Untouched /\ history = Task
      BY <1>3 DEF OpenStream, TurnInv
    <2>2. Brought'
      BY <1>3, <1>a, <2>1, OpenBrings DEF Untouched
    <2>3. pc' = "stream" /\ raw' = raw /\ history' = Task
      BY <1>3, <2>1 DEF OpenStream
    <2>4. QED
      BY <1>a, <2>2, <2>3 DEF TurnInv, StreamSaysTheSame, TapeCarriesTheTurn
  <1>4. CASE Chunk \/ LastChunk \/ Trailing
    <2>1. pc = "stream" /\ pc' = pc /\ raw' = raw /\ history' = history
      BY <1>4 DEF Chunk, LastChunk, Trailing
    <2>2. Brought /\ history = Task
      BY <2>1 DEF TurnInv
    <2>3. Brought'
      BY <1>4, <1>a, <2>2, ChunkBrings, LastChunkBrings, TrailingBrings
    <2>4. QED
      BY <1>a, <2>1, <2>2, <2>3 DEF TurnInv, StreamSaysTheSame, TapeCarriesTheTurn
  <1>5. CASE StreamEnd
    <2>1. pc = "stream" /\ pc' = "record" /\ raw' = raw /\ history' = history
      BY <1>5 DEF StreamEnd
    <2>2. Brought /\ history = Task
      BY <2>1 DEF TurnInv
    <2>3. Answered' /\ StreamSaysTheSame'
      BY <1>5, <1>a, <2>2, StreamAnswers
    <2>4. QED
      BY <1>a, <2>1, <2>2, <2>3 DEF TurnInv, TapeCarriesTheTurn
  <1>6. CASE Record
    <2>1. pc = "record" /\ pc' = "next" /\ raw' = raw
      BY <1>6 DEF Record
    <2>2. history = Task /\ Answered
      BY <2>1 DEF TurnInv
    <2>3. TapeCarriesTheTurn'
      BY <1>6, <2>2, RecordCarries DEF Answered
    <2>4. QED
      BY <1>a, <2>1, <2>3 DEF TurnInv, StreamSaysTheSame
  <1>7. CASE UNCHANGED vars
    BY <1>7 DEF vars, TurnInv, Untouched, Brought, Answered, AllSent, AllOf, StreamSaysTheSame,
                TapeCarriesTheTurn, Answer, Read
  <1>8. QED
    BY <1>1, <1>2, <1>3, <1>4, <1>5, <1>6, <1>7 DEF Next

LEMMA TurnInvHolds == Spec => []TurnInv
  BY TurnInvInit, TurnInvNext, PTL DEF Spec

\* However a response is cut into chunks, with the fragments of its calls in whatever
\* interleaving, the stream returns the message, the stop reason and the usage that
\* complete would have returned, but for vendor payloads and an empty text
\* (openai.py:312-376, ToolCallAccumulator): for every response and any number of chunks.
THEOREM StreamSaysTheSameHolds == Spec => []StreamSaysTheSame
  <1>1. TurnInv => StreamSaysTheSame
    BY DEF TurnInv
  <1>2. QED
    BY <1>1, TurnInvHolds, PTL

\* What a turn leaves on the tape decodes to the canonical form of the response it took.
\* The messages read back give the step key that the run's own messages give, and the
\* request these would give were they in canonical form, whatever the results and in
\* whatever order the calls' ids put them (jsonl.py:65, canonical.py:23-66, codec.py,
\* recording.py:53-84, keys.py:24-48): for every response and every adapter.
THEOREM TapeCarriesTheTurnHolds == Spec => []TapeCarriesTheTurn
  <1>1. TurnInv => TapeCarriesTheTurn
    BY DEF TurnInv
  <1>2. QED
    BY <1>1, TurnInvHolds, PTL
=============================================================================
