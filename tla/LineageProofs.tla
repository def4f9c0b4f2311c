---------------------------- MODULE LineageProofs ----------------------------
(***************************************************************************)
(* Theorems about Lineage, for any finite number of processes, whatever    *)
(* they are asked to do and however many of them die.                      *)
(***************************************************************************)
EXTENDS Lineage, FiniteSetTheorems, SequenceTheorems, WellFoundedInduction, TLAPS

-----------------------------------------------------------------------------
(* Induction over the naturals *)

\* A set of naturals that is not empty has a least member.
LEMMA LeastNumber ==
  ASSUME NEW T, T \subseteq Nat, T # {}
  PROVE  \E m \in T : \A k \in T : m <= k
  <1> DEFINE R == OpToRel(<, Nat)
  <1>1. R = {p \in Nat \X Nat : p[1] < p[2]}
    BY DEF OpToRel
  <1>2. IsWellFoundedOn(R, Nat)
    BY NatLessThanWellFounded
  <1> HIDE DEF R
  <1>3. PICK m \in T : \A k \in T : ~(<<k, m>> \in R)
    BY <1>2, WFMin
  <1>4. \A k \in T : ~(k < m)
    BY <1>1, <1>3
  <1>5. QED
    BY <1>4

\* What holds of zero and is handed on by every number holds of all of them.
LEMMA SetInduction ==
  ASSUME NEW S, 0 \in S, \A n \in Nat : n \in S => n + 1 \in S
  PROVE  \A n \in Nat : n \in S
  <1> DEFINE T == {n \in Nat : n \notin S}
  <1>1. SUFFICES ASSUME T # {}
                 PROVE  FALSE
    OBVIOUS
  <1>2. PICK m \in T : \A k \in T : m <= k
    <2>1. T \subseteq Nat
      OBVIOUS
    <2> HIDE DEF T
    <2>2. QED
      BY <1>1, <2>1, LeastNumber
  <1>3. m \in Nat /\ m # 0 /\ m - 1 \in Nat
    BY <1>2
  <1>4. m - 1 \in S
    BY <1>2, <1>3
  <1>5. QED
    BY <1>2, <1>3, <1>4

-----------------------------------------------------------------------------
(* The recursion in Only *)

\* f solves it as far as n.
Grown(f, s, places, n) ==
  f = [k \in 0..n |-> IF k = 0 THEN <<>>
                      ELSE IF k \in places THEN Append(f[k-1], s[k]) ELSE f[k-1]]

\* The same, one number at a time.
LEMMA GrownAt ==
  ASSUME NEW f, NEW s, NEW places, NEW n \in Nat, Grown(f, s, places, n)
  PROVE  /\ f[0] = <<>>
         /\ \A k \in 1..n : f[k] = IF k \in places THEN Append(f[k-1], s[k]) ELSE f[k-1]
  <1>1. \A k \in 0..n : f[k] = IF k = 0 THEN <<>> ELSE IF k \in places THEN Append(f[k-1], s[k])
                                                                        ELSE f[k-1]
    BY DEF Grown
  <1>2. 0 \in 0..n /\ \A k \in 1..n : k \in 0..n /\ k # 0
    OBVIOUS
  <1>3. QED
    BY <1>1, <1>2

\* A solution can be continued.
LEMMA GrownStep ==
  ASSUME NEW s, NEW places, NEW n \in Nat, NEW f, Grown(f, s, places, n)
  PROVE  \E g : Grown(g, s, places, n + 1)
  <1> DEFINE g == [k \in 0..n + 1 |-> IF k = n + 1 THEN IF k \in places THEN Append(f[n], s[k]) ELSE f[n] ELSE f[k]]
  <1>1. \A k \in 0..n : f[k] = IF k = 0 THEN <<>> ELSE IF k \in places THEN Append(f[k-1], s[k]) ELSE f[k-1]
    BY DEF Grown
  <1>2. \A k \in 0..n : g[k] = f[k]
    OBVIOUS
  <1>3. ASSUME NEW k \in 0..n + 1
        PROVE g[k] = IF k = 0 THEN <<>> ELSE IF k \in places THEN Append(g[k-1], s[k]) ELSE g[k-1]
    <2>1. CASE k = n + 1
      <3>1. g[k] = (IF k \in places THEN Append(f[n], s[k]) ELSE f[n]) /\ k # 0 /\ k - 1 = n
        BY <2>1
      <3>2. g[k-1] = f[n]
        BY <1>2, <3>1
      <3> HIDE DEF g
      <3>3. QED
        BY <3>1, <3>2
    <2>2. CASE k # n + 1
      <3>1. k \in 0..n /\ (k # 0 => k - 1 \in 0..n)
        BY <2>2
      <3> HIDE DEF g
      <3>2. QED
        BY <3>1, <1>1, <1>2
    <2>3. QED
      BY <2>1, <2>2
  <1>4. g = [k \in 0..n + 1 |-> g[k]]
    OBVIOUS
  <1> HIDE DEF g
  <1>5. g = [k \in 0..n + 1 |-> IF k = 0 THEN <<>> ELSE IF k \in places THEN Append(g[k-1], s[k]) ELSE g[k-1]]
    BY <1>3, <1>4
  <1>6. QED
    BY <1>5 DEF Grown

\* There is one as far as any number.
LEMMA GrownExists ==
  ASSUME NEW s, NEW places
  PROVE  \A n \in Nat : \E f : Grown(f, s, places, n)
  <1> DEFINE S == {n \in Nat : \E f : Grown(f, s, places, n)}
  <1>1. 0 \in S
    <2>1. Grown([k \in 0..0 |-> <<>>], s, places, 0)
      BY DEF Grown
    <2>2. QED
      BY <2>1
  <1>2. \A n \in Nat : n \in S => n + 1 \in S
    BY GrownStep
  <1>3. QED
    <2> HIDE DEF S
    <2>1. \A n \in Nat : n \in S
      BY <1>1, <1>2, SetInduction
    <2>2. QED
      BY <2>1 DEF S

\* So Only is the last value of one.
LEMMA OnlyIsGrown ==
  ASSUME NEW s, Len(s) \in Nat, NEW places
  PROVE  \E f : Grown(f, s, places, Len(s)) /\ Tape!Only(s, places) = f[Len(s)]
  <1> DEFINE f == CHOOSE f : Grown(f, s, places, Len(s))
  <1>1. Grown(f, s, places, Len(s))
    BY GrownExists
  <1>2. Tape!Only(s, places) = f[Len(s)]
    BY DEF Tape!Only, Grown
  <1>3. QED
    BY <1>1, <1>2

LEMMA OnlyEmpty == \A places : Tape!Only(<<>>, places) = <<>>
  <1> SUFFICES ASSUME NEW places
               PROVE  Tape!Only(<<>>, places) = <<>>
    OBVIOUS
  <1>1. Len(<<>>) = 0
    OBVIOUS
  <1>2. PICK f : Grown(f, <<>>, places, 0) /\ Tape!Only(<<>>, places) = f[0]
    BY <1>1, OnlyIsGrown
  <1>3. QED
    BY <1>2 DEF Grown

\* A record more: it is kept at the end, or left out.
LEMMA OnlyAppend ==
  ASSUME NEW T, NEW s \in Seq(T), NEW e \in T, NEW places, NEW more,
         \A i \in 1..Len(s) : i \in more <=> i \in places
  PROVE  Tape!Only(Append(s, e), more)
           = IF Len(s) + 1 \in more THEN Append(Tape!Only(s, places), e) ELSE Tape!Only(s, places)
  <1> DEFINE t == Append(s, e)
  <1>1. /\ Len(s) \in Nat /\ Len(t) = Len(s) + 1 /\ t[Len(s) + 1] = e
        /\ \A i \in 1..Len(s) : t[i] = s[i]
    BY AppendProperties, LenProperties
  <1> HIDE DEF t
  <1>2. PICK f : Grown(f, s, places, Len(s)) /\ Tape!Only(s, places) = f[Len(s)]
    BY <1>1, OnlyIsGrown
  <1>3. PICK g : Grown(g, t, more, Len(s) + 1) /\ Tape!Only(t, more) = g[Len(s) + 1]
    BY <1>1, OnlyIsGrown
  <1>4. /\ f[0] = <<>>
        /\ \A k \in 1..Len(s) : f[k] = IF k \in places THEN Append(f[k-1], s[k]) ELSE f[k-1]
    BY <1>1, <1>2, GrownAt
  <1>5. /\ g[0] = <<>>
        /\ \A k \in 1..Len(s) + 1 : g[k] = IF k \in more THEN Append(g[k-1], t[k]) ELSE g[k-1]
    BY <1>1, <1>3, GrownAt
  <1> DEFINE S == {n \in Nat : n <= Len(s) => f[n] = g[n]}
  <1>6. ASSUME NEW n \in Nat, n <= Len(s) => f[n] = g[n], n + 1 <= Len(s)
        PROVE  f[n + 1] = g[n + 1]
    <2>1. n <= Len(s) /\ n + 1 \in 1..Len(s) /\ n + 1 \in 1..Len(s) + 1 /\ (n + 1) - 1 = n
      BY <1>1, <1>6
    <2>2. QED
      BY <1>1, <1>4, <1>5, <1>6, <2>1
  <1>7. f[Len(s)] = g[Len(s)]
    <2>1. 0 \in S /\ \A n \in Nat : n \in S => n + 1 \in S
      BY <1>4, <1>5, <1>6
    <2> HIDE DEF S
    <2>2. Len(s) \in S
      BY <1>1, <2>1, SetInduction
    <2>3. QED
      BY <1>1, <2>2 DEF S
  <1>8. g[Len(s) + 1] = IF Len(s) + 1 \in more THEN Append(g[Len(s)], e) ELSE g[Len(s)]
    <2>1. Len(s) + 1 \in 1..Len(s) + 1 /\ (Len(s) + 1) - 1 = Len(s)
      BY <1>1
    <2>2. QED
      BY <1>1, <1>5, <2>1
  <1>9. QED
    BY <1>2, <1>3, <1>7, <1>8 DEF t

\* What is kept is of the type of the elements at the places kept.
LEMMA OnlyTyped ==
  ASSUME NEW U, NEW s, Len(s) \in Nat, NEW places,
         \A i \in 1..Len(s) : i \in places => s[i] \in U
  PROVE  Tape!Only(s, places) \in Seq(U)
  <1>1. PICK f : Grown(f, s, places, Len(s)) /\ Tape!Only(s, places) = f[Len(s)]
    BY OnlyIsGrown
  <1>2. /\ f[0] = <<>>
        /\ \A k \in 1..Len(s) : f[k] = IF k \in places THEN Append(f[k-1], s[k]) ELSE f[k-1]
    BY <1>1, GrownAt
  <1> DEFINE S == {n \in Nat : n <= Len(s) => f[n] \in Seq(U)}
  <1>3. ASSUME NEW n \in Nat, n <= Len(s) => f[n] \in Seq(U), n + 1 <= Len(s)
        PROVE  f[n + 1] \in Seq(U)
    <2>1. n <= Len(s) /\ n + 1 \in 1..Len(s) /\ (n + 1) - 1 = n
      BY <1>3
    <2>2. n + 1 \in places => Append(f[n], s[n + 1]) \in Seq(U)
      BY <1>3, <2>1, AppendProperties
    <2>3. QED
      BY <1>2, <1>3, <2>1, <2>2
  <1>4. 0 \in S /\ \A n \in Nat : n \in S => n + 1 \in S
    <2>1. 0 \in S
      BY <1>2, EmptySeq
    <2>2. ASSUME NEW n \in Nat, n \in S
          PROVE  n + 1 \in S
      <3>1. n + 1 <= Len(s) => f[n + 1] \in Seq(U)
        BY <1>3, <2>2
      <3>2. QED
        BY <3>1
    <2>3. QED
      BY <2>1, <2>2
  <1> HIDE DEF S
  <1>5. Len(s) \in S
    BY <1>4, SetInduction
  <1>6. QED
    BY <1>1, <1>5 DEF S

-----------------------------------------------------------------------------
(* Types *)

Ids       == Nat \X Nat
Speakers  == {"none", "system", "task", "nudge", "model", "tools"}
Acts      == {"", "read", "write", "done"}
Kinds     == {"header", "fork", "resumed_from", "run_start", "message", "snapshot", "step",
              "tool_result", "run_end"}
Messages  == [who : Speakers, id : Ids, act : Acts, saw : SUBSET Ids]
Histories == Seq(Messages)
Events    == [kind : Kinds, step : Nat, msg : Messages, key : Histories]
Stamped == [seq : Nat, event : Events]
Lines     == [text : Stamped, end : {"whole", "bare", "torn", "junk"}]
Names     == Seq({"run", "fork", "resumed"} \X Nat)

Cached(c) == DOMAIN c \subseteq Histories /\ \A k \in DOMAIN c : c[k] \in Messages

Planning == Restoring \cup {"decide", "open"}
Early    == {"idle", "provenance", "start"} \cup Planning
Taking   == {"snap", "snapwiping", "snapcopy", "snapcopying"}
Live     == Appending \cup Taking \cup {"ask", "tool"}
Pcs  == {"idle"} \cup Planning \cup Live \cup Ended

Fields == {"pc", "cmd", "src", "out", "handle", "fresh", "seq", "step", "hist", "logged",
           "cache", "resp", "sound", "restored", "beside", "todo", "got", "whole"}

\* What a session knows of the copy it makes.
HandsTyped(s) == ses[s].todo \subseteq Ids /\ ses[s].got \subseteq Ids /\ ses[s].whole \in BOOLEAN

SessionTyped(s) ==
  LET x == ses[s]
  IN /\ DOMAIN x = Fields
     /\ x.pc \in Pcs
     /\ IF x.pc = "idle" THEN x = Idle ELSE x.cmd \in Commands[s]
     /\ x.src \in Names /\ x.out \in Names
     /\ x.handle \in BOOLEAN /\ x.fresh \in BOOLEAN /\ x.seq \in Nat /\ x.step \in Nat
     /\ x.hist \in Histories /\ x.logged \in Nat /\ Cached(x.cache) /\ x.resp \in Messages
     /\ x.sound \in {"faithful", "simulated"} /\ x.restored \in Nat \cup {None} /\ x.beside \subseteq Sessions
     /\ (x.pc = "log" => x.logged < Len(x.hist))
     /\ (x.pc = "results" => x.hist # <<>>)
     /\ (x.pc \in Early => x.logged = 0) /\ (x.pc \in Planning => x.seq = 0)
     /\ (x.pc \in Restoring => x.restored \in Nat) /\ HandsTyped(s)

TreesTyped ==
  /\ DOMAIN trees \subseteq Nat \cup {Home}
  /\ trees = [d \in DOMAIN trees |-> trees[d]]
  /\ \A d \in DOMAIN trees : trees[d] \subseteq Ids

Typed ==
  /\ DOMAIN files \subseteq Names /\ \A n \in DOMAIN files : files[n] \in Seq(Lines)
  /\ TreesTyped
  /\ DOMAIN ses = Sessions /\ ses = [s \in Sessions |-> ses[s]]
  /\ \A s \in Sessions : SessionTyped(s)

-----------------------------------------------------------------------------
(* What a step of a session leaves alone *)

\* The other sessions, and what this one was given when it was started.
Others(s) == /\ DOMAIN ses' = Sessions /\ ses' = [t \in Sessions |-> ses'[t]]
             /\ \A t \in Sessions : t # s => ses'[t] = ses[t]
Fixed(s)  == /\ ses'[s].cmd = ses[s].cmd /\ ses'[s].src = ses[s].src /\ ses'[s].out = ses[s].out
             /\ ses'[s].cache = ses[s].cache /\ ses'[s].sound = ses[s].sound
             /\ ses'[s].restored = ses[s].restored /\ ses'[s].beside = ses[s].beside
Loops == {"pc", "handle", "fresh", "seq", "step", "hist", "logged", "resp", "todo", "got", "whole"}

LEMMA WithFacts ==
  ASSUME NEW old, NEW know
  PROVE  /\ DOMAIN With(old, know) = DOMAIN old
         /\ \A f \in DOMAIN old : With(old, know)[f] = IF f \in DOMAIN know THEN know[f] ELSE old[f]
  BY DEF With

LEMMA GoesFacts ==
  ASSUME Typed, NEW s \in Sessions, NEW know, DOMAIN know \subseteq Loops,
         Goes(s, know)
  PROVE  /\ Others(s) /\ Fixed(s) /\ DOMAIN ses'[s] = Fields
         /\ ses'[s].pc = IF "pc" \in DOMAIN know THEN know.pc ELSE ses[s].pc
         /\ ses'[s].handle = IF "handle" \in DOMAIN know THEN know.handle ELSE ses[s].handle
         /\ ses'[s].fresh = IF "fresh" \in DOMAIN know THEN know.fresh ELSE ses[s].fresh
         /\ ses'[s].seq = IF "seq" \in DOMAIN know THEN know.seq ELSE ses[s].seq
         /\ ses'[s].step = IF "step" \in DOMAIN know THEN know.step ELSE ses[s].step
         /\ ses'[s].hist = IF "hist" \in DOMAIN know THEN know.hist ELSE ses[s].hist
         /\ ses'[s].logged = IF "logged" \in DOMAIN know THEN know.logged ELSE ses[s].logged
         /\ ses'[s].resp = IF "resp" \in DOMAIN know THEN know.resp ELSE ses[s].resp
         /\ ses'[s].todo = IF "todo" \in DOMAIN know THEN know.todo ELSE ses[s].todo
         /\ ses'[s].got = IF "got" \in DOMAIN know THEN know.got ELSE ses[s].got
         /\ ses'[s].whole = IF "whole" \in DOMAIN know THEN know.whole ELSE ses[s].whole
  <1>1. DOMAIN ses = Sessions /\ DOMAIN ses[s] = Fields
    BY DEF Typed, SessionTyped
  <1>2. ses' = [ses EXCEPT ![s] = With(ses[s], know)]
    BY <1>1 DEF Goes
  <1>3. Others(s) /\ ses'[s] = With(ses[s], know)
    BY <1>1, <1>2 DEF Others
  <1>4. /\ DOMAIN ses'[s] = Fields
        /\ \A f \in Fields : ses'[s][f] = IF f \in DOMAIN know THEN know[f] ELSE ses[s][f]
    BY <1>1, <1>3, WithFacts
  <1>5. Fixed(s)
    <2>1. \A f \in Fields \ Loops : ses'[s][f] = ses[s][f]
      BY <1>4
    <2>2. QED
      BY <2>1 DEF Fixed, Fields, Loops
  <1>6. QED
    BY <1>3, <1>4, <1>5 DEF Fields

Moves(s) == Others(s) /\ Fixed(s) /\ DOMAIN ses'[s] = Fields
Still(s) == /\ ses'[s].handle = ses[s].handle /\ ses'[s].fresh = ses[s].fresh
            /\ ses'[s].seq = ses[s].seq /\ ses'[s].step = ses[s].step
            /\ ses'[s].hist = ses[s].hist /\ ses'[s].logged = ses[s].logged
            /\ ses'[s].resp = ses[s].resp
Hands(s) == ses'[s].todo = ses[s].todo /\ ses'[s].got = ses[s].got /\ ses'[s].whole = ses[s].whole

LEMMA PcFacts ==
  ASSUME Typed, NEW s \in Sessions, NEW p, Goes(s, [pc |-> p])
  PROVE  Moves(s) /\ Still(s) /\ Hands(s) /\ ses'[s].pc = p
  <1>1. DOMAIN [pc |-> p] = {"pc"} /\ [pc |-> p].pc = p
    OBVIOUS
  <1> DEFINE know == [pc |-> p]
  <1> HIDE DEF know
  <1>2. DOMAIN know = {"pc"} /\ know.pc = p /\ Goes(s, know) /\ DOMAIN know \subseteq Loops
    BY <1>1 DEF know, Loops
  <1>3. QED
    BY <1>2, GoesFacts DEF Moves, Still, Hands

\* A step of a copy: it changes how far s is with it.
LEMMA HandsFacts ==
  ASSUME Typed, NEW s \in Sessions, NEW know, DOMAIN know \subseteq {"pc", "todo", "got", "whole"},
         Goes(s, know)
  PROVE  /\ Moves(s) /\ Still(s)
         /\ ses'[s].pc = IF "pc" \in DOMAIN know THEN know.pc ELSE ses[s].pc
         /\ ses'[s].todo = IF "todo" \in DOMAIN know THEN know.todo ELSE ses[s].todo
         /\ ses'[s].got = IF "got" \in DOMAIN know THEN know.got ELSE ses[s].got
         /\ ses'[s].whole = IF "whole" \in DOMAIN know THEN know.whole ELSE ses[s].whole
  <1>1. /\ DOMAIN know \subseteq Loops
        /\ {"handle", "fresh", "seq", "step", "hist", "logged", "resp"} \cap DOMAIN know = {}
    BY DEF Loops
  <1>2. QED
    BY <1>1, GoesFacts DEF Moves, Still

LEMMA DecideFacts ==
  ASSUME Typed, NEW s \in Sessions, Decide(s)
  PROVE  /\ Moves(s) /\ Still(s) /\ Hands(s) /\ ses'[s].pc \in {"refused", "over", "open"}
         /\ ses'[s].pc = "refused" => ses[s].sound = "simulated"
  <1>1. PICK p : Goes(s, [pc |-> p]) /\ p \in {"refused", "over", "open"}
                 /\ (p = "refused" => ses[s].sound = "simulated")
    BY DEF Decide
  <1>2. QED
    BY <1>1, PcFacts

LEMMA OpenFacts ==
  ASSUME Typed, NEW s \in Sessions, Open(s)
  PROVE  /\ Moves(s) /\ Hands(s) /\ ses'[s].handle = TRUE /\ ses'[s].fresh = (FileOf(ses[s].out) = <<>>)
         /\ ses'[s].pc = IF ses[s].cmd.kind = "run" THEN "start" ELSE "provenance"
         /\ ses'[s].seq = ses[s].seq /\ ses'[s].step = ses[s].step
         /\ ses'[s].hist = ses[s].hist /\ ses'[s].logged = ses[s].logged
         /\ ses'[s].resp = ses[s].resp
  <1> DEFINE know == [pc |-> IF ses[s].cmd.kind = "run" THEN "start" ELSE "provenance",
                      handle |-> TRUE, fresh |-> FileOf(ses[s].out) = <<>>]
  <1>1. /\ DOMAIN know = {"pc", "handle", "fresh"} /\ Goes(s, know) /\ know.handle = TRUE
        /\ know.pc = (IF ses[s].cmd.kind = "run" THEN "start" ELSE "provenance")
        /\ know.fresh = (FileOf(ses[s].out) = <<>>)
    BY DEF Open
  <1> HIDE DEF know
  <1>2. DOMAIN know \subseteq Loops
    BY <1>1 DEF Loops
  <1>3. QED
    BY <1>1, <1>2, GoesFacts DEF Moves, Hands

\* The response comes from the cache, or is a new one of s.
LEMMA AskFacts ==
  ASSUME Typed, NEW s \in Sessions, Ask(s)
  PROVE  /\ Moves(s) /\ Hands(s) /\ ses'[s].pc = "asked"
         /\ ses'[s].handle = ses[s].handle /\ ses'[s].fresh = ses[s].fresh
         /\ ses'[s].seq = ses[s].seq /\ ses'[s].step = ses[s].step
         /\ ses'[s].hist = ses[s].hist /\ ses'[s].logged = ses[s].logged
         /\ IF ses[s].hist \in DOMAIN ses[s].cache
              THEN ses'[s].resp = ses[s].cache[ses[s].hist]
              ELSE \E a \in ses[s].cmd.acts : ses'[s].resp = Msg("model", <<s, ses[s].step>>, a, {})
  <1>1. PICK r : /\ Goes(s, [pc |-> "asked", resp |-> r])
                 /\ IF ses[s].hist \in DOMAIN ses[s].cache
                      THEN r = ses[s].cache[ses[s].hist]
                      ELSE \E a \in ses[s].cmd.acts : r = Msg("model", <<s, ses[s].step>>, a, {})
    BY DEF Ask
  <1> DEFINE know == [pc |-> "asked", resp |-> r]
  <1>2. DOMAIN know = {"pc", "resp"} /\ Goes(s, know) /\ know.pc = "asked" /\ know.resp = r
    BY <1>1
  <1> HIDE DEF know
  <1>3. DOMAIN know \subseteq Loops
    BY <1>2 DEF Loops
  <1>4. QED
    BY <1>1, <1>2, <1>3, GoesFacts DEF Moves, Hands

\* Where a step begins, if there is one left.
Begun(s, p) == p \in {"end", "snap", "ask"} /\ (p = "snap" => ses[s].cmd.snaps)
Carried(s)  == /\ ses'[s].step = ses[s].step /\ ses'[s].hist = ses[s].hist
               /\ ses'[s].logged = ses[s].logged
Answer(s)   == Msg("tools", ses[s].resp.id, ses[s].resp.act,
                   IF ses[s].resp.act = "read" THEN Holds(Home) ELSE {})

\* What follows an append, by what was appended.
Followed(s) ==
  LET x == ses[s]  y == ses'[s]
  IN CASE x.pc = "provenance" -> y.pc = "start" /\ Carried(s)
       [] x.pc = "start"   -> /\ (IF x.hist = <<>> THEN Begun(s, y.pc) ELSE y.pc = "log")
                              /\ Carried(s)
       [] x.pc = "log"     -> /\ y.logged = x.logged + 1 /\ y.step = x.step /\ y.hist = x.hist
                              /\ IF x.logged + 1 < Len(x.hist) THEN y.pc = "log"
                                                               ELSE Begun(s, y.pc)
       [] x.pc = "snapped" -> y.pc = "ask" /\ Carried(s)
       [] x.pc = "asked"   -> /\ y.pc = (IF x.resp.act = "done" THEN "end" ELSE "tool")
                              /\ y.step = x.step /\ y.logged = x.logged
                              /\ y.hist = Append(x.hist, x.resp)
       [] x.pc = "done"    -> /\ y.pc = "results" /\ y.step = x.step /\ y.logged = x.logged
                              /\ y.hist = Append(x.hist, Answer(s))
       [] x.pc = "results" -> /\ y.hist = x.hist /\ y.logged = x.logged /\ Begun(s, y.pc)
                              /\ y.step = (IF y.pc = "end" THEN x.step ELSE x.step + 1)
       [] OTHER            -> y.pc = "over" /\ Carried(s)

LEMMA AfterFacts ==
  ASSUME Typed, NEW s \in Sessions, ses[s].pc \in Appending,
         ses' = [ses EXCEPT ![s] = With(With(@, [seq |-> @.seq + 1, fresh |-> FALSE]), After(s))]
  PROVE  /\ Moves(s) /\ Hands(s) /\ ses'[s].handle = ses[s].handle /\ ses'[s].fresh = FALSE
         /\ ses'[s].seq = ses[s].seq + 1 /\ ses'[s].resp = ses[s].resp
         /\ Followed(s)
  <1> DEFINE first == [seq |-> ses[s].seq + 1, fresh |-> FALSE]
             know  == After(s)
             mid   == With(ses[s], first)
  <1>1. DOMAIN ses = Sessions /\ DOMAIN ses[s] = Fields
    BY DEF Typed, SessionTyped
  <1>2. ses' = [ses EXCEPT ![s] = With(mid, know)]
    BY <1>1
  <1>3. DOMAIN know \subseteq {"pc", "hist", "logged", "step"}
    BY DEF After, Appending
  <1>4. DOMAIN first = {"seq", "fresh"} /\ first.seq = ses[s].seq + 1 /\ first.fresh = FALSE
    OBVIOUS
  <1>5. /\ DOMAIN mid = Fields /\ mid.seq = ses[s].seq + 1 /\ mid.fresh = FALSE
        /\ \A f \in Fields : f # "seq" /\ f # "fresh" => mid[f] = ses[s][f]
    <2> HIDE DEF first
    <2>1. DOMAIN mid = Fields /\ \A f \in Fields : mid[f] = IF f \in DOMAIN first THEN first[f] ELSE ses[s][f]
      BY <1>1, WithFacts
    <2>2. QED
      BY <1>4, <2>1 DEF Fields
  <1> HIDE DEF first, mid, know
  <1>6. Others(s) /\ ses'[s] = With(mid, know)
    BY <1>1, <1>2 DEF Others
  <1>7. /\ DOMAIN ses'[s] = Fields
        /\ \A f \in Fields : ses'[s][f] = IF f \in DOMAIN know THEN know[f] ELSE mid[f]
    <2>1. /\ DOMAIN With(mid, know) = DOMAIN mid
          /\ \A f \in DOMAIN mid : With(mid, know)[f] = IF f \in DOMAIN know THEN know[f] ELSE mid[f]
      BY WithFacts
    <2>2. DOMAIN mid = Fields
      BY <1>5
    <2>3. QED
      BY <1>6, <2>1, <2>2, Zenon
  <1>8. Fixed(s)
    <2>1. \A f \in Fields \ Loops : ses'[s][f] = ses[s][f]
      BY <1>3, <1>5, <1>7 DEF Loops
    <2>2. QED
      BY <2>1 DEF Fixed, Fields, Loops
  <1>9. /\ ses'[s].handle = ses[s].handle /\ ses'[s].fresh = FALSE
        /\ ses'[s].seq = ses[s].seq + 1 /\ ses'[s].resp = ses[s].resp /\ Hands(s)
    BY <1>3, <1>5, <1>7 DEF Fields, Hands
  <1>10. /\ ses'[s].pc = IF "pc" \in DOMAIN know THEN know.pc ELSE ses[s].pc
         /\ ses'[s].step = IF "step" \in DOMAIN know THEN know.step ELSE ses[s].step
         /\ ses'[s].hist = IF "hist" \in DOMAIN know THEN know.hist ELSE ses[s].hist
         /\ ses'[s].logged = IF "logged" \in DOMAIN know THEN know.logged ELSE ses[s].logged
    BY <1>5, <1>7 DEF Fields
  <1>11. Followed(s)
    <2>1. CASE ses[s].pc = "provenance"
      BY <2>1, <1>10 DEF know, After, Followed, Carried
    <2>2. CASE ses[s].pc = "start"
      BY <2>2, <1>10 DEF know, After, Followed, Carried, Begun
    <2>3. CASE ses[s].pc = "log"
      BY <2>3, <1>10 DEF know, After, Followed, Carried, Begun
    <2>4. CASE ses[s].pc = "snapped"
      BY <2>4, <1>10 DEF know, After, Followed, Carried
    <2>5. CASE ses[s].pc = "asked"
      BY <2>5, <1>10 DEF know, After, Followed
    <2>6. CASE ses[s].pc = "done"
      BY <2>6, <1>10 DEF know, After, Followed, Answer
    <2>7. CASE ses[s].pc = "results"
      <3>1. ses[s].step \in Nat /\ ses[s].cmd.steps \in Nat
        BY <2>7, LineageAssumption, SMTT(30) DEF Typed, SessionTyped
      <3>2. QED
        BY <2>7, <3>1, <1>10 DEF know, After, Followed, Begun
    <2>8. CASE ses[s].pc = "end"
      BY <2>8, <1>10 DEF know, After, Followed, Carried
    <2>9. QED
      BY <2>1, <2>2, <2>3, <2>4, <2>5, <2>6, <2>7, <2>8 DEF Appending
  <1>12. QED
    BY <1>6, <1>7, <1>8, <1>9, <1>11 DEF Moves

-----------------------------------------------------------------------------
(* What a session is started with *)

NewBorn(s) == /\ Others(s) /\ DOMAIN ses'[s] = Fields /\ ses'[s].beside = Running
              /\ ses'[s].handle = FALSE /\ ses'[s].fresh = FALSE /\ ses'[s].seq = 0
              /\ ses'[s].step = 0 /\ ses'[s].logged = 0 /\ ses'[s].resp = NoMsg
              /\ ses'[s].todo = {} /\ ses'[s].got = {} /\ ses'[s].whole = TRUE

LEMMA BeginsFacts ==
  ASSUME Typed, NEW s \in Sessions, ses[s].pc = "idle", NEW know, Begins(s, know),
         DOMAIN know \subseteq {"pc", "cmd", "src", "out", "hist", "cache", "restored", "sound"}
  PROVE  /\ NewBorn(s)
         /\ ses'[s].pc = IF "pc" \in DOMAIN know THEN know.pc ELSE "idle"
         /\ ses'[s].cmd = IF "cmd" \in DOMAIN know THEN know.cmd ELSE Idle.cmd
         /\ ses'[s].src = IF "src" \in DOMAIN know THEN know.src ELSE <<>>
         /\ ses'[s].out = IF "out" \in DOMAIN know THEN know.out ELSE <<>>
         /\ ses'[s].hist = IF "hist" \in DOMAIN know THEN know.hist ELSE <<>>
         /\ ses'[s].cache = IF "cache" \in DOMAIN know THEN know.cache ELSE NoCache
         /\ ses'[s].restored = IF "restored" \in DOMAIN know THEN know.restored ELSE None
         /\ ses'[s].sound = IF "sound" \in DOMAIN know THEN know.sound ELSE "faithful"
  <1> DEFINE first == [beside |-> Running]
             mid   == With(Idle, first)
  <1>1. DOMAIN ses = Sessions /\ ses[s] = Idle
    BY DEF Typed, SessionTyped
  <1>2. ses' = [ses EXCEPT ![s] = With(mid, know)]
    BY <1>1 DEF Begins
  <1>3. DOMAIN Idle = Fields /\ DOMAIN first = {"beside"} /\ first.beside = Running
    BY DEF Idle, Fields
  <1>4. /\ DOMAIN mid = Fields
        /\ \A f \in Fields : mid[f] = IF f = "beside" THEN Running ELSE Idle[f]
    <2> HIDE DEF first
    <2>1. /\ DOMAIN mid = DOMAIN Idle
          /\ \A f \in DOMAIN Idle : mid[f] = IF f \in DOMAIN first THEN first[f] ELSE Idle[f]
      BY WithFacts
    <2>2. QED
      BY <1>3, <2>1
  <1> HIDE DEF first, mid
  <1>5. Others(s) /\ ses'[s] = With(mid, know)
    BY <1>1, <1>2 DEF Others
  <1>6. /\ DOMAIN ses'[s] = Fields
        /\ \A f \in Fields : ses'[s][f] = IF f \in DOMAIN know THEN know[f] ELSE mid[f]
    <2>1. /\ DOMAIN With(mid, know) = DOMAIN mid
          /\ \A f \in DOMAIN mid : With(mid, know)[f] = IF f \in DOMAIN know THEN know[f] ELSE mid[f]
      BY WithFacts
    <2>2. DOMAIN mid = Fields
      BY <1>4
    <2>3. QED
      BY <1>5, <2>1, <2>2, Zenon
  <1>7. /\ ses'[s].beside = Running
        /\ ses'[s].handle = FALSE /\ ses'[s].fresh = FALSE /\ ses'[s].seq = 0
        /\ ses'[s].step = 0 /\ ses'[s].logged = 0 /\ ses'[s].resp = NoMsg
        /\ ses'[s].todo = {} /\ ses'[s].got = {} /\ ses'[s].whole = TRUE
    <2>1. {"beside", "handle", "fresh", "seq", "step", "logged", "resp", "todo", "got", "whole"} \cap DOMAIN know = {}
      OBVIOUS
    <2>2. \A f \in {"beside", "handle", "fresh", "seq", "step", "logged", "resp", "todo", "got", "whole"} :
            f \in Fields /\ ses'[s][f] = mid[f]
      BY <1>6, <2>1 DEF Fields
    <2>3. \A f \in {"handle", "fresh", "seq", "step", "logged", "resp", "todo", "got", "whole"} : ses'[s][f] = Idle[f]
      BY <1>4, <2>2
    <2>4. ses'[s].beside = Running
      BY <1>4, <2>2
    <2>5. QED
      BY <2>3, <2>4 DEF Idle
  <1>8. /\ Idle.pc = "idle" /\ Idle.src = <<>> /\ Idle.out = <<>> /\ Idle.hist = <<>>
        /\ Idle.cache = NoCache /\ Idle.restored = None /\ Idle.sound = "faithful"
    BY DEF Idle
  <1>9. \A f \in {"pc", "cmd", "src", "out", "hist", "cache", "restored", "sound"} :
          f \in Fields /\ f # "beside" /\ ses'[s][f] = IF f \in DOMAIN know THEN know[f] ELSE Idle[f]
    BY <1>4, <1>6 DEF Fields
  <1>10. NewBorn(s)
    BY <1>5, <1>6, <1>7 DEF NewBorn
  <1>11. QED
    BY <1>8, <1>9, <1>10

\* The tape a run writes.
Named(c) == IF c.tape = <<>> THEN DefaultTape ELSE c.tape

LEMMA RunFacts ==
  ASSUME Typed, NEW s \in Sessions, NEW c \in Commands[s], Run(s, c)
  PROVE  /\ NewBorn(s) /\ ses'[s].pc = "open" /\ ses'[s].cmd = c /\ ses'[s].src = <<>>
         /\ ses'[s].out = Named(c) /\ ses'[s].hist = <<Prompt(s), Task(s)>>
         /\ ses'[s].cache = NoCache /\ ses'[s].restored = None /\ ses'[s].sound = "faithful"
  <1> DEFINE know == [pc |-> "open", cmd |-> c, out |-> Named(c), hist |-> <<Prompt(s), Task(s)>>]
  <1>1. /\ DOMAIN know = {"pc", "cmd", "out", "hist"} /\ know.pc = "open" /\ know.cmd = c
        /\ know.out = Named(c) /\ know.hist = <<Prompt(s), Task(s)>>
    OBVIOUS
  <1>2. Begins(s, know) /\ ses[s].pc = "idle"
    BY DEF Run, Startable, Named
  <1> HIDE DEF know
  <1>3. QED
    BY <1>1, <1>2, BeginsFacts

LEMMA FailsFacts ==
  ASSUME Typed, NEW s \in Sessions, ses[s].pc = "idle", NEW c, NEW src, Fails(s, c, src)
  PROVE  /\ NewBorn(s) /\ ses'[s].pc = "refused" /\ ses'[s].cmd = c /\ ses'[s].src = src
         /\ ses'[s].out = <<>> /\ ses'[s].hist = <<>>
         /\ ses'[s].cache = NoCache /\ ses'[s].restored = None /\ ses'[s].sound = "faithful"
  <1> DEFINE know == [pc |-> "refused", cmd |-> c, src |-> src]
  <1>1. /\ DOMAIN know = {"pc", "cmd", "src"} /\ know.pc = "refused" /\ know.cmd = c
        /\ know.src = src
    OBVIOUS
  <1>2. Begins(s, know)
    BY DEF Fails
  <1> HIDE DEF know
  <1>3. QED
    BY <1>1, <1>2, BeginsFacts

\* plan_fork fails, or it makes a plan.
ForkPlanned(s, c, src) ==
  LET rs == Rs(src)  ws == WritesBefore(rs, c.at)
      k  == ses'[s].restored
  IN /\ NewBorn(s) /\ ses'[s].cmd = c /\ ses'[s].src = src
     /\ Readable(files[src]) /\ c.at <= Cardinality(Steps(rs))
     /\ ses'[s].pc = (IF k = None THEN "decide" ELSE "wipe")
     /\ ses'[s].out = ForkName(src, c.at)
     /\ ses'[s].hist = Edited(s, c, HistoryBefore(rs, c.at))
     /\ ses'[s].cache = CacheOf(rs)
     /\ k = (IF ws # {} /\ c.snaps THEN LatestBefore(c.at) ELSE None)
     /\ ses'[s].sound = Soundness(ws, k)

ResumePlanned(s, c, src) ==
  LET rs == Rs(src)  k == ses'[s].restored
  IN /\ NewBorn(s) /\ ses'[s].cmd = c /\ ses'[s].src = src
     /\ Readable(files[src]) /\ Steps(rs) # {}
     /\ ses'[s].pc = (IF k = None THEN "decide" ELSE "wipe")
     /\ ses'[s].out = ResumedName(src)
     /\ ses'[s].hist = Edited(s, c, History(rs))
     /\ ses'[s].cache = NoCache /\ ses'[s].sound = "faithful"
     /\ k = (IF c.restore THEN LatestBefore(c.at) ELSE None)
     /\ c.restore => c.snaps /\ k # None

LEMMA ForkFacts ==
  ASSUME Typed, NEW s \in Sessions, NEW c \in Commands[s], NEW src \in DOMAIN files,
         Fork(s, c, src)
  PROVE  Fails(s, c, src) \/ ForkPlanned(s, c, src)
  <1> DEFINE rs == Rs(src)
             ws == WritesBefore(rs, c.at)
             k  == IF ws # {} /\ c.snaps THEN LatestBefore(c.at) ELSE None
             p  == IF k = None THEN "decide" ELSE "wipe"
             h  == Edited(s, c, HistoryBefore(rs, c.at))
             know == [pc |-> p, cmd |-> c, src |-> src, out |-> ForkName(src, c.at), hist |-> h,
                      cache |-> CacheOf(rs), restored |-> k, sound |-> Soundness(ws, k)]
  <1> SUFFICES ASSUME ~Fails(s, c, src)
               PROVE  ForkPlanned(s, c, src)
    OBVIOUS
  <1>1. Begins(s, know) /\ ses[s].pc = "idle"
    BY DEF Fork, Startable
  <1>2. Readable(files[src]) /\ ~(c.at > Cardinality(Steps(rs)))
    BY DEF Fork
  <1>3. c.at <= Cardinality(Steps(rs))
    <2>1. c.at \in Nat
      BY LineageAssumption
    <2>2. IsFiniteSet(Steps(rs))
      <3>1. FileOf(src) \in Seq(Lines)
        BY DEF Typed, FileOf
      <3>2. Len(rs) \in Nat
        BY <3>1 DEF Rs, Records
      <3>3. IsFiniteSet(1..Len(rs))
        BY <3>2, FS_Interval
      <3>4. Steps(rs) \in SUBSET (1..Len(rs))
        BY DEF Steps, Places
      <3>5. QED
        BY <3>3, <3>4, FS_Subset
    <2>3. Cardinality(Steps(rs)) \in Nat
      BY <2>2, FS_CardinalityType
    <2>4. QED
      BY <1>2, <2>1, <2>3
  <1>4. /\ DOMAIN know = {"pc", "cmd", "src", "out", "hist", "cache", "restored", "sound"}
        /\ know.pc = p /\ know.cmd = c /\ know.src = src /\ know.out = ForkName(src, c.at)
        /\ know.hist = h /\ know.cache = CacheOf(rs) /\ know.restored = k
        /\ know.sound = Soundness(ws, k)
    OBVIOUS
  <1> HIDE DEF know, h, rs, ws
  <1>5. /\ NewBorn(s) /\ ses'[s].pc = p /\ ses'[s].cmd = c /\ ses'[s].src = src
        /\ ses'[s].out = ForkName(src, c.at) /\ ses'[s].hist = h /\ ses'[s].cache = CacheOf(rs)
        /\ ses'[s].restored = k /\ ses'[s].sound = Soundness(ws, k)
    BY <1>1, <1>4, BeginsFacts
  <1>6. QED
    BY <1>2, <1>3, <1>5 DEF ForkPlanned, h, rs, ws

LEMMA ResumeFacts ==
  ASSUME Typed, NEW s \in Sessions, NEW c \in Commands[s], NEW src \in DOMAIN files,
         Resume(s, c, src)
  PROVE  Fails(s, c, src) \/ ResumePlanned(s, c, src)
  <1> DEFINE rs == Rs(src)
             k  == IF c.restore THEN LatestBefore(c.at) ELSE None
             p  == IF k = None THEN "decide" ELSE "wipe"
             h  == Edited(s, c, History(rs))
             know == [pc |-> p, cmd |-> c, src |-> src, out |-> ResumedName(src), hist |-> h,
                      restored |-> k]
  <1> SUFFICES ASSUME ~Fails(s, c, src)
               PROVE  ResumePlanned(s, c, src)
    OBVIOUS
  <1>1. Begins(s, know) /\ ses[s].pc = "idle"
    BY DEF Resume, Startable
  <1>2. Readable(files[src]) /\ Steps(rs) # {} /\ (c.restore => c.snaps /\ k # None)
    BY DEF Resume
  <1>3. /\ DOMAIN know = {"pc", "cmd", "src", "out", "hist", "restored"}
        /\ know.pc = p /\ know.cmd = c /\ know.src = src /\ know.out = ResumedName(src)
        /\ know.hist = h /\ know.restored = k
    OBVIOUS
  <1> HIDE DEF know, h, rs
  <1>4. /\ NewBorn(s) /\ ses'[s].pc = p /\ ses'[s].cmd = c /\ ses'[s].src = src
        /\ ses'[s].out = ResumedName(src) /\ ses'[s].hist = h /\ ses'[s].cache = NoCache
        /\ ses'[s].restored = k /\ ses'[s].sound = "faithful"
    BY <1>1, <1>3, BeginsFacts
  <1>5. QED
    BY <1>2, <1>4 DEF ResumePlanned, h, rs

-----------------------------------------------------------------------------
(* Numbers and finite sets *)

\* A set of numbers below a bound that is not empty has a greatest member.
LEMMA GreatestNumber ==
  ASSUME NEW n \in Nat, NEW T, T \subseteq 0..n, T # {}
  PROVE  \E m \in T : \A k \in T : k <= m
  <1> DEFINE U == {n - k : k \in T}
  <1>1. U \subseteq Nat /\ U # {}
    <2>1. \A k \in T : k \in Nat /\ n - k \in Nat
      OBVIOUS
    <2>2. PICK k \in T : TRUE
      OBVIOUS
    <2>3. n - k \in U
      OBVIOUS
    <2>4. QED
      BY <2>1, <2>3
  <1>2. PICK u \in U : \A v \in U : u <= v
    <2> HIDE DEF U
    <2>1. QED
      BY <1>1, LeastNumber
  <1>3. PICK m \in T : u = n - m
    BY <1>2
  <1>4. ASSUME NEW k \in T
        PROVE  k <= m
    <2>1. n - k \in U
      OBVIOUS
    <2>2. n - m <= n - k
      BY <1>2, <1>3, <2>1
    <2>3. QED
      BY <2>2
  <1>5. QED
    BY <1>4

LEMMA PartOfInterval ==
  ASSUME NEW n \in Nat, NEW T, T \subseteq 1..n
  PROVE  IsFiniteSet(T) /\ Cardinality(T) \in Nat
  <1>1. IsFiniteSet(1..n)
    BY FS_Interval
  <1>2. T \in SUBSET (1..n)
    OBVIOUS
  <1>3. IsFiniteSet(T)
    BY <1>1, <1>2, FS_Subset
  <1>4. QED
    BY <1>3, FS_CardinalityType

-----------------------------------------------------------------------------
(* Files and their readers, by type *)

LEMMA RecordsTyped ==
  ASSUME NEW f \in Seq(Lines)
  PROVE  /\ Records(f) \in Seq(Stamped)
         /\ Len(Records(f)) = IF f = <<>> THEN 0 ELSE Len(f) - 1
         /\ \A i \in 1..Len(Records(f)) : f # <<>> /\ i + 1 \in 1..Len(f) /\ Records(f)[i] = f[i + 1].text
  <1>1. CASE f = <<>>
    BY <1>1 DEF Records
  <1>2. CASE f # <<>>
    <2>1. Len(f) \in Nat /\ Len(f) > 0 /\ \A i \in 1..Len(f) : f[i] \in Lines
      BY <1>2
    <2>2. Records(f) = [i \in 1..Len(f) - 1 |-> f[i + 1].text]
      BY <1>2 DEF Records
    <2>3. \A i \in 1..Len(f) - 1 : i + 1 \in 1..Len(f) /\ f[i + 1].text \in Stamped
      BY <2>1 DEF Lines
    <2>4. Len(f) - 1 \in Nat
      BY <2>1
    <2>5. Records(f) \in [1..Len(f) - 1 -> Stamped]
      BY <2>2, <2>3
    <2>6. Records(f) \in Seq(Stamped) /\ Len(Records(f)) = Len(f) - 1
      BY <2>4, <2>5
    <2>7. QED
      BY <1>2, <2>2, <2>3, <2>6
  <1>3. QED
    BY <1>1, <1>2

LEMMA PlacesTyped ==
  ASSUME NEW rs \in Seq(Stamped), NEW kinds
  PROVE  /\ Places(rs, kinds) \subseteq 1..Len(rs)
         /\ IsFiniteSet(Places(rs, kinds)) /\ Cardinality(Places(rs, kinds)) \in Nat
  <1>1. Places(rs, kinds) \subseteq 1..Len(rs) /\ Len(rs) \in Nat
    BY DEF Places
  <1>2. QED
    BY <1>1, PartOfInterval

LEMMA StampedFacts ==
  ASSUME NEW rs \in Seq(Stamped), NEW i \in 1..Len(rs)
  PROVE  /\ rs[i] \in Stamped /\ rs[i].seq \in Nat /\ rs[i].event \in Events
         /\ rs[i].event.step \in Nat /\ rs[i].event.msg \in Messages
         /\ rs[i].event.key \in Histories
  <1>1. rs[i] \in Stamped
    OBVIOUS
  <1>2. \A r \in Stamped : r.seq \in Nat /\ r.event \in Events
    BY DEF Stamped
  <1>3. \A e \in Events : e.step \in Nat /\ e.msg \in Messages /\ e.key \in Histories
    BY DEF Events
  <1>4. QED
    BY <1>1, <1>2, <1>3

LEMMA ToldTyped ==
  ASSUME NEW rs \in Seq(Stamped), NEW places
  PROVE  Told(rs, places) \in Histories
  <1> DEFINE ms == [i \in 1..Len(rs) |-> rs[i].event.msg]
  <1>1. Len(rs) \in Nat
    OBVIOUS
  <1>2. \A i \in 1..Len(rs) : rs[i].event.msg \in Messages
    BY StampedFacts
  <1>3. ms \in [1..Len(rs) -> Messages]
    BY <1>2
  <1>4. ms \in Seq(Messages) /\ Len(ms) = Len(rs)
    BY <1>1, <1>3
  <1>5. \A i \in 1..Len(ms) : ms[i] \in Messages
    BY <1>4
  <1> HIDE DEF ms
  <1>6. Tape!Only(ms, places) \in Seq(Messages)
    BY <1>1, <1>4, <1>5, OnlyTyped
  <1>7. QED
    BY <1>6 DEF Told, ms, Histories

\* The cache of a tape has its keys, and for each the last response.
LastOf(rs, k, i) == /\ rs[i].event.key = k
                    /\ \A j \in Steps(rs) : j > i => rs[j].event.key # k

LEMMA CacheHolds ==
  ASSUME NEW rs \in Seq(Stamped)
  PROVE  /\ DOMAIN CacheOf(rs) = {rs[i].event.key : i \in Steps(rs)}
         /\ \A k \in DOMAIN CacheOf(rs) :
              \E i \in Steps(rs) : LastOf(rs, k, i) /\ CacheOf(rs)[k] = rs[i].event.msg
         /\ Cached(CacheOf(rs))
  <1> DEFINE keys == {rs[i].event.key : i \in Steps(rs)}
             last(k) == CHOOSE i \in Steps(rs) :
                          /\ rs[i].event.key = k
                          /\ \A j \in Steps(rs) : j > i => rs[j].event.key # k
  <1>1. CacheOf(rs) = [k \in keys |-> rs[last(k)].event.msg]
    BY DEF CacheOf
  <1>2. ASSUME NEW k \in keys
        PROVE  LastOf(rs, k, last(k)) /\ last(k) \in Steps(rs)
    <2> DEFINE T == {i \in Steps(rs) : rs[i].event.key = k}
    <2>1. T # {}
      OBVIOUS
    <2>2. Len(rs) \in Nat /\ T \subseteq 0..Len(rs)
      BY DEF Steps, Places
    <2>3. PICK m \in T : \A j \in T : j <= m
      <3> HIDE DEF T
      <3>1. QED
        BY <2>1, <2>2, GreatestNumber
    <2>4. ASSUME NEW j \in Steps(rs), j > m
          PROVE  rs[j].event.key # k
      <3>1. j \in Nat /\ m \in Nat
        BY <2>2, <2>3 DEF Steps, Places
      <3>2. QED
        BY <2>3, <2>4, <3>1
    <2>5. m \in Steps(rs) /\ rs[m].event.key = k
      BY <2>3
    <2> HIDE DEF T
    <2>6. QED
      BY <2>4, <2>5, Zenon DEF LastOf
  <1>3. \A i \in Steps(rs) : rs[i].event.msg \in Messages /\ rs[i].event.key \in Histories
    BY StampedFacts DEF Steps, Places
  <1> HIDE DEF last
  <1>4. DOMAIN CacheOf(rs) = keys
    BY <1>1
  <1>5. \A k \in keys : \E i \in Steps(rs) : LastOf(rs, k, i) /\ CacheOf(rs)[k] = rs[i].event.msg
    BY <1>1, <1>2
  <1>6. Cached(CacheOf(rs))
    BY <1>3, <1>4, <1>5 DEF Cached
  <1>7. QED
    BY <1>4, <1>5, <1>6

LEMMA LatestTyped ==
  ASSUME Typed, NEW step \in Nat
  PROVE  /\ LatestBefore(step) \in Nat \cup {None}
         /\ LatestBefore(step) # None => LatestBefore(step) \in DOMAIN trees
                                         /\ LatestBefore(step) <= step
  <1> DEFINE c == {k \in 0..step : k \in DOMAIN trees}
  <1>1. CASE c = {}
    BY <1>1 DEF LatestBefore
  <1>2. CASE c # {}
    <2>1. c \subseteq 0..step
      OBVIOUS
    <2>2. PICK m \in c : \A k \in c : k <= m
      <3> HIDE DEF c
      <3>1. QED
        BY <1>2, <2>1, GreatestNumber
    <2>3. \A k \in c : k \in Nat
      BY <2>1
    <2>4. \E x \in c : \A y \in c : x >= y
      BY <2>2, <2>3
    <2>5. Max(c) \in c
      BY <2>4 DEF Max
    <2>6. LatestBefore(step) = Max(c)
      BY <1>2 DEF LatestBefore
    <2>7. QED
      BY <2>5, <2>6, <2>3
  <1>3. QED
    BY <1>1, <1>2

LEMMA MsgTyped ==
  /\ \A who \in Speakers, id \in Ids, act \in Acts, saw \in SUBSET Ids : Msg(who, id, act, saw) \in Messages
  /\ NoMsg \in Messages
  /\ \A s \in Sessions : Prompt(s) \in Messages /\ Task(s) \in Messages /\ Nudge(s) \in Messages
  <1>1. \A who \in Speakers, id \in Ids, act \in Acts, saw \in SUBSET Ids : Msg(who, id, act, saw) \in Messages
    BY DEF Msg, Messages
  <1>2. <<0, 0>> \in Ids /\ \A s \in Sessions : <<s, 0>> \in Ids
    BY LineageAssumption DEF Ids
  <1>3. \A who \in {"none", "system", "task", "nudge"} : \A id \in Ids : Msg(who, id, "", {}) \in Messages
    <2>1. \A who \in {"none", "system", "task", "nudge"} : who \in Speakers
      BY DEF Speakers
    <2>2. "" \in Acts /\ {} \in SUBSET Ids
      BY DEF Acts
    <2>3. QED
      BY <1>1, <2>1, <2>2
  <1>4. NoMsg \in Messages
    BY <1>2, <1>3 DEF NoMsg
  <1>5. \A s \in Sessions : Prompt(s) \in Messages /\ Task(s) \in Messages /\ Nudge(s) \in Messages
    BY <1>2, <1>3 DEF Prompt, Task, Nudge
  <1>6. QED
    BY <1>1, <1>4, <1>5, Zenon

LEMMA EditedTyped ==
  ASSUME NEW s \in Sessions, NEW c, NEW h \in Histories
  PROVE  Edited(s, c, h) \in Histories
  <1>1. Append(h, Nudge(s)) \in Histories
    BY MsgTyped DEF Histories
  <1>2. h # <<>> => <<Prompt(s)>> \o Tail(h) \in Histories
    BY MsgTyped DEF Histories
  <1>3. QED
    BY <1>1, <1>2 DEF Edited

LEMMA JoinedTyped ==
  ASSUME NEW f \in Seq(Lines), NEW l \in Lines
  PROVE  /\ Joined(f, l) \in Seq(Lines)
         /\ f = <<>> \/ f[Len(f)].end = "whole" => Joined(f, l) = Append(f, l)
  <1>1. Append(f, l) \in Seq(Lines)
    OBVIOUS
  <1>2. CASE f # <<>>
    <2>1. Front(f) \in Seq(Lines)
      BY <1>2 DEF Front
    <2>2. Line(l.text, "junk") \in Lines
      BY DEF Line, Lines
    <2>3. QED
      BY <1>1, <2>1, <2>2 DEF Joined, Last
  <1>3. QED
    BY <1>1, <1>2 DEF Joined

LEMMA LinesTyped ==
  /\ Header \in Stamped
  /\ \A r \in Stamped : \A e \in {"whole", "bare", "torn"} : Line(r, e) \in Lines
  /\ \A n \in Nat, e \in Events : Numbered(n, e) \in Stamped
  <1>1. Header \in Stamped
    <2>1. <<>> \in Histories /\ NoMsg \in Messages /\ "header" \in Kinds
      BY MsgTyped DEF Histories, Kinds
    <2>2. QED
      BY <2>1 DEF Header, HeaderOf, Event, Stamped, Events
  <1>2. \A r \in Stamped : \A e \in {"whole", "bare", "torn"} : Line(r, e) \in Lines
    BY DEF Line, Lines
  <1>3. \A n \in Nat, e \in Events : Numbered(n, e) \in Stamped
    BY DEF Numbered, Stamped
  <1>4. QED
    BY <1>1, <1>2, <1>3

\* What a crash leaves of an append.
LEMMA CutsAre ==
  ASSUME NEW f, NEW fresh \in BOOLEAN, NEW h, NEW r, NEW g \in Cuts(f, fresh, h, r)
  PROVE  \/ g = f
         \/ fresh /\ \E e \in {"whole", "bare", "torn"} : g = Joined(f, Line(h, e))
         \/ \E e \in {"whole", "bare", "torn"} : g = Joined(Headed(f, fresh, h), Line(r, e))
  <1> DEFINE ends == {"whole", "bare", "torn"}
             A == {Joined(f, Line(h, e)) : e \in IF fresh THEN ends ELSE {}}
             B == {Joined(Headed(f, fresh, h), Line(r, e)) : e \in ends}
  <1>1. g \in {f} \cup A \cup B
    BY DEF Cuts
  <1>2. g \in A => fresh /\ \E e \in ends : g = Joined(f, Line(h, e))
    <2>1. CASE fresh
      <3>1. (IF fresh THEN ends ELSE {}) = ends
        BY <2>1
      <3>2. QED
        BY <2>1, <3>1
    <2>2. CASE ~fresh
      <3>1. A = {}
        BY <2>2
      <3> HIDE DEF A
      <3>2. QED
        BY <3>1
    <2>3. QED
      BY <2>1, <2>2
  <1>3. g \in B => \E e \in ends : g = Joined(Headed(f, fresh, h), Line(r, e))
    OBVIOUS
  <1> HIDE DEF A, B
  <1>4. QED
    BY <1>1, <1>2, <1>3

LEMMA AppendedTyped ==
  ASSUME NEW f \in Seq(Lines), NEW fresh \in BOOLEAN, NEW r \in Stamped
  PROVE  /\ Headed(f, fresh, Header) \in Seq(Lines)
         /\ Appended(f, fresh, Header, r) \in Seq(Lines)
         /\ Cuts(f, fresh, Header, r) \subseteq Seq(Lines)
  <1>1. \A e \in {"whole", "bare", "torn"} : Line(r, e) \in Lines /\ Line(Header, e) \in Lines
    BY LinesTyped
  <1>2. Headed(f, fresh, Header) \in Seq(Lines)
    BY <1>1, JoinedTyped DEF Headed
  <1>3. Appended(f, fresh, Header, r) \in Seq(Lines)
    BY <1>1, <1>2, JoinedTyped DEF Appended
  <1>4. Cuts(f, fresh, Header, r) \subseteq Seq(Lines)
    <2>1. SUFFICES ASSUME NEW g \in Cuts(f, fresh, Header, r)
                   PROVE  g \in Seq(Lines)
      OBVIOUS
    <2>2. \/ g = f
          \/ fresh /\ \E e \in {"whole", "bare", "torn"} : g = Joined(f, Line(Header, e))
          \/ \E e \in {"whole", "bare", "torn"} : g = Joined(Headed(f, fresh, Header), Line(r, e))
      BY CutsAre
    <2>3. QED
      BY <1>1, <1>2, <2>2, JoinedTyped
  <1>5. QED
    BY <1>2, <1>3, <1>4

LEMMA PendingTyped ==
  ASSUME Typed, NEW s \in Sessions, ses[s].pc \in Appending
  PROVE  Pending(s) \in Events
  <1>1. /\ ses[s].step \in Nat /\ ses[s].hist \in Histories /\ ses[s].resp \in Messages
        /\ ses[s].logged \in Nat
        /\ ses[s].pc = "log" => ses[s].logged < Len(ses[s].hist)
        /\ ses[s].pc = "results" => ses[s].hist # <<>>
    BY DEF Typed, SessionTyped
  <1>2. NoMsg \in Messages /\ <<>> \in Histories
    BY MsgTyped DEF Histories
  <1>3. \A k \in Kinds, n \in Nat, m \in Messages, h \in Histories : Event(k, n, m, h) \in Events
    BY DEF Event, Events
  <1>4. ses[s].pc = "log" => ses[s].hist[ses[s].logged + 1] \in Messages
    BY <1>1 DEF Histories
  <1>5. ses[s].pc = "results" => Last(ses[s].hist) \in Messages
    BY <1>1 DEF Histories, Last
  <1>6. {"fork", "resumed_from", "run_start", "message", "snapshot", "step", "tool_result", "run_end"}
          \subseteq Kinds
    BY DEF Kinds
  <1>7. QED
    BY <1>1, <1>2, <1>3, <1>4, <1>5, <1>6 DEF Pending, Appending

FileOfTyped ==
  Typed => \A n : FileOf(n) \in Seq(Lines)
LEMMA FilesTyped == FileOfTyped
  BY DEF FileOfTyped, Typed, FileOf

-----------------------------------------------------------------------------
(* Who has which tape *)

Filed ==
  /\ \A n \in DOMAIN files : Writers(n) # {}
  /\ \A s \in Sessions :
       /\ ses[s].handle => ses[s].out \in DOMAIN files /\ ses[s].pc \in Live \cup {"over", "dead"}
       /\ ses[s].pc \in Live => ses[s].handle

LEMMA NamesDiffer ==
  /\ \A m, n : RunName(m) = RunName(n) => m = n
  /\ \A n \in Nat : RunName(n) \in Names
  /\ \A src \in Names, at \in Nat : ForkName(src, at) \in Names /\ ResumedName(src) \in Names
  <1>1. \A m, n : RunName(m) = RunName(n) => m = n
    BY DEF RunName
  <1>2. \A n \in Nat : RunName(n) \in Names
    BY DEF RunName, Names
  <1>3. \A src \in Names, at \in Nat : ForkName(src, at) \in Names /\ ResumedName(src) \in Names
    BY DEF ForkName, ResumedName, Names
  <1>4. QED
    BY <1>1, <1>2, <1>3

\* There is a number no file has, since each has its own writer.
LEMMA DefaultTapeFree ==
  ASSUME Typed, Filed
  PROVE  \E n \in Nat : DefaultTape = RunName(n) /\ RunName(n) \notin DOMAIN files
  <1> DEFINE N == Cardinality(Sessions)
             T == {n \in 1..N + 1 : RunName(n) \notin DOMAIN files}
  <1>1. IsFiniteSet(Sessions) /\ N \in Nat
    BY LineageAssumption, FS_CardinalityType
  <1> HIDE DEF N
  <1>2. T # {}
    <2>1. SUFFICES ASSUME \A n \in 1..N + 1 : RunName(n) \in DOMAIN files
                   PROVE  FALSE
      OBVIOUS
    <2> DEFINE g == [n \in 1..N + 1 |-> CHOOSE s \in Sessions : s \in Writers(RunName(n))]
    <2>2. \A n \in 1..N + 1 : \E s \in Sessions : s \in Writers(RunName(n))
      BY <2>1 DEF Filed, Writers
    <2>3. \A n \in 1..N + 1 : g[n] \in Sessions /\ ses[g[n]].out = RunName(n)
      BY <2>2 DEF Writers
    <2>4. g \in [1..N + 1 -> Sessions]
      BY <2>3
    <2> HIDE DEF g
    <2>5. \A m, n \in 1..N + 1 : g[m] = g[n] => m = n
      BY <2>3, NamesDiffer
    <2>6. IsFiniteSet(1..N + 1) /\ Cardinality(1..N + 1) = N + 1
      BY <1>1, FS_Interval
    <2>7. \E x, y \in 1..N + 1 : x # y /\ g[x] = g[y]
      BY <1>1, <2>4, <2>6, FS_PigeonHole DEF N
    <2>8. QED
      BY <2>5, <2>7
  <1>3. T \subseteq Nat
    BY <1>1
  <1>4. PICK m \in T : \A k \in T : m <= k
    <2> HIDE DEF T
    <2>1. QED
      BY <1>2, <1>3, LeastNumber
  <1>5. /\ m \in 1..N + 1 /\ RunName(m) \notin DOMAIN files
        /\ \A k \in 1..m - 1 : RunName(k) \in DOMAIN files
    <2>1. m \in 1..N + 1 /\ m \in Nat /\ RunName(m) \notin DOMAIN files
      BY <1>1, <1>4
    <2>2. ASSUME NEW k \in 1..m - 1, RunName(k) \notin DOMAIN files
          PROVE  FALSE
      <3>1. k \in 1..N + 1 /\ k < m /\ k \in Nat
        BY <1>1, <2>1
      <3>2. k \in T
        BY <2>2, <3>1
      <3>3. m <= k
        BY <1>4, <3>2
      <3>4. QED
        BY <2>1, <3>1, <3>3
    <2>3. QED
      BY <2>1, <2>2
  <1> DEFINE free(n) == /\ RunName(n) \notin DOMAIN files
                        /\ \A k \in 1..n - 1 : RunName(k) \in DOMAIN files
             d == CHOOSE n \in 1..N + 1 : free(n)
  <1>6. d \in 1..N + 1 /\ free(d)
    BY <1>5
  <1>7. DefaultTape = RunName(d)
    BY DEF DefaultTape, N
  <1>8. d \in Nat
    BY <1>1, <1>6
  <1>9. QED
    BY <1>6, <1>7, <1>8

-----------------------------------------------------------------------------
(* A step of a session is its birth or a move of it *)

\* What every command that is started has in common.
Birth(s) == /\ ses[s].pc = "idle" /\ NewBorn(s) /\ ses'[s].cmd \in Commands[s]
            /\ \A t \in Sessions : t < s => ses[t].pc # "idle"
            /\ UNCHANGED <<files, trees>>
            /\ ses'[s].pc \in {"open", "refused", "decide", "wipe"}

Started(s) == (\E c \in Commands[s] : Run(s, c))
              \/ (\E c \in Commands[s], src \in DOMAIN files : Fork(s, c, src))
              \/ (\E c \in Commands[s], src \in DOMAIN files : Resume(s, c, src))

\* A command is a run, a plan, or a failure.
LEMMA StartedAs ==
  ASSUME Typed, NEW s \in Sessions, Started(s)
  PROVE  /\ Birth(s)
         /\ \/ \E c \in Commands[s] : Run(s, c) /\ ses'[s].pc = "open"
            \/ \E c \in Commands[s], src \in DOMAIN files :
                 c.kind = "fork" /\ ForkPlanned(s, c, src) /\ ses'[s].pc \in {"decide", "wipe"}
            \/ \E c \in Commands[s], src \in DOMAIN files :
                 c.kind = "resume" /\ ResumePlanned(s, c, src) /\ ses'[s].pc \in {"decide", "wipe"}
            \/ \E c \in Commands[s], src \in DOMAIN files :
                 c.kind # "run" /\ Fails(s, c, src) /\ ses'[s].pc = "refused"
  <1>1. ASSUME NEW c \in Commands[s], Run(s, c)
        PROVE  Birth(s) /\ ses'[s].pc = "open"
    <2>1. NewBorn(s) /\ ses'[s].pc = "open" /\ ses'[s].cmd = c
      BY <1>1, RunFacts
    <2>2. QED
      BY <1>1, <2>1 DEF Birth, Run, Startable
  <1>2. ASSUME NEW c \in Commands[s], NEW src \in DOMAIN files, Fork(s, c, src)
        PROVE  /\ Birth(s)
               /\ \/ c.kind = "fork" /\ ForkPlanned(s, c, src) /\ ses'[s].pc \in {"decide", "wipe"}
                  \/ c.kind # "run" /\ Fails(s, c, src) /\ ses'[s].pc = "refused"
    <2>1. /\ ses[s].pc = "idle" /\ c.kind = "fork" /\ UNCHANGED <<files, trees>>
          /\ \A t \in Sessions : t < s => ses[t].pc # "idle"
      BY <1>2 DEF Fork, Startable, Fails
    <2>2. CASE ForkPlanned(s, c, src)
      BY <2>1, <2>2 DEF Birth, ForkPlanned
    <2>3. CASE Fails(s, c, src)
      <3>1. NewBorn(s) /\ ses'[s].pc = "refused" /\ ses'[s].cmd = c
        BY <2>1, <2>3, FailsFacts
      <3>2. QED
        BY <2>1, <2>3, <3>1 DEF Birth
    <2>4. QED
      BY <1>2, <2>2, <2>3, ForkFacts
  <1>3. ASSUME NEW c \in Commands[s], NEW src \in DOMAIN files, Resume(s, c, src)
        PROVE  /\ Birth(s)
               /\ \/ c.kind = "resume" /\ ResumePlanned(s, c, src) /\ ses'[s].pc \in {"decide", "wipe"}
                  \/ c.kind # "run" /\ Fails(s, c, src) /\ ses'[s].pc = "refused"
    <2>1. /\ ses[s].pc = "idle" /\ c.kind = "resume" /\ UNCHANGED <<files, trees>>
          /\ \A t \in Sessions : t < s => ses[t].pc # "idle"
      BY <1>3 DEF Resume, Startable, Fails
    <2>2. CASE ResumePlanned(s, c, src)
      BY <2>1, <2>2 DEF Birth, ResumePlanned
    <2>3. CASE Fails(s, c, src)
      <3>1. NewBorn(s) /\ ses'[s].pc = "refused" /\ ses'[s].cmd = c
        BY <2>1, <2>3, FailsFacts
      <3>2. QED
        BY <2>1, <2>3, <3>1 DEF Birth
    <2>4. QED
      BY <1>3, <2>2, <2>3, ResumeFacts
  <1>4. CASE \E c \in Commands[s] : Run(s, c)
    BY <1>1, <1>4
  <1>5. CASE \E c \in Commands[s], src \in DOMAIN files : Fork(s, c, src)
    <2>1. PICK c \in Commands[s], src \in DOMAIN files : Fork(s, c, src)
      BY <1>5
    <2>2. QED
      BY <1>2, <2>1
  <1>6. CASE \E c \in Commands[s], src \in DOMAIN files : Resume(s, c, src)
    <2>1. PICK c \in Commands[s], src \in DOMAIN files : Resume(s, c, src)
      BY <1>6
    <2>2. QED
      BY <1>3, <2>1
  <1>7. QED
    BY <1>4, <1>5, <1>6 DEF Started

-----------------------------------------------------------------------------
(* Types are kept *)

\* The types of the other sessions.
LEMMA OthersTyped ==
  ASSUME Typed, NEW s \in Sessions, Others(s), SessionTyped(s)'
  PROVE  /\ DOMAIN ses' = Sessions /\ ses' = [t \in Sessions |-> ses'[t]]
         /\ \A t \in Sessions : SessionTyped(t)'
  <1>1. ASSUME NEW t \in Sessions, t # s
        PROVE  SessionTyped(t)'
    <2>1. ses'[t] = ses[t] /\ SessionTyped(t)
      BY <1>1 DEF Others, Typed
    <2>2. QED
      BY <2>1 DEF SessionTyped, HandsTyped
  <1>2. QED
    BY <1>1 DEF Others

LEMMA MovedTyped ==
  ASSUME Typed, NEW s \in Sessions, Moves(s), ses[s].pc # "idle",
         ses'[s].pc \in Live \cup Planning \cup Ended,
         ses'[s].handle \in BOOLEAN, ses'[s].fresh \in BOOLEAN, ses'[s].seq \in Nat,
         ses'[s].step \in Nat, ses'[s].hist \in Histories, ses'[s].logged \in Nat,
         ses'[s].resp \in Messages,
         ses'[s].pc = "log" => ses'[s].logged < Len(ses'[s].hist),
         ses'[s].pc = "results" => ses'[s].hist # <<>>,
         ses'[s].pc \in Early => ses'[s].logged = 0,
         ses'[s].pc \in Planning => ses'[s].seq = 0,
         ses'[s].pc \in Restoring => ses[s].restored \in Nat, HandsTyped(s)'
  PROVE  SessionTyped(s)'
  <1>1. SessionTyped(s)
    BY DEF Typed
  <1>2. /\ ses[s].cmd \in Commands[s] /\ ses[s].src \in Names /\ ses[s].out \in Names
        /\ Cached(ses[s].cache) /\ ses[s].sound \in {"faithful", "simulated"}
        /\ ses[s].restored \in Nat \cup {None} /\ ses[s].beside \subseteq Sessions
    BY <1>1 DEF SessionTyped
  <1>3. ses'[s].pc \in Pcs /\ ses'[s].pc # "idle"
    BY DEF Pcs, Live, Planning, Ended, Appending, Restoring, Taking
  <1>4. QED
    BY <1>2, <1>3 DEF SessionTyped, Moves, Fixed

LEMMA StillTyped ==
  ASSUME Typed, NEW s \in Sessions, Moves(s), Still(s), ses[s].pc # "idle",
         ses'[s].pc \in (Live \ {"log", "results"}) \cup Planning \cup Ended,
         ses'[s].pc \in Early => ses[s].pc \in Early,
         ses'[s].pc \in Planning => ses[s].pc \in Planning,
         ses'[s].pc \in Restoring => ses[s].pc \in Restoring, HandsTyped(s)'
  PROVE  SessionTyped(s)'
  <1>1. /\ ses[s].handle \in BOOLEAN /\ ses[s].fresh \in BOOLEAN /\ ses[s].seq \in Nat
        /\ ses[s].step \in Nat /\ ses[s].hist \in Histories /\ ses[s].logged \in Nat
        /\ ses[s].resp \in Messages /\ (ses[s].pc \in Early => ses[s].logged = 0)
        /\ (ses[s].pc \in Planning => ses[s].seq = 0)
        /\ (ses[s].pc \in Restoring => ses[s].restored \in Nat)
    BY DEF Typed, SessionTyped
  <1>2. ses'[s].pc \in Live \cup Planning \cup Ended /\ ses'[s].pc # "log" /\ ses'[s].pc # "results"
    BY DEF Ended, Planning, Restoring
  <1>3. QED
    BY <1>1, <1>2, MovedTyped DEF Still

\* What a directory holds, and what becomes of the directories.
LEMMA TreesAre ==
  ASSUME Typed
  PROVE  /\ \A d : Holds(d) \subseteq Ids
         /\ \A d \in Nat \cup {Home}, w \in SUBSET Ids : trees' = Filled(d, w) => TreesTyped'
         /\ \A d : trees' = Removed(d) => TreesTyped'
         /\ trees' = trees => TreesTyped'
  BY DEF Typed, TreesTyped, Holds, Filled, Removed

\* A step of a restore or of a snapshot.
Copies(s) == Clear(s) \/ Unlink(s) \/ Rmdir(s) \/ Mkdir(s) \/ CopyOne(s) \/ Copied(s)

Ways(s) == \/ ses[s].pc \in Restoring /\ ses'[s].pc \in Restoring \cup {"decide", "dead"}
           \/ ses[s].pc \in Taking /\ ses'[s].pc \in (Taking \ {"snap"}) \cup {"snapped", "dead"}

\* It changes one directory only.
Apiece(s) == \A d : d # Into(s) =>
               /\ d \in DOMAIN trees' <=> d \in DOMAIN trees
               /\ d \in DOMAIN trees => trees'[d] = trees[d]
               /\ Holds(d)' = Holds(d)

LEMMA FilledFacts ==
  ASSUME NEW s, NEW w, trees' = Filled(Into(s), w)
  PROVE  Apiece(s) /\ Into(s) \in DOMAIN trees' /\ trees'[Into(s)] = w
  BY DEF Apiece, Filled, Holds

LEMMA RemovedFacts ==
  ASSUME NEW s, trees' = Removed(Into(s))
  PROVE  Apiece(s) /\ Into(s) \notin DOMAIN trees'
  BY DEF Apiece, Removed, Holds

LEMMA CopiesFacts ==
  ASSUME Typed, NEW s \in Sessions, Copies(s)
  PROVE  /\ Moves(s) /\ Still(s) /\ files' = files /\ Ways(s) /\ HandsTyped(s)' /\ TreesTyped'
         /\ Apiece(s)
  <1>1. /\ ses[s].todo \subseteq Ids /\ ses[s].got \subseteq Ids /\ ses[s].whole \in BOOLEAN
        /\ (ses[s].pc \in Restoring => ses[s].restored \in Nat) /\ ses[s].step \in Nat
    BY DEF Typed, SessionTyped, HandsTyped
  <1>2. \A d : Holds(d) \subseteq Ids
    BY TreesAre
  <1>3. Into(s) \in Nat \cup {Home}
    BY <1>1 DEF Into
  <1>4. trees' = trees => TreesTyped' /\ Apiece(s)
    BY TreesAre DEF Apiece, Holds
  <1>5. ASSUME NEW w \in SUBSET Ids, trees' = Filled(Into(s), w)
        PROVE  TreesTyped' /\ Apiece(s)
    BY <1>3, <1>5, TreesAre, FilledFacts
  <1>6. ASSUME NEW p, Goes(s, [pc |-> p])
        PROVE  Moves(s) /\ Still(s) /\ HandsTyped(s)' /\ ses'[s].pc = p
    BY <1>1, <1>6, PcFacts DEF Hands, HandsTyped
  <1>7. ASSUME NEW p, NEW t \in SUBSET Ids, Goes(s, [pc |-> p, todo |-> t])
        PROVE  Moves(s) /\ Still(s) /\ HandsTyped(s)' /\ ses'[s].pc = p
    <2> DEFINE know == [pc |-> p, todo |-> t]
    <2>1. DOMAIN know = {"pc", "todo"} /\ know.pc = p /\ know.todo = t /\ Goes(s, know)
      BY <1>7
    <2> HIDE DEF know
    <2>2. QED
      BY <1>1, <2>1, HandsFacts DEF HandsTyped
  <1>8. CASE Clear(s)
    <2>1. files' = files /\ trees' = trees /\ ses[s].pc \in {"wipe", "snap"}
      BY <1>8 DEF Clear
    <2>2. /\ Moves(s) /\ Still(s) /\ HandsTyped(s)'
          /\ ses'[s].pc \in {"dead", On(s, "wiping", "snapwiping"), On(s, "copy", "snapcopy")}
      <3>1. CASE Goes(s, [pc |-> "dead"])
        BY <1>6, <3>1
      <3>2. CASE /\ Into(s) \in DOMAIN trees
                 /\ Goes(s, [pc |-> On(s, "wiping", "snapwiping"), todo |-> trees[Into(s)]])
        <4>1. trees[Into(s)] \in SUBSET Ids
          BY <1>2, <3>2 DEF Holds
        <4>2. QED
          BY <1>7, <3>2, <4>1
      <3>3. CASE Goes(s, [pc |-> On(s, "copy", "snapcopy")])
        BY <1>6, <3>3
      <3>4. QED
        BY <1>8, <3>1, <3>2, <3>3 DEF Clear
    <2>3. Ways(s)
      BY <2>1, <2>2 DEF Ways, On, Restoring, Taking
    <2>4. QED
      BY <1>4, <2>1, <2>2, <2>3
  <1>9. CASE Unlink(s)
    <2>1. files' = files /\ ses[s].pc \in {"wiping", "snapwiping"}
      BY <1>9 DEF Unlink
    <2>2. /\ Moves(s) /\ Still(s) /\ HandsTyped(s)' /\ TreesTyped' /\ Apiece(s)
          /\ ses'[s].pc \in {ses[s].pc, "dead"}
      <3>1. CASE \E x \in Holds(Into(s)) :
                   /\ trees' = Filled(Into(s), Holds(Into(s)) \ {x})
                   /\ Goes(s, [todo |-> ses[s].todo \ {x}])
        <4>1. PICK x \in Holds(Into(s)) :
                   /\ trees' = Filled(Into(s), Holds(Into(s)) \ {x})
                   /\ Goes(s, [todo |-> ses[s].todo \ {x}])
          BY <3>1
        <4> DEFINE know == [todo |-> ses[s].todo \ {x}]
        <4>2. DOMAIN know = {"todo"} /\ know.todo = ses[s].todo \ {x} /\ Goes(s, know)
          BY <4>1
        <4> HIDE DEF know
        <4>3. Moves(s) /\ Still(s) /\ HandsTyped(s)' /\ ses'[s].pc = ses[s].pc
          BY <1>1, <4>2, HandsFacts DEF HandsTyped
        <4>4. Holds(Into(s)) \ {x} \in SUBSET Ids
          BY <1>2
        <4>5. QED
          BY <1>5, <4>1, <4>3, <4>4
      <3>2. CASE Goes(s, [pc |-> "dead", todo |-> {}]) /\ UNCHANGED trees
        <4>1. {} \in SUBSET Ids
          OBVIOUS
        <4>2. QED
          BY <1>4, <1>7, <3>2, <4>1
      <3>3. QED
        BY <1>9, <3>1, <3>2 DEF Unlink
    <2>3. Ways(s)
      BY <2>1, <2>2 DEF Ways, Restoring, Taking
    <2>4. QED
      BY <2>1, <2>2, <2>3
  <1>10. CASE Rmdir(s)
    <2>1. /\ files' = files /\ ses[s].pc \in {"wiping", "snapwiping"}
          /\ \/ trees' = Removed(Into(s)) /\ Goes(s, [pc |-> On(s, "copy", "snapcopy")])
             \/ trees' = trees /\ Goes(s, [pc |-> "dead"])
      BY <1>10 DEF Rmdir
    <2>2. /\ Moves(s) /\ Still(s) /\ HandsTyped(s)'
          /\ ses'[s].pc \in {"dead", On(s, "copy", "snapcopy")}
      BY <1>6, <2>1
    <2>3. Ways(s)
      BY <2>1, <2>2 DEF Ways, On, Restoring, Taking
    <2>4. TreesTyped' /\ Apiece(s)
      BY <1>4, <2>1, TreesAre, RemovedFacts
    <2>5. QED
      BY <2>1, <2>2, <2>3, <2>4
  <1>11. CASE Mkdir(s)
    <2>1. files' = files /\ ses[s].pc \in {"copy", "snapcopy"}
      BY <1>11 DEF Mkdir
    <2>2. /\ Moves(s) /\ Still(s) /\ HandsTyped(s)' /\ TreesTyped' /\ Apiece(s)
          /\ ses'[s].pc \in {On(s, "copying", "snapcopying"), "dead"}
      <3>1. CASE /\ From(s) \in DOMAIN trees /\ trees' = Filled(Into(s), {})
                 /\ Goes(s, [pc |-> On(s, "copying", "snapcopying"), todo |-> trees[From(s)],
                             got |-> {}, whole |-> TRUE])
        <4> DEFINE know == [pc |-> On(s, "copying", "snapcopying"), todo |-> trees[From(s)],
                            got |-> {}, whole |-> TRUE]
        <4>1. /\ DOMAIN know = {"pc", "todo", "got", "whole"} /\ know.todo = trees[From(s)]
              /\ know.got = {} /\ know.whole = TRUE /\ Goes(s, know)
              /\ know.pc = On(s, "copying", "snapcopying")
          BY <3>1
        <4> HIDE DEF know
        <4>2. trees[From(s)] \subseteq Ids
          BY <1>2, <3>1 DEF Holds
        <4>3. /\ Moves(s) /\ Still(s) /\ ses'[s].pc = On(s, "copying", "snapcopying")
              /\ ses'[s].todo = trees[From(s)] /\ ses'[s].got = {} /\ ses'[s].whole = TRUE
          BY <4>1, HandsFacts
        <4>4. HandsTyped(s)'
          BY <4>2, <4>3 DEF HandsTyped
        <4>5. {} \in SUBSET Ids
          OBVIOUS
        <4>6. QED
          BY <1>5, <3>1, <4>3, <4>4, <4>5
      <3>2. CASE Goes(s, [pc |-> "dead"]) /\ UNCHANGED trees
        BY <1>4, <1>6, <3>2
      <3>3. QED
        BY <1>11, <3>1, <3>2 DEF Mkdir
    <2>3. Ways(s)
      BY <2>1, <2>2 DEF Ways, On, Restoring, Taking
    <2>4. QED
      BY <2>1, <2>2, <2>3
  <1>12. CASE CopyOne(s)
    <2>1. files' = files /\ ses[s].pc \in {"copying", "snapcopying"}
      BY <1>12 DEF CopyOne
    <2>2. PICK x \in ses[s].todo \cup (Holds(From(s)) \ ses[s].got) :
            IF x \in Holds(From(s)) /\ Into(s) \in DOMAIN trees
              THEN /\ trees' = Filled(Into(s), Holds(Into(s)) \cup {x})
                   /\ Goes(s, [todo |-> ses[s].todo \ {x}, got |-> ses[s].got \cup {x}])
              ELSE Goes(s, [todo |-> ses[s].todo \ {x}, whole |-> FALSE]) /\ UNCHANGED trees
      BY <1>12 DEF CopyOne
    <2>3. /\ Moves(s) /\ Still(s) /\ HandsTyped(s)' /\ TreesTyped' /\ Apiece(s)
          /\ ses'[s].pc = ses[s].pc
      <3>1. CASE x \in Holds(From(s)) /\ Into(s) \in DOMAIN trees
        <4> DEFINE know == [todo |-> ses[s].todo \ {x}, got |-> ses[s].got \cup {x}]
        <4>1. /\ DOMAIN know = {"todo", "got"} /\ know.todo = ses[s].todo \ {x}
              /\ know.got = ses[s].got \cup {x} /\ Goes(s, know)
          BY <2>2, <3>1
        <4> HIDE DEF know
        <4>2. Moves(s) /\ Still(s) /\ HandsTyped(s)' /\ ses'[s].pc = ses[s].pc
          BY <1>1, <1>2, <3>1, <4>1, HandsFacts DEF HandsTyped
        <4>3. Holds(Into(s)) \cup {x} \in SUBSET Ids
          BY <1>2, <3>1
        <4>4. QED
          BY <1>5, <2>2, <3>1, <4>2, <4>3
      <3>2. CASE ~(x \in Holds(From(s)) /\ Into(s) \in DOMAIN trees)
        <4> DEFINE know == [todo |-> ses[s].todo \ {x}, whole |-> FALSE]
        <4>1. /\ DOMAIN know = {"todo", "whole"} /\ know.todo = ses[s].todo \ {x}
              /\ know.whole = FALSE /\ Goes(s, know)
          BY <2>2, <3>2
        <4> HIDE DEF know
        <4>2. /\ Moves(s) /\ Still(s) /\ ses'[s].pc = ses[s].pc
              /\ ses'[s].todo = ses[s].todo \ {x} /\ ses'[s].got = ses[s].got
              /\ ses'[s].whole = FALSE
          BY <4>1, HandsFacts
        <4>3. HandsTyped(s)'
          BY <1>1, <4>2 DEF HandsTyped
        <4>4. QED
          BY <1>4, <2>2, <3>2, <4>2, <4>3
      <3>3. QED
        BY <3>1, <3>2
    <2>4. Ways(s)
      BY <2>1, <2>3 DEF Ways, Restoring, Taking
    <2>5. QED
      BY <2>1, <2>3, <2>4
  <1>13. CASE Copied(s)
    <2>1. /\ files' = files /\ trees' = trees /\ ses[s].pc \in {"copying", "snapcopying"}
      BY <1>13 DEF Copied
    <2>2. PICK p : Goes(s, [pc |-> p]) /\ p \in {On(s, "decide", "snapped"), "dead"}
      BY <1>13 DEF Copied
    <2>3. Moves(s) /\ Still(s) /\ HandsTyped(s)' /\ ses'[s].pc = p
      BY <1>6, <2>2
    <2>4. Ways(s)
      BY <2>1, <2>2, <2>3 DEF Ways, On, Restoring, Taking
    <2>5. QED
      BY <1>4, <2>1, <2>3, <2>4
  <1>14. QED
    BY <1>8, <1>9, <1>10, <1>11, <1>12, <1>13 DEF Copies

LEMMA PutTyped ==
  ASSUME Typed, NEW s \in Sessions, Put(s)
  PROVE  SessionTyped(s)'
  <1>1. /\ ses[s].handle \in BOOLEAN /\ ses[s].fresh \in BOOLEAN /\ ses[s].seq \in Nat
        /\ ses[s].step \in Nat /\ ses[s].hist \in Histories /\ ses[s].logged \in Nat
        /\ ses[s].resp \in Messages /\ Holds(Home) \subseteq Ids
        /\ ses[s].pc = "log" => ses[s].logged < Len(ses[s].hist)
        /\ ses[s].pc \in Early => ses[s].logged = 0
        /\ ses[s].todo \subseteq Ids /\ ses[s].got \subseteq Ids /\ ses[s].whole \in BOOLEAN
    BY TreesAre DEF Typed, SessionTyped, HandsTyped
  <1>2. /\ Moves(s) /\ Hands(s) /\ ses'[s].handle = ses[s].handle /\ ses'[s].fresh = FALSE
        /\ ses'[s].seq = ses[s].seq + 1 /\ ses'[s].resp = ses[s].resp
        /\ Followed(s) /\ ses[s].pc \in Appending
    BY AfterFacts DEF Put
  <1>3. Answer(s) \in Messages
    <2>1. ses[s].resp.id \in Ids /\ ses[s].resp.act \in Acts
      BY <1>1 DEF Messages
    <2>2. "tools" \in Speakers
      BY DEF Speakers
    <2>3. (IF ses[s].resp.act = "read" THEN Holds(Home) ELSE {}) \in SUBSET Ids
      BY <1>1
    <2>4. QED
      BY <2>1, <2>2, <2>3, MsgTyped DEF Answer
  <1>4. ASSUME NEW m \in Messages
        PROVE  Append(ses[s].hist, m) \in Histories /\ Append(ses[s].hist, m) # <<>>
    BY <1>1 DEF Histories
  <1>5. /\ ses'[s].pc \in Live \cup {"over"} /\ ses'[s].step \in Nat /\ ses'[s].hist \in Histories
        /\ ses'[s].logged \in Nat
        /\ ses'[s].pc = "log" => ses'[s].logged < Len(ses'[s].hist)
        /\ ses'[s].pc = "results" => ses'[s].hist # <<>>
        /\ (ses'[s].pc \in Early => ses'[s].logged = 0) /\ ses'[s].pc \notin Planning
    <2>1. CASE ses[s].pc = "provenance"
      BY <1>1, <1>2, <2>1 DEF Followed, Carried, Live, Appending, Early, Planning, Restoring, Taking
    <2>2. CASE ses[s].pc = "start"
      <3>1. ses[s].logged = 0
        BY <1>1, <2>2 DEF Early
      <3>2. QED
        BY <1>1, <1>2, <2>2, <3>1 DEF Followed, Carried, Begun, Live, Appending, Early, Planning, Histories, Restoring, Taking
    <2>3. CASE ses[s].pc = "log"
      BY <1>1, <1>2, <2>3 DEF Followed, Begun, Live, Appending, Early, Planning, Restoring, Taking
    <2>4. CASE ses[s].pc = "snapped"
      BY <1>1, <1>2, <2>4 DEF Followed, Carried, Live, Appending, Early, Planning, Restoring, Taking
    <2>5. CASE ses[s].pc = "asked"
      BY <1>1, <1>2, <1>4, <2>5 DEF Followed, Live, Appending, Early, Planning, Restoring, Taking
    <2>6. CASE ses[s].pc = "done"
      BY <1>1, <1>2, <1>3, <1>4, <2>6 DEF Followed, Live, Appending, Early, Planning, Restoring, Taking
    <2>7. CASE ses[s].pc = "results"
      BY <1>1, <1>2, <2>7 DEF Followed, Begun, Live, Appending, Early, Planning, Restoring, Taking
    <2>8. CASE ses[s].pc = "end"
      BY <1>1, <1>2, <2>8 DEF Followed, Carried, Live, Appending, Early, Planning, Restoring, Taking
    <2>9. QED
      BY <1>2, <2>1, <2>2, <2>3, <2>4, <2>5, <2>6, <2>7, <2>8 DEF Appending
  <1>6. ses[s].pc # "idle"
    BY <1>2 DEF Appending
  <1>7. ses'[s].pc \in Live \cup Planning \cup Ended
    BY <1>5 DEF Ended
  <1>8. ses'[s].seq \in Nat
    BY <1>1, <1>2
  <1>9. HandsTyped(s)' /\ ses'[s].pc \notin Restoring
    BY <1>1, <1>2, <1>5 DEF HandsTyped, Hands, Planning
  <1>10. QED
    BY <1>1, <1>2, <1>5, <1>6, <1>7, <1>8, <1>9, MovedTyped

LEMMA BirthTyped ==
  ASSUME Typed, Filed, NEW s \in Sessions, Started(s)
  PROVE  SessionTyped(s)'
  <1>1. /\ Birth(s)
        /\ \/ \E c \in Commands[s] : Run(s, c) /\ ses'[s].pc = "open"
           \/ \E c \in Commands[s], src \in DOMAIN files :
                c.kind = "fork" /\ ForkPlanned(s, c, src) /\ ses'[s].pc \in {"decide", "wipe"}
           \/ \E c \in Commands[s], src \in DOMAIN files :
                c.kind = "resume" /\ ResumePlanned(s, c, src) /\ ses'[s].pc \in {"decide", "wipe"}
           \/ \E c \in Commands[s], src \in DOMAIN files :
                c.kind # "run" /\ Fails(s, c, src) /\ ses'[s].pc = "refused"
    BY StartedAs
  <1>2. /\ DOMAIN ses'[s] = Fields /\ ses'[s].cmd \in Commands[s]
        /\ ses'[s].pc \in {"open", "refused", "decide", "wipe"}
        /\ ses'[s].handle = FALSE /\ ses'[s].fresh = FALSE /\ ses'[s].seq = 0
        /\ ses'[s].step = 0 /\ ses'[s].logged = 0 /\ ses'[s].resp = NoMsg
        /\ ses'[s].todo = {} /\ ses'[s].got = {} /\ ses'[s].whole = TRUE
        /\ ses'[s].beside \subseteq Sessions
    BY <1>1 DEF Birth, NewBorn, Running
  <1>3. NoMsg \in Messages /\ None \in Nat \cup {None} /\ <<>> \in Names /\ Cached(NoCache) /\ <<>> \in Histories
    <2>1. DOMAIN NoCache = {}
      BY DEF NoCache
    <2>2. QED
      BY <2>1, MsgTyped DEF None, Names, Histories, Cached
  <1>4. \A src \in DOMAIN files : src \in Names /\ Rs(src) \in Seq(Stamped)
    BY FilesTyped, RecordsTyped DEF FileOfTyped, Typed, Rs
  <1>5. \A c \in Commands[s] : c.at \in Nat /\ c.tape \in Names
    BY LineageAssumption DEF Names
  <1>6. \A c \in Commands[s] : LatestBefore(c.at) \in Nat \cup {None}
    BY <1>5, LatestTyped
  <1> DEFINE Planned == /\ ses'[s].src \in Names /\ ses'[s].out \in Names
                        /\ ses'[s].hist \in Histories /\ Cached(ses'[s].cache)
                        /\ ses'[s].sound \in {"faithful", "simulated"}
                        /\ ses'[s].restored \in Nat \cup {None}
                        /\ (ses'[s].pc = "wipe" => ses'[s].restored \in Nat)
  <1>7. Planned
    <2>1. ASSUME NEW c \in Commands[s], Run(s, c)
          PROVE  Planned
      <3>1. Named(c) \in Names
        BY <1>5, DefaultTapeFree, NamesDiffer DEF Named
      <3>2. <<Prompt(s), Task(s)>> \in Histories
        BY MsgTyped DEF Histories
      <3>3. QED
        BY <1>3, <2>1, <3>1, <3>2, RunFacts
    <2>2. ASSUME NEW c \in Commands[s], NEW src \in DOMAIN files, ForkPlanned(s, c, src)
          PROVE  Planned
      <3>1. ForkName(src, c.at) \in Names
        BY <1>4, <1>5, NamesDiffer
      <3>2. HistoryBefore(Rs(src), c.at) \in Histories
        BY <1>4, ToldTyped DEF HistoryBefore
      <3>3. Edited(s, c, HistoryBefore(Rs(src), c.at)) \in Histories
        BY <3>2, EditedTyped
      <3>4. Cached(CacheOf(Rs(src)))
        BY <1>4, CacheHolds
      <3>5. \A ws, k : Soundness(ws, k) \in {"faithful", "simulated"}
        BY DEF Soundness
      <3>6. QED
        BY <1>3, <1>4, <1>6, <2>2, <3>1, <3>3, <3>4, <3>5 DEF ForkPlanned
    <2>3. ASSUME NEW c \in Commands[s], NEW src \in DOMAIN files, ResumePlanned(s, c, src)
          PROVE  Planned
      <3>1. ResumedName(src) \in Names
        BY <1>4, NamesDiffer
      <3>2. History(Rs(src)) \in Histories
        BY <1>4, ToldTyped DEF History
      <3>3. Edited(s, c, History(Rs(src))) \in Histories
        BY <3>2, EditedTyped
      <3>4. QED
        BY <1>3, <1>4, <1>6, <2>3, <3>1, <3>3 DEF ResumePlanned
    <2>4. ASSUME NEW c \in Commands[s], NEW src \in DOMAIN files, Fails(s, c, src)
          PROVE  Planned
      <3>1. ses[s].pc = "idle"
        BY <1>1 DEF Birth
      <3>2. QED
        BY <1>3, <1>4, <2>4, <3>1, FailsFacts
    <2>5. QED
      BY <1>1, <2>1, <2>2, <2>3, <2>4
  <1>8. ses'[s].pc \in Pcs /\ ses'[s].pc # "idle" /\ ses'[s].pc # "log" /\ ses'[s].pc # "results"
    BY <1>2 DEF Pcs, Planning, Ended, Restoring
  <1>9. /\ ses'[s].handle \in BOOLEAN /\ ses'[s].fresh \in BOOLEAN /\ ses'[s].seq \in Nat
        /\ ses'[s].step \in Nat /\ ses'[s].logged \in Nat /\ ses'[s].resp \in Messages
    <2>1. ses'[s].handle \in BOOLEAN /\ ses'[s].fresh \in BOOLEAN
      BY <1>2, Zenon
    <2>2. QED
      BY <1>2, <1>3, <2>1
  <1>10. HandsTyped(s)' /\ (ses'[s].pc \in Restoring => ses'[s].restored \in Nat)
    BY <1>2, <1>7 DEF HandsTyped, Restoring
  <1>11. QED
    BY <1>2, <1>7, <1>8, <1>9, <1>10 DEF SessionTyped

\* The files a step may leave.
Written(s, f) == files' = [files EXCEPT ![ses[s].out] = f]

LEMMA TypedInit == Init => Typed
  <1> SUFFICES ASSUME Init
               PROVE  Typed
    OBVIOUS
  <1>1. DOMAIN NoCache = {}
    BY DEF NoCache
  <1>2. NoMsg \in Messages /\ None \in Nat \cup {None} /\ <<>> \in Names /\ Cached(NoCache) /\ <<>> \in Histories
    BY <1>1, MsgTyped DEF None, Names, Histories, Cached
  <1>3. \A s \in Sessions : ses[s] = Idle
    BY DEF Init
  <1>4. DOMAIN Idle = Fields
    BY DEF Idle, Fields
  <1>5. \A s \in Sessions : SessionTyped(s)
    <2>1. /\ Idle.pc = "idle" /\ Idle.src = <<>> /\ Idle.out = <<>> /\ Idle.handle = FALSE
          /\ Idle.fresh = FALSE /\ Idle.seq = 0 /\ Idle.step = 0 /\ Idle.hist = <<>>
          /\ Idle.logged = 0 /\ Idle.cache = NoCache /\ Idle.resp = NoMsg
          /\ Idle.sound = "faithful" /\ Idle.restored = None /\ Idle.beside = {}
          /\ Idle.todo = {} /\ Idle.got = {} /\ Idle.whole = TRUE
      BY DEF Idle
    <2>2. Idle.pc \in Pcs /\ Idle.pc \notin Restoring
      BY <2>1 DEF Pcs, Restoring
    <2>3. Idle.handle \in BOOLEAN /\ Idle.fresh \in BOOLEAN /\ Idle.whole \in BOOLEAN
      BY <2>1, Zenon
    <2>4. ASSUME NEW s \in Sessions
          PROVE  SessionTyped(s)
      <3>1. ses[s] = Idle
        BY <1>3
      <3>2. QED
        BY <1>2, <1>4, <2>1, <2>2, <2>3, <3>1 DEF SessionTyped, HandsTyped
    <2>5. QED
      BY <2>4
  <1>6. TreesTyped
    BY DEF Init, TreesTyped
  <1>7. QED
    BY <1>5, <1>6 DEF Init, Typed

LEMMA TypedNext ==
  ASSUME Typed, Filed, [Next]_vars
  PROVE  Typed'
  <1>1. CASE UNCHANGED vars
    <2>1. \A s \in Sessions : SessionTyped(s)'
      BY <1>1 DEF vars, Typed, SessionTyped, HandsTyped
    <2>2. TreesTyped'
      BY <1>1 DEF vars, Typed, TreesTyped
    <2>3. QED
      BY <1>1, <2>1, <2>2 DEF vars, Typed
  <1>2. ASSUME NEW s \in Sessions, Others(s), SessionTyped(s)',
               DOMAIN files' \subseteq Names, \A n \in DOMAIN files' : files'[n] \in Seq(Lines),
               TreesTyped'
        PROVE  Typed'
    BY <1>2, OthersTyped DEF Typed
  <1>3. /\ DOMAIN files \subseteq Names /\ \A n \in DOMAIN files : files[n] \in Seq(Lines)
        /\ trees' = trees => TreesTyped'
    BY TreesAre DEF Typed
  <1>4. \A s \in Sessions : Hands(s) => HandsTyped(s)'
    BY DEF Typed, SessionTyped, HandsTyped, Hands
  <1>5. ASSUME NEW s \in Sessions, Started(s)
        PROVE  Typed'
    <2>1. Birth(s) /\ SessionTyped(s)'
      BY <1>5, StartedAs, BirthTyped
    <2>2. QED
      BY <1>2, <1>3, <2>1 DEF Birth, NewBorn
  <1>6. ASSUME NEW s \in Sessions, Copies(s)
        PROVE  Typed'
    <2>1. /\ Moves(s) /\ Still(s) /\ files' = files /\ Ways(s) /\ HandsTyped(s)' /\ TreesTyped'
      BY <1>6, CopiesFacts
    <2>2. SessionTyped(s)'
      <3>1. ses[s].pc # "idle"
        BY <2>1 DEF Ways, Restoring, Taking
      <3>2. /\ ses'[s].pc \in (Live \ {"log", "results"}) \cup Planning \cup Ended
            /\ ses'[s].pc \in Early => ses[s].pc \in Early
            /\ ses'[s].pc \in Planning => ses[s].pc \in Planning
            /\ ses'[s].pc \in Restoring => ses[s].pc \in Restoring
        BY <2>1 DEF Ways, Restoring, Taking, Live, Appending, Planning, Early, Ended
      <3>3. QED
        BY <2>1, <3>1, <3>2, StillTyped
    <2>3. QED
      BY <1>2, <1>3, <2>1, <2>2 DEF Moves
  <1>8. ASSUME NEW s \in Sessions, Decide(s)
        PROVE  Typed'
    <2>1. Moves(s) /\ Still(s) /\ Hands(s) /\ ses'[s].pc \in {"refused", "over", "open"} /\ ses[s].pc = "decide"
      BY <1>8, DecideFacts DEF Decide
    <2>2. SessionTyped(s)'
      BY <1>4, <2>1, StillTyped DEF Planning, Early, Ended, Restoring
    <2>3. files' = files /\ trees' = trees
      BY <1>8 DEF Decide
    <2>4. QED
      BY <1>2, <1>3, <2>1, <2>2, <2>3 DEF Moves
  <1>9. ASSUME NEW s \in Sessions, Open(s)
        PROVE  Typed'
    <2>1. /\ Moves(s) /\ Hands(s) /\ ses'[s].handle = TRUE /\ ses'[s].fresh = (FileOf(ses[s].out) = <<>>)
          /\ ses'[s].pc \in {"start", "provenance"}
          /\ ses'[s].seq = ses[s].seq /\ ses'[s].step = ses[s].step
          /\ ses'[s].hist = ses[s].hist /\ ses'[s].logged = ses[s].logged
          /\ ses'[s].resp = ses[s].resp /\ ses[s].pc = "open"
      BY <1>9, OpenFacts DEF Open
    <2>2. /\ ses[s].seq \in Nat /\ ses[s].step \in Nat /\ ses[s].hist \in Histories
          /\ ses[s].logged = 0 /\ ses[s].resp \in Messages /\ ses[s].out \in Names
      BY <2>1 DEF Typed, SessionTyped, Early, Planning
    <2>3. /\ ses'[s].pc \in Live \cup Planning \cup Ended /\ ses'[s].pc \notin Planning
          /\ ses'[s].pc # "log" /\ ses'[s].pc # "results"
      BY <2>1 DEF Live, Appending, Planning, Restoring
    <2>4. ses'[s].handle \in BOOLEAN /\ ses'[s].fresh \in BOOLEAN
      BY <2>1
    <2>5. SessionTyped(s)'
      <3>1. /\ Moves(s) /\ ses[s].pc # "idle" /\ ses'[s].seq \in Nat /\ ses'[s].step \in Nat
            /\ ses'[s].hist \in Histories /\ ses'[s].logged = 0 /\ ses'[s].resp \in Messages
            /\ HandsTyped(s)' /\ ses'[s].pc \notin Restoring
        BY <1>4, <2>1, <2>2 DEF Restoring
      <3>2. QED
        BY <2>3, <2>4, <3>1, MovedTyped
    <2>6. files' = [n \in DOMAIN files \cup {ses[s].out} |-> FileOf(n)] /\ trees' = trees
      BY <1>9 DEF Open
    <2>7. DOMAIN files' \subseteq Names /\ \A n \in DOMAIN files' : files'[n] \in Seq(Lines)
      BY <1>3, <2>2, <2>6, FilesTyped DEF FileOfTyped
    <2>8. QED
      BY <1>2, <1>3, <2>1, <2>5, <2>6, <2>7 DEF Moves
  <1>10. ASSUME NEW s \in Sessions, NEW g \in Seq(Lines), Written(s, g)
         PROVE  DOMAIN files' \subseteq Names /\ \A n \in DOMAIN files' : files'[n] \in Seq(Lines)
    BY <1>3, <1>10 DEF Written
  <1>11. ASSUME NEW s \in Sessions, ses[s].pc \in Appending
         PROVE  /\ Numbered(ses[s].seq, Pending(s)) \in Stamped /\ ses[s].fresh \in BOOLEAN
                /\ FileOf(ses[s].out) \in Seq(Lines) /\ FileOf(ses[s].out) = files[ses[s].out]
    <2>1. Pending(s) \in Events
      BY <1>11, PendingTyped
    <2>2. ses[s].seq \in Nat /\ ses[s].fresh \in BOOLEAN
      BY DEF Typed, SessionTyped
    <2>3. ses[s].out \in DOMAIN files
      BY <1>11 DEF Filed, Live
    <2>4. QED
      BY <2>1, <2>2, <2>3, LinesTyped, FilesTyped DEF FileOfTyped, FileOf
  <1>12. ASSUME NEW s \in Sessions, Put(s)
         PROVE  Typed'
    <2>1. SessionTyped(s)' /\ Moves(s)
      BY <1>12, PutTyped, AfterFacts DEF Put
    <2>2. /\ Written(s, Appended(files[ses[s].out], ses[s].fresh, Header, Numbered(ses[s].seq, Pending(s))))
          /\ trees' = trees /\ ses[s].pc \in Appending
      BY <1>12 DEF Put, Written
    <2>3. Appended(files[ses[s].out], ses[s].fresh, Header, Numbered(ses[s].seq, Pending(s))) \in Seq(Lines)
      BY <1>11, <2>2, AppendedTyped
    <2>4. QED
      BY <1>2, <1>3, <1>10, <2>1, <2>2, <2>3 DEF Moves
  <1>16. ASSUME NEW s \in Sessions, Ask(s)
         PROVE  Typed'
    <2>1. /\ Moves(s) /\ Hands(s) /\ ses'[s].pc = "asked"
          /\ ses'[s].handle = ses[s].handle /\ ses'[s].fresh = ses[s].fresh
          /\ ses'[s].seq = ses[s].seq /\ ses'[s].step = ses[s].step
          /\ ses'[s].hist = ses[s].hist /\ ses'[s].logged = ses[s].logged
          /\ IF ses[s].hist \in DOMAIN ses[s].cache
               THEN ses'[s].resp = ses[s].cache[ses[s].hist]
               ELSE \E a \in ses[s].cmd.acts : ses'[s].resp = Msg("model", <<s, ses[s].step>>, a, {})
      BY <1>16, AskFacts
    <2>2. /\ ses[s].handle \in BOOLEAN /\ ses[s].fresh \in BOOLEAN /\ ses[s].seq \in Nat
          /\ ses[s].step \in Nat /\ ses[s].hist \in Histories /\ ses[s].logged \in Nat
          /\ Cached(ses[s].cache) /\ (ses[s].pc = "ask" => ses[s].cmd \in Commands[s])
      BY DEF Typed, SessionTyped
    <2>3. files' = files /\ trees' = trees /\ ses[s].pc = "ask"
      BY <1>16 DEF Ask
    <2>4. ses'[s].resp \in Messages
      <3>1. ASSUME NEW a \in ses[s].cmd.acts
            PROVE  Msg("model", <<s, ses[s].step>>, a, {}) \in Messages
        <4>1. a \in {"read", "write", "done"}
          BY <2>2, <2>3, LineageAssumption
        <4>2. a \in Acts
          BY <4>1 DEF Acts
        <4>3. <<s, ses[s].step>> \in Ids /\ "model" \in Speakers /\ {} \in SUBSET Ids
          BY <2>2, LineageAssumption DEF Ids, Speakers
        <4>4. QED
          BY <4>2, <4>3, MsgTyped
      <3>2. QED
        BY <2>1, <2>2, <3>1 DEF Cached
    <2>5. ses'[s].pc \in Live \cup Planning \cup Ended /\ ses'[s].pc \notin Early \cup Planning
          /\ ses'[s].pc # "log" /\ ses'[s].pc # "results" /\ ses'[s].pc \notin Restoring
      BY <2>1 DEF Live, Appending, Early, Planning, Restoring
    <2>6. SessionTyped(s)'
      BY <1>4, <2>1, <2>2, <2>3, <2>4, <2>5, MovedTyped
    <2>7. QED
      BY <1>2, <1>3, <2>1, <2>3, <2>6 DEF Moves
  <1>17. ASSUME NEW s \in Sessions, Tool(s)
         PROVE  Typed'
    <2>1. Moves(s) /\ Still(s) /\ Hands(s) /\ ses'[s].pc = "done" /\ ses[s].pc = "tool"
      BY <1>17, PcFacts DEF Tool
    <2>2. SessionTyped(s)'
      BY <1>4, <2>1, StillTyped DEF Live, Appending, Early, Planning, Restoring
    <2>3. /\ files' = files
          /\ trees' = trees \/ trees' = Filled(Home, Holds(Home) \cup {ses[s].resp.id})
      BY <1>17 DEF Tool
    <2>4. ses[s].resp.id \in Ids
      BY DEF Typed, SessionTyped, Messages
    <2>5. TreesTyped'
      <3>1. Holds(Home) \cup {ses[s].resp.id} \in SUBSET Ids /\ Home \in Nat \cup {Home}
        BY <2>4, TreesAre
      <3>2. QED
        BY <2>3, <3>1, TreesAre
    <2>6. QED
      BY <1>2, <1>3, <2>1, <2>2, <2>3, <2>5 DEF Moves
  <1>18. ASSUME NEW s \in Sessions, Crash(s)
         PROVE  Typed'
    <2>1. Moves(s) /\ Still(s) /\ Hands(s) /\ ses'[s].pc = "dead" /\ ses[s].pc # "idle"
      BY <1>18, PcFacts DEF Crash, Running
    <2>2. SessionTyped(s)'
      BY <1>4, <2>1, StillTyped DEF Ended, Early, Planning, Restoring
    <2>3. DOMAIN files' \subseteq Names /\ \A n \in DOMAIN files' : files'[n] \in Seq(Lines)
      <3>1. CASE ses[s].pc \in Appending
        <4>1. PICK f \in Cuts(FileOf(ses[s].out), ses[s].fresh, Header, Numbered(ses[s].seq, Pending(s))) :
                Written(s, f)
          BY <1>18, <3>1 DEF Crash, Written
        <4>2. f \in Seq(Lines)
          BY <1>11, <3>1, <4>1, AppendedTyped
        <4>3. QED
          BY <1>10, <4>1, <4>2
      <3>2. CASE ses[s].pc \notin Appending
        BY <1>3, <1>18, <3>2 DEF Crash
      <3>3. QED
        BY <3>1, <3>2
    <2>4. TreesTyped'
      BY <1>3, <1>18 DEF Crash
    <2>5. QED
      BY <1>2, <2>1, <2>2, <2>3, <2>4 DEF Moves
  <1>19. QED
    BY <1>1, <1>5, <1>6, <1>8, <1>9, <1>12, <1>16, <1>17, <1>18 DEF Next, Started, Copies

-----------------------------------------------------------------------------
(* Steps that leave the tapes alone *)

\* Restores and snapshots, decisions, requests, tools, and a death that writes nothing.
Onward == (Taking \ {"snap"}) \cup {"snapped", "asked", "done", "dead"}
Silent(s) == Copies(s) \/ Decide(s) \/ Ask(s) \/ Tool(s) \/ Crash(s)
Quiet(s) ==
  /\ Silent(s) /\ Moves(s) /\ files' = files
  /\ ses'[s].handle = ses[s].handle /\ ses'[s].fresh = ses[s].fresh /\ ses'[s].seq = ses[s].seq
  /\ ses'[s].step = ses[s].step /\ ses'[s].hist = ses[s].hist /\ ses'[s].logged = ses[s].logged
  /\ \/ ses[s].pc \in Planning /\ ses'[s].pc \in Planning \cup Ended
     \/ ses[s].pc \in Live \ Appending /\ ses'[s].pc \in Onward

\* A write that does not return.
Dies(s) == Crash(s) /\ ses[s].pc \in Appending

LEMMA StepKinds ==
  ASSUME Typed, Next
  PROVE  \E s \in Sessions : Started(s) \/ Open(s) \/ Put(s) \/ Dies(s) \/ Quiet(s)
  <1>1. PICK s \in Sessions :
          \/ Started(s) \/ Open(s) \/ Put(s)
          \/ Copies(s) \/ Decide(s) \/ Ask(s) \/ Tool(s) \/ Crash(s)
    BY DEF Next, Started, Copies
  <1>2. ASSUME Silent(s), Moves(s), Still(s), files' = files, ses[s].pc \in Planning,
               ses'[s].pc \in Planning \cup Ended
        PROVE  Quiet(s)
    BY <1>2 DEF Still, Quiet
  <1>3. ASSUME Silent(s), Moves(s), Still(s), files' = files, ses[s].pc \in Live \ Appending,
               ses'[s].pc \in Onward
        PROVE  Quiet(s)
    BY <1>3 DEF Still, Quiet
  <1>4. CASE Copies(s)
    <2>1. Silent(s) /\ Moves(s) /\ Still(s) /\ files' = files /\ Ways(s)
      BY <1>4, CopiesFacts DEF Silent
    <2>3. CASE ses[s].pc \in Restoring
      BY <1>2, <2>1, <2>3 DEF Ways, Planning, Ended, Restoring, Taking
    <2>4. CASE ses[s].pc \in Taking
      BY <1>3, <2>1, <2>4 DEF Ways, Live, Appending, Onward, Restoring, Taking
    <2>5. QED
      BY <2>1, <2>3, <2>4 DEF Ways
  <1>6. CASE Decide(s)
    <2>1. /\ Silent(s) /\ Moves(s) /\ Still(s) /\ ses'[s].pc \in {"refused", "over", "open"}
          /\ ses[s].pc = "decide" /\ files' = files
      BY <1>6, DecideFacts DEF Decide, Silent
    <2>2. QED
      BY <1>2, <2>1 DEF Planning, Ended
  <1>9. CASE Ask(s)
    <2>1. ses[s].pc = "ask" /\ files' = files
      BY <1>9 DEF Ask
    <2>2. QED
      BY <1>9, <2>1, AskFacts DEF Quiet, Silent, Live, Appending, Onward
  <1>10. CASE Tool(s)
    <2>1. Silent(s) /\ Moves(s) /\ Still(s) /\ ses'[s].pc = "done" /\ ses[s].pc = "tool" /\ files' = files
      BY <1>10, PcFacts DEF Tool, Silent
    <2>2. QED
      BY <1>3, <2>1 DEF Live, Appending, Onward
  <1>11. CASE Crash(s) /\ ses[s].pc \notin Appending
    <2>1. /\ Silent(s) /\ Moves(s) /\ Still(s) /\ ses'[s].pc = "dead"
          /\ ses[s].pc \notin Ended \cup {"idle"} /\ files' = files
      BY <1>11, PcFacts DEF Crash, Running, Silent
    <2>2. ses[s].pc \in Planning \cup (Live \ Appending)
      <3>1. ses[s].pc \in Pcs
        BY DEF Typed, SessionTyped
      <3>2. QED
        BY <1>11, <2>1, <3>1 DEF Pcs
    <2>3. "dead" \in Ended /\ "dead" \in Onward
      BY DEF Ended, Onward
    <2>4. QED
      BY <1>2, <1>3, <2>1, <2>2, <2>3
  <1>12. QED
    BY <1>1, <1>4, <1>6, <1>9, <1>10, <1>11 DEF Dies

\* The session that moves, seen from its tape.
LEMMA MoverFacts ==
  ASSUME Typed, NEW s \in Sessions
  PROVE  /\ Started(s) => NewBorn(s) /\ ses[s] = Idle /\ files' = files
                          /\ ses'[s].pc \in {"open", "refused", "decide", "wipe"}
         /\ Open(s) => /\ Moves(s) /\ ses[s].pc = "open" /\ ses'[s].pc \in {"start", "provenance"}
                       /\ ses'[s].handle = TRUE /\ ses'[s].seq = ses[s].seq
                       /\ files' = [n \in DOMAIN files \cup {ses[s].out} |-> FileOf(n)]
         /\ Put(s) => /\ Moves(s) /\ ses[s].pc \in Appending /\ ses'[s].pc \in Live \cup {"over"}
                      /\ ses'[s].handle = ses[s].handle /\ ses'[s].fresh = FALSE
                      /\ ses'[s].seq = ses[s].seq + 1
                      /\ Written(s, Appended(files[ses[s].out], ses[s].fresh, Header,
                                             Numbered(ses[s].seq, Pending(s))))
         /\ Dies(s) => /\ Moves(s) /\ Still(s) /\ ses[s].pc \in Appending /\ ses'[s].pc = "dead"
                       /\ \E f \in Cuts(FileOf(ses[s].out), ses[s].fresh, Header,
                                        Numbered(ses[s].seq, Pending(s))) : Written(s, f)
  <1>1. ASSUME Started(s)
        PROVE  /\ NewBorn(s) /\ ses[s] = Idle /\ files' = files
               /\ ses'[s].pc \in {"open", "refused", "decide", "wipe"}
    <2>1. Birth(s)
      BY <1>1, StartedAs
    <2>2. ses[s].pc = "idle" /\ SessionTyped(s)
      BY <2>1 DEF Birth, Typed
    <2>3. ses[s] = Idle
      BY <2>2 DEF SessionTyped
    <2>4. QED
      BY <2>1, <2>3 DEF Birth
  <1>2. ASSUME Open(s)
        PROVE  /\ Moves(s) /\ ses[s].pc = "open" /\ ses'[s].pc \in {"start", "provenance"}
               /\ ses'[s].handle = TRUE /\ ses'[s].seq = ses[s].seq
               /\ files' = [n \in DOMAIN files \cup {ses[s].out} |-> FileOf(n)]
    <2>1. ses[s].pc = "open" /\ files' = [n \in DOMAIN files \cup {ses[s].out} |-> FileOf(n)]
      BY <1>2 DEF Open
    <2>2. QED
      BY <1>2, <2>1, OpenFacts
  <1>3. ASSUME Put(s)
        PROVE  /\ Moves(s) /\ ses[s].pc \in Appending /\ ses'[s].pc \in Live \cup {"over"}
               /\ ses'[s].handle = ses[s].handle /\ ses'[s].fresh = FALSE
               /\ ses'[s].seq = ses[s].seq + 1
               /\ Written(s, Appended(files[ses[s].out], ses[s].fresh, Header,
                                      Numbered(ses[s].seq, Pending(s))))
    <2>1. /\ Moves(s) /\ ses'[s].handle = ses[s].handle /\ ses'[s].fresh = FALSE
          /\ ses'[s].seq = ses[s].seq + 1 /\ Followed(s) /\ ses[s].pc \in Appending
      BY <1>3, AfterFacts DEF Put
    <2>2. ses'[s].pc \in Live \cup {"over"}
      BY <2>1 DEF Followed, Begun, Live, Appending, Taking
    <2>3. QED
      BY <1>3, <2>1, <2>2 DEF Put, Written
  <1>4. ASSUME Dies(s)
        PROVE  /\ Moves(s) /\ Still(s) /\ ses[s].pc \in Appending /\ ses'[s].pc = "dead"
               /\ \E f \in Cuts(FileOf(ses[s].out), ses[s].fresh, Header,
                                Numbered(ses[s].seq, Pending(s))) : Written(s, f)
    BY <1>4, PcFacts DEF Dies, Crash, Written
  <1>5. QED
    BY <1>1, <1>2, <1>3, <1>4

LEMMA FiledInit == Init => Filed
  BY DEF Init, Filed, Idle, Live, Taking, Appending, Writers

\* Who has a tape open keeps it open.
LEMMA HandlesStay ==
  ASSUME Typed, Filed, [Next]_vars, NEW u \in Sessions
  PROVE  /\ ses[u].handle => ses'[u].handle /\ ses'[u].out = ses[u].out
         /\ ses'[u].handle => ses'[u].out = ses[u].out /\ (ses[u].handle \/ Open(u))
  <1>1. CASE UNCHANGED vars
    BY <1>1 DEF vars
  <1>2. CASE Next
    <2>1. PICK s \in Sessions : Started(s) \/ Open(s) \/ Put(s) \/ Dies(s) \/ Quiet(s)
      BY <1>2, StepKinds
    <2>2. CASE u # s
      <3>1. Others(s)
        BY <2>1, MoverFacts DEF NewBorn, Moves, Quiet
      <3>2. QED
        BY <2>2, <3>1 DEF Others
    <2>3. CASE u = s
      <3>1. CASE Started(s)
        <4>1. NewBorn(s) /\ ses[s] = Idle
          BY <3>1, MoverFacts
        <4>2. ses'[s].handle = FALSE /\ ses[s].handle = FALSE
          <5>1. Idle.handle = FALSE
            BY DEF Idle
          <5>2. QED
            BY <4>1, <5>1, Zenon DEF NewBorn
        <4>3. QED
          BY <2>3, <4>2
      <3>2. CASE Open(s)
        BY <2>3, <3>2, MoverFacts DEF Moves, Fixed
      <3>3. CASE Put(s) \/ Dies(s) \/ Quiet(s)
        BY <2>3, <3>3, MoverFacts DEF Moves, Fixed, Still, Quiet
      <3>4. QED
        BY <2>1, <3>1, <3>2, <3>3
    <2>4. QED
      BY <2>2, <2>3
  <1>3. QED
    BY <1>1, <1>2

LEMMA FiledNext ==
  ASSUME Typed, Filed, [Next]_vars
  PROVE  Filed'
  <1>1. CASE UNCHANGED vars
    BY <1>1 DEF vars, Filed, Writers
  <1>2. CASE Next
    <2>1. PICK s \in Sessions : Started(s) \/ Open(s) \/ Put(s) \/ Dies(s) \/ Quiet(s)
      BY <1>2, StepKinds
    <2>2. \A u \in Sessions : ses[u].handle => ses'[u].handle /\ ses'[u].out = ses[u].out
      BY HandlesStay
    <2>3. DOMAIN files \subseteq DOMAIN files'
          /\ \A n \in DOMAIN files' : n \in DOMAIN files \/ (Open(s) /\ n = ses[s].out)
      BY <2>1, MoverFacts DEF Written, Quiet
    <2>4. \A n \in DOMAIN files' : Writers(n)' # {}
      <3>1. ASSUME NEW n \in DOMAIN files
            PROVE  Writers(n)' # {}
        <4>1. PICK u \in Sessions : ses[u].handle /\ ses[u].out = n
          BY DEF Filed, Writers
        <4>2. QED
          BY <2>2, <4>1 DEF Writers
      <3>2. ASSUME Open(s), NEW n, n = ses[s].out
            PROVE  Writers(n)' # {}
        BY <3>2, MoverFacts DEF Writers, Moves, Fixed
      <3>3. QED
        BY <2>3, <3>1, <3>2
    <2>5. ASSUME NEW u \in Sessions
          PROVE  /\ ses'[u].handle => ses'[u].out \in DOMAIN files' /\ ses'[u].pc \in Live \cup {"over", "dead"}
                 /\ ses'[u].pc \in Live => ses'[u].handle
      <3>1. CASE u # s
        <4>1. Others(s)
          BY <2>1, MoverFacts DEF NewBorn, Moves, Quiet
        <4>2. QED
          BY <2>3, <3>1, <4>1 DEF Others, Filed
      <3>2. CASE u = s
        <4>1. CASE Started(s)
          BY <3>2, <4>1, MoverFacts DEF NewBorn, Live, Taking, Appending
        <4>2. CASE Open(s)
          BY <3>2, <4>2, MoverFacts DEF Moves, Fixed, Live, Taking, Appending
        <4>3. CASE Put(s)
          BY <2>3, <3>2, <4>3, MoverFacts DEF Moves, Fixed, Filed, Live, Taking
        <4>4. CASE Dies(s)
          BY <2>3, <3>2, <4>4, MoverFacts DEF Moves, Fixed, Filed, Live, Taking, Still, Appending
        <4>5. CASE Quiet(s)
          <5>1. \A p \in Planning \cup Ended : p \notin Live
            BY DEF Planning, Restoring, Ended, Live, Taking, Appending
          <5>2. \A p \in Planning : p \notin Live \cup {"over", "dead"}
            BY DEF Planning, Restoring, Live, Taking, Appending
          <5>3. \A p \in Onward : p \in Live \cup {"dead"}
            BY DEF Onward, Live, Taking, Appending
          <5>4. QED
            BY <2>3, <3>2, <4>5, <5>1, <5>2, <5>3 DEF Quiet, Moves, Fixed, Filed
        <4>6. QED
          BY <2>1, <4>1, <4>2, <4>3, <4>4, <4>5
      <3>3. QED
        BY <3>1, <3>2
    <2>6. QED
      BY <2>4, <2>5 DEF Filed
  <1>3. QED
    BY <1>1, <1>2

-----------------------------------------------------------------------------
(* A tape with one writer *)

\* Such a tape changes by the hand of its writer only, and was new when it was opened.
SoleStep(s) ==
  \/ /\ Open(s) /\ ~ses[s].handle /\ ses'[s].fresh = TRUE
     /\ FileOf(ses[s].out) = <<>> /\ FileOf(ses[s].out)' = <<>>
  \/ /\ Sole(s) /\ (ses'[s] = ses[s] \/ Quiet(s))
     /\ FileOf(ses[s].out)' = FileOf(ses[s].out)
  \/ /\ Sole(s) /\ Put(s)
     /\ FileOf(ses[s].out)' = Appended(FileOf(ses[s].out), ses[s].fresh, Header,
                                       Numbered(ses[s].seq, Pending(s)))
  \/ /\ Sole(s) /\ Dies(s)
     /\ FileOf(ses[s].out)' \in Cuts(FileOf(ses[s].out), ses[s].fresh, Header,
                                     Numbered(ses[s].seq, Pending(s)))

LEMMA SoleFacts ==
  ASSUME NEW s \in Sessions
  PROVE  /\ Sole(s) <=> /\ ses[s].handle
                        /\ \A u \in Sessions : ses[u].handle /\ ses[u].out = ses[s].out => u = s
         /\ Sole(s)' <=> /\ ses'[s].handle
                         /\ \A u \in Sessions : ses'[u].handle /\ ses'[u].out = ses'[s].out => u = s
  BY DEF Sole, Writers

LEMMA SoleSteps ==
  ASSUME Typed, Filed, [Next]_vars, NEW s \in Sessions, Sole(s)'
  PROVE  SoleStep(s) /\ ses'[s].out = ses[s].out
  <1>1. /\ ses'[s].handle
        /\ \A u \in Sessions : ses'[u].handle /\ ses'[u].out = ses'[s].out => u = s
    BY SoleFacts
  <1>2. \A u \in Sessions :
          /\ ses[u].handle => ses'[u].handle /\ ses'[u].out = ses[u].out
          /\ ses'[u].handle => ses'[u].out = ses[u].out /\ (ses[u].handle \/ Open(u))
    BY HandlesStay
  <1>3. ses'[s].out = ses[s].out
    BY <1>1, <1>2
  <1>4. FileOf(ses[s].out)' = IF ses[s].out \in DOMAIN files' THEN files'[ses[s].out] ELSE <<>>
    BY <1>3 DEF FileOf
  <1>5. CASE ~ses[s].handle
    <2>1. Open(s)
      BY <1>1, <1>2, <1>5
    <2>2. Writers(ses[s].out) = {}
      <3>1. SUFFICES ASSUME NEW u \in Sessions, ses[u].handle, ses[u].out = ses[s].out
                     PROVE  FALSE
        BY DEF Writers
      <3>2. u = s
        BY <1>1, <1>2, <1>3, <3>1
      <3>3. QED
        BY <1>5, <3>1, <3>2
    <2>3. ses[s].out \notin DOMAIN files
      BY <2>2 DEF Filed
    <2>4. FileOf(ses[s].out) = <<>>
      BY <2>3 DEF FileOf
    <2>5. files' = [n \in DOMAIN files \cup {ses[s].out} |-> FileOf(n)]
      BY <2>1 DEF Open
    <2>6. FileOf(ses[s].out)' = <<>>
      BY <1>4, <2>4, <2>5
    <2>7. ses'[s].fresh = TRUE
      BY <2>1, <2>4, OpenFacts
    <2>8. QED
      BY <1>3, <1>5, <2>1, <2>4, <2>6, <2>7 DEF SoleStep
  <1>6. CASE ses[s].handle
    <2>1. Sole(s)
      BY <1>1, <1>2, <1>6, SoleFacts
    <2>2. CASE UNCHANGED vars
      <3>1. ses'[s] = ses[s] /\ FileOf(ses[s].out)' = FileOf(ses[s].out)
        BY <2>2 DEF vars, FileOf
      <3>2. QED
        BY <1>3, <2>1, <3>1 DEF SoleStep
    <2>3. CASE Next
      <3>1. PICK m \in Sessions : Started(m) \/ Open(m) \/ Put(m) \/ Dies(m) \/ Quiet(m)
        BY <2>3, StepKinds
      <3>2. CASE m # s
        <4>1. ses'[s] = ses[s]
          BY <3>1, <3>2, MoverFacts DEF NewBorn, Moves, Quiet, Others
        <4>2. FileOf(ses[s].out)' = FileOf(ses[s].out)
          <5>1. CASE Started(m) \/ Quiet(m)
            <6>1. files' = files
              BY <5>1, MoverFacts DEF Quiet
            <6>2. QED
              BY <1>4, <6>1 DEF FileOf
          <5>2. CASE Open(m)
            <6>1. files' = [n \in DOMAIN files \cup {ses[m].out} |-> FileOf(n)]
              BY <5>2, MoverFacts
            <6>2. QED
              BY <1>4, <6>1 DEF FileOf
          <5>3. CASE Put(m) \/ Dies(m)
            <6>1. PICK f : Written(m, f)
              BY <5>3, MoverFacts
            <6>2. ses[m].pc \in Live
              BY <5>3, MoverFacts DEF Live, Taking
            <6>3. ses[m].out # ses[s].out
              BY <1>1, <1>2, <1>3, <3>2, <6>2 DEF Filed
            <6>4. QED
              BY <1>4, <6>1, <6>3 DEF Written, FileOf
          <5>4. QED
            BY <3>1, <5>1, <5>2, <5>3
        <4>3. QED
          BY <1>3, <2>1, <4>1, <4>2 DEF SoleStep
      <3>3. CASE m = s
        <4>1. ~Started(s) /\ ~Open(s)
          <5>1. ASSUME Started(s)
                PROVE  FALSE
            BY <1>1, <5>1, MoverFacts DEF NewBorn
          <5>2. ASSUME Open(s)
                PROVE  FALSE
            <6>1. ses[s].pc = "open"
              BY <5>2, MoverFacts
            <6>2. QED
              BY <1>6, <6>1 DEF Filed, Live, Taking, Appending
          <5>3. QED
            BY <5>1, <5>2
        <4>2. CASE Quiet(s)
          <5>1. FileOf(ses[s].out)' = FileOf(ses[s].out)
            BY <1>4, <4>2 DEF FileOf, Quiet
          <5>2. QED
            BY <1>3, <2>1, <4>2, <5>1 DEF SoleStep
        <4>3. ses[s].out \in DOMAIN files /\ FileOf(ses[s].out) = files[ses[s].out]
          BY <1>6 DEF Filed, FileOf
        <4>4. ASSUME NEW f, Written(s, f)
              PROVE  FileOf(ses[s].out)' = f
          BY <1>4, <4>3, <4>4 DEF Written
        <4>5. CASE Put(s)
          <5>1. Written(s, Appended(FileOf(ses[s].out), ses[s].fresh, Header,
                                    Numbered(ses[s].seq, Pending(s))))
            BY <4>3, <4>5, MoverFacts
          <5>2. QED
            BY <1>3, <2>1, <4>4, <4>5, <5>1 DEF SoleStep
        <4>6. CASE Dies(s)
          <5>1. PICK f \in Cuts(FileOf(ses[s].out), ses[s].fresh, Header,
                                Numbered(ses[s].seq, Pending(s))) : Written(s, f)
            BY <4>6, MoverFacts
          <5>2. QED
            BY <1>3, <2>1, <4>4, <4>6, <5>1 DEF SoleStep
        <4>7. QED
          BY <3>1, <3>3, <4>1, <4>2, <4>5, <4>6
      <3>4. QED
        BY <3>2, <3>3
    <2>4. QED
      BY <2>2, <2>3
  <1>7. QED
    BY <1>5, <1>6

-----------------------------------------------------------------------------
(* What is on it: the header, and the records in the order of their numbers *)

Ends == {"whole", "bare", "torn"}

\* n records; only the end of the last line is open.
Tells(f, n) ==
  /\ Len(f) = n + 1 /\ f[1].text = Header
  /\ \A i \in 1..n : f[i + 1].text.seq = i - 1 /\ f[i].end = "whole"
  /\ f[n + 1].end \in Ends

Kept(s) ==
  LET f == FileOf(ses[s].out)
  IN IF ses[s].fresh THEN f = <<>> /\ ses[s].seq = 0
     ELSE Tells(f, ses[s].seq) /\ f[ses[s].seq + 1].end = "whole"

Left(s) ==
  LET f == FileOf(ses[s].out)
  IN \/ f = <<>> /\ ses[s].seq = 0
     \/ Tells(f, ses[s].seq)
     \/ Tells(f, ses[s].seq + 1)

TapesTell ==
  \A s \in Sessions : Sole(s) =>
    /\ ses[s].pc \in Live \cup {"over"} => Kept(s)
    /\ ses[s].pc = "dead" => Left(s)

LEMMA TellsFirst ==
  ASSUME NEW e \in Ends
  PROVE  /\ Tells(Joined(<<>>, Line(Header, e)), 0)
         /\ Joined(<<>>, Line(Header, e)) \in Seq(Lines)
         /\ Records(Joined(<<>>, Line(Header, e))) = <<>>
         /\ Joined(<<>>, Line(Header, e))[1].end = e
  <1>1. Line(Header, e) \in Lines /\ Line(Header, e).text = Header /\ Line(Header, e).end = e
    BY LinesTyped DEF Line, Ends
  <1>2. Joined(<<>>, Line(Header, e)) = <<Line(Header, e)>>
    BY DEF Joined
  <1> DEFINE l == Line(Header, e)
             g == <<l>>
  <1>3. g \in Seq(Lines) /\ Len(g) = 1 /\ g[1] = l /\ g # <<>>
    BY <1>1
  <1>4. Records(g) = <<>>
    <2> HIDE DEF g
    <2>1. Records(g) \in Seq(Stamped) /\ Len(Records(g)) = 0
      BY <1>3, RecordsTyped
    <2>2. QED
      BY <2>1, EmptySeq
  <1> HIDE DEF g
  <1>5. Tells(g, 0)
    BY <1>1, <1>3 DEF Tells
  <1>6. QED
    BY <1>1, <1>2, <1>3, <1>4, <1>5 DEF g

LEMMA TellsMore ==
  ASSUME NEW f \in Seq(Lines), NEW n \in Nat, Tells(f, n), f[n + 1].end = "whole",
         NEW r \in Stamped, r.seq = n, NEW e \in Ends
  PROVE  /\ Tells(Joined(f, Line(r, e)), n + 1)
         /\ Joined(f, Line(r, e)) \in Seq(Lines)
         /\ Records(Joined(f, Line(r, e))) = Append(Records(f), r)
         /\ Joined(f, Line(r, e))[n + 2].end = e
  <1> DEFINE l == Line(r, e)
             g == Append(f, l)
  <1>1. l \in Lines /\ l.text = r /\ l.end = e
    BY LinesTyped DEF Line, Ends
  <1>2. Len(f) = n + 1 /\ f # <<>>
    BY DEF Tells
  <1>3. Joined(f, l) = g
    BY <1>1, <1>2, JoinedTyped
  <1> HIDE DEF l
  <1>4. g \in Seq(Lines) /\ Len(g) = n + 2 /\ g[n + 2] = l /\ \A i \in 1..n + 1 : g[i] = f[i]
    BY <1>1, <1>2, AppendProperties
  <1> HIDE DEF g
  <1>5. Tells(g, n + 1)
    <2>1. g[1].text = Header
      BY <1>4 DEF Tells
    <2>2. ASSUME NEW i \in 1..n + 1
          PROVE  g[i + 1].text.seq = i - 1 /\ g[i].end = "whole"
      <3>1. CASE i = n + 1
        BY <1>1, <1>4, <3>1
      <3>2. CASE i # n + 1
        <4>1. i \in 1..n /\ i + 1 \in 1..n + 1 /\ i \in 1..n + 1
          BY <3>2
        <4>2. QED
          BY <1>4, <4>1 DEF Tells
      <3>3. QED
        BY <3>1, <3>2
    <2>3. g[n + 2].end \in Ends
      BY <1>1, <1>4
    <2>4. Len(g) = (n + 1) + 1 /\ (n + 1) + 1 = n + 2
      BY <1>4
    <2>5. QED
      BY <2>1, <2>2, <2>3, <2>4 DEF Tells
  <1>6. Records(g) = Append(Records(f), r)
    <2> DEFINE a == Records(f)
               b == Records(g)
    <2>1. /\ a \in Seq(Stamped) /\ Len(a) = n /\ \A i \in 1..n : a[i] = f[i + 1].text
          /\ b \in Seq(Stamped) /\ Len(b) = n + 1 /\ \A i \in 1..n + 1 : b[i] = g[i + 1].text
      <3>1. g # <<>> /\ Len(f) - 1 = n /\ Len(g) - 1 = n + 1
        BY <1>2, <1>4
      <3>2. /\ a \in Seq(Stamped) /\ Len(a) = n
            /\ \A i \in 1..Len(a) : a[i] = f[i + 1].text
        BY <1>2, <3>1, RecordsTyped
      <3>3. /\ b \in Seq(Stamped) /\ Len(b) = n + 1
            /\ \A i \in 1..Len(b) : b[i] = g[i + 1].text
        BY <1>4, <3>1, RecordsTyped
      <3> HIDE DEF a, b
      <3>4. QED
        BY <3>2, <3>3
    <2> HIDE DEF a, b
    <2>2. /\ Append(a, r) \in Seq(Stamped) /\ Len(Append(a, r)) = n + 1
          /\ Append(a, r)[n + 1] = r /\ \A i \in 1..n : Append(a, r)[i] = a[i]
      BY <2>1, AppendProperties
    <2>3. ASSUME NEW i \in 1..n + 1
          PROVE  b[i] = Append(a, r)[i]
      <3>1. CASE i = n + 1
        BY <1>1, <1>4, <2>1, <2>2, <3>1
      <3>2. CASE i # n + 1
        <4>1. i \in 1..n /\ i + 1 \in 1..n + 1
          BY <3>2
        <4>2. QED
          BY <1>4, <2>1, <2>2, <4>1
      <3>3. QED
        BY <3>1, <3>2
    <2>4. b = Append(a, r)
      BY <2>1, <2>2, <2>3, SeqEqual
    <2>5. QED
      BY <2>4 DEF a, b
  <1>7. QED
    BY <1>1, <1>3, <1>4, <1>5, <1>6 DEF l

\* An append to a tape that was kept, whole or cut short.
LEMMA KeptMore ==
  ASSUME Typed, NEW s \in Sessions, Kept(s), ses[s].pc \in Appending,
         NEW r, r = Numbered(ses[s].seq, Pending(s))
  PROVE  /\ \A e \in Ends :
              LET g == Joined(Headed(FileOf(ses[s].out), ses[s].fresh, Header), Line(r, e))
              IN /\ Tells(g, ses[s].seq + 1) /\ g[ses[s].seq + 2].end = e /\ g \in Seq(Lines)
                 /\ Records(g) = Append(Rs(ses[s].out), r)
         /\ Rs(ses[s].out) \in Seq(Stamped) /\ r \in Stamped
  <1> DEFINE f == FileOf(ses[s].out)
             n == ses[s].seq
  <1>1. r \in Stamped /\ r.seq = n /\ n \in Nat /\ f \in Seq(Lines)
    BY PendingTyped, LinesTyped, FilesTyped DEF FileOfTyped, Numbered, Typed, SessionTyped
  <1>2. Records(f) \in Seq(Stamped)
    BY <1>1, RecordsTyped
  <1>3. ASSUME NEW e \in Ends
        PROVE  LET g == Joined(Headed(f, ses[s].fresh, Header), Line(r, e))
               IN /\ Tells(g, n + 1) /\ g[n + 2].end = e /\ g \in Seq(Lines)
                  /\ Records(g) = Append(Records(f), r)
    <2>1. CASE ses[s].fresh
      <3> DEFINE h == Joined(<<>>, Line(Header, "whole"))
      <3>1. f = <<>> /\ n = 0 /\ Headed(f, ses[s].fresh, Header) = h /\ Records(f) = <<>>
        BY <2>1 DEF Kept, Headed, Records
      <3>2. Tells(h, 0) /\ h \in Seq(Lines) /\ Records(h) = <<>> /\ h[0 + 1].end = "whole"
        BY TellsFirst DEF Ends
      <3> HIDE DEF h, f, n
      <3>3. QED
        BY <1>1, <3>1, <3>2, TellsMore
    <2>2. CASE ~ses[s].fresh
      <3>1. Headed(f, ses[s].fresh, Header) = f /\ Tells(f, n) /\ f[n + 1].end = "whole"
        BY <2>2 DEF Kept, Headed
      <3> HIDE DEF f, n
      <3>2. QED
        BY <1>1, <3>1, TellsMore
    <2>3. QED
      BY <2>1, <2>2
  <1>4. QED
    BY <1>1, <1>2, <1>3 DEF Rs

\* What a step leaves of it.
SoleRecords(s) ==
  LET rs == Rs(ses[s].out)
  IN \/ Open(s) /\ ~ses[s].handle /\ rs' = <<>>
     \/ Sole(s) /\ (ses'[s] = ses[s] \/ Quiet(s) \/ Dies(s)) /\ rs' = rs
     \/ Sole(s) /\ (Put(s) \/ Dies(s)) /\ ses[s].pc \in Appending
        /\ Numbered(ses[s].seq, Pending(s)) \in Stamped
        /\ rs' = Append(rs, Numbered(ses[s].seq, Pending(s)))

LEMMA TapesTellStep ==
  ASSUME Typed, Filed, TapesTell, [Next]_vars, NEW s \in Sessions, Sole(s)'
  PROVE  /\ SoleRecords(s) /\ ses'[s].out = ses[s].out
         /\ ses'[s].pc \in Live \cup {"over"} => Kept(s)'
         /\ ses'[s].pc = "dead" => Left(s)'
  <1> DEFINE f == FileOf(ses[s].out)
             n == ses[s].seq
             r == Numbered(n, Pending(s))
  <1>1. SoleStep(s) /\ ses'[s].out = ses[s].out
    BY SoleSteps
  <1>2. Rs(ses[s].out)' = Records(f')
    BY DEF Rs
  <1>3. f \in Seq(Lines) /\ n \in Nat /\ ses[s].fresh \in BOOLEAN /\ Rs(ses[s].out) = Records(f)
    BY FilesTyped DEF FileOfTyped, Typed, SessionTyped, Rs
  <1>4. CASE Open(s) /\ ~ses[s].handle /\ ses'[s].fresh = TRUE /\ f = <<>> /\ f' = <<>>
    <2>1. ses'[s].seq = n /\ ses[s].pc = "open" /\ ses'[s].pc \in {"start", "provenance"}
      BY <1>4, MoverFacts
    <2>2. n = 0
      BY <2>1 DEF Typed, SessionTyped, Planning, Restoring
    <2>3. Rs(ses[s].out)' = <<>>
      BY <1>2, <1>4 DEF Records
    <2>4. Kept(s)' /\ ses'[s].pc # "dead"
      BY <1>4, <2>1, <2>2 DEF Kept
    <2>5. QED
      BY <1>1, <1>4, <2>3, <2>4 DEF SoleRecords
  <1>5. CASE Sole(s) /\ (ses'[s] = ses[s] \/ Quiet(s)) /\ f' = f
    <2>1. ses'[s].seq = n /\ ses'[s].fresh = ses[s].fresh
      BY <1>5 DEF Quiet
    <2>2. Kept(s) => Kept(s)'
      BY <1>5, <2>1 DEF Kept
    <2>3. Left(s) => Left(s)'
      BY <1>5, <2>1 DEF Left
    <2>4. Kept(s) => Left(s)'
      BY <1>5, <2>1 DEF Left, Kept
    <2>5. CASE ses'[s] = ses[s]
      BY <1>1, <1>2, <1>3, <1>5, <2>2, <2>3, <2>5 DEF SoleRecords, TapesTell
    <2>6. CASE Quiet(s)
      <3>1. ses[s].pc \in Live /\ ses'[s].pc \in Live \cup {"dead"}
        <4>1. ses[s].handle
          BY <1>5, SoleFacts
        <4>2. ses[s].pc \in Live \cup {"over", "dead"}
          BY <4>1 DEF Filed
        <4>3. ses[s].pc \notin Planning
          BY <4>2 DEF Planning, Restoring, Live, Taking, Appending
        <4>4. QED
          BY <2>6, <4>3 DEF Quiet, Onward, Live, Taking, Appending
      <3>2. Kept(s)
        BY <1>5, <3>1 DEF TapesTell
      <3>3. QED
        BY <1>1, <1>2, <1>3, <1>5, <2>2, <2>4, <2>6, <3>2 DEF SoleRecords
    <2>7. QED
      BY <1>5, <2>5, <2>6
  <1>6. ASSUME Sole(s), ses[s].pc \in Appending
        PROVE  /\ Kept(s) /\ r \in Stamped
               /\ \A e \in Ends :
                    LET g == Joined(Headed(f, ses[s].fresh, Header), Line(r, e))
                    IN Tells(g, n + 1) /\ g[n + 2].end = e /\ g \in Seq(Lines) /\ Records(g) = Append(Records(f), r)
    <2>1. Kept(s)
      BY <1>6 DEF TapesTell, Live, Taking
    <2> HIDE DEF r
    <2>2. r = Numbered(ses[s].seq, Pending(s))
      BY DEF r
    <2>3. QED
      BY <1>3, <1>6, <2>1, <2>2, KeptMore
  <1>7. CASE Sole(s) /\ Put(s) /\ f' = Appended(f, ses[s].fresh, Header, r)
    <2>1. /\ ses[s].pc \in Appending /\ ses'[s].pc \in Live \cup {"over"} /\ ses'[s].fresh = FALSE
          /\ ses'[s].seq = n + 1
      BY <1>7, MoverFacts
    <2>2. f' = Joined(Headed(f, ses[s].fresh, Header), Line(r, "whole"))
      BY <1>7 DEF Appended
    <2>3. /\ Tells(f', n + 1) /\ f'[n + 2].end = "whole" /\ Records(f') = Append(Records(f), r)
          /\ r \in Stamped
      <3> HIDE DEF f, n, r
      <3>1. QED
        BY <1>6, <1>7, <2>1, <2>2 DEF Ends
    <2>4. Kept(s)'
      BY <1>1, <1>3, <2>1, <2>3 DEF Kept
    <2>5. ses'[s].pc # "dead"
      BY <2>1 DEF Live, Taking, Appending
    <2>6. QED
      BY <1>1, <1>2, <1>3, <1>7, <2>1, <2>3, <2>4, <2>5 DEF SoleRecords
  <1>8. CASE Sole(s) /\ Dies(s) /\ f' \in Cuts(f, ses[s].fresh, Header, r)
    <2>1. /\ ses[s].pc \in Appending /\ ses'[s].pc = "dead" /\ ses'[s].fresh = ses[s].fresh
          /\ ses'[s].seq = n
      BY <1>8, MoverFacts DEF Still
    <2>2. /\ Kept(s) /\ r \in Stamped
          /\ \A e \in Ends :
                    LET g == Joined(Headed(f, ses[s].fresh, Header), Line(r, e))
                    IN Tells(g, n + 1) /\ g[n + 2].end = e /\ g \in Seq(Lines) /\ Records(g) = Append(Records(f), r)
      BY <1>6, <1>8, <2>1
    <2>3. \/ f' = f
          \/ ses[s].fresh /\ \E e \in Ends : f' = Joined(f, Line(Header, e))
          \/ \E e \in Ends : f' = Joined(Headed(f, ses[s].fresh, Header), Line(r, e))
      <3> HIDE DEF f, r
      <3>1. QED
        BY <1>3, <1>8, CutsAre DEF Ends
    <2>4. ses'[s].pc \notin Live \cup {"over"}
      BY <2>1 DEF Live, Taking, Appending
    <2>5. CASE f' = f
      <3>1. Left(s)'
        BY <1>1, <2>1, <2>2, <2>5 DEF Kept, Left
      <3>2. QED
        BY <1>1, <1>2, <1>3, <1>8, <2>4, <2>5, <3>1 DEF SoleRecords
    <2>6. CASE ses[s].fresh /\ \E e \in Ends : f' = Joined(f, Line(Header, e))
      <3>1. f = <<>> /\ n = 0
        BY <2>2, <2>6 DEF Kept
      <3>2. PICK e \in Ends : f' = Joined(<<>>, Line(Header, e))
        BY <2>6, <3>1
      <3>3. Tells(f', 0) /\ Records(f') = <<>> /\ Records(f) = <<>>
        BY <3>1, <3>2, TellsFirst DEF Records
      <3>4. Left(s)'
        BY <1>1, <2>1, <3>1, <3>3 DEF Left
      <3>5. QED
        BY <1>1, <1>2, <1>3, <1>8, <2>4, <3>3, <3>4 DEF SoleRecords
    <2>7. CASE \E e \in Ends : f' = Joined(Headed(f, ses[s].fresh, Header), Line(r, e))
      <3>1. PICK e \in Ends : f' = Joined(Headed(f, ses[s].fresh, Header), Line(r, e))
        BY <2>7
      <3>2. Tells(f', n + 1) /\ Records(f') = Append(Records(f), r) /\ r \in Stamped
        <4> HIDE DEF f, n, r
        <4>1. QED
          BY <2>2, <3>1
      <3>3. Left(s)'
        BY <1>1, <2>1, <3>2 DEF Left
      <3>4. QED
        BY <1>1, <1>2, <1>3, <1>8, <2>1, <2>4, <3>2, <3>3 DEF SoleRecords
    <2>8. QED
      BY <2>3, <2>5, <2>6, <2>7
  <1>9. QED
    BY <1>1, <1>4, <1>5, <1>7, <1>8 DEF SoleStep

LEMMA TapesTellInit == Init => TapesTell
  BY DEF Init, TapesTell, Idle, Sole, Writers

LEMMA TapesTellNext ==
  ASSUME Typed, Filed, TapesTell, [Next]_vars
  PROVE  TapesTell'
  BY TapesTellStep DEF TapesTell

\* A tape that tells is read back, all but a torn line.
LEMMA TellsReads ==
  ASSUME NEW f \in Seq(Lines), NEW n \in Nat, Tells(f, n)
  PROVE  /\ f # <<>> /\ Last(f) = f[n + 1]
         /\ Readable(f) <=> f[n + 1].end # "torn"
         /\ Len(Records(f)) = n /\ \A i \in 1..n : Records(f)[i].seq = i - 1
  <1>1. Len(f) = n + 1 /\ f # <<>> /\ Last(f) = f[n + 1] /\ Len(f) - 1 = n
    BY DEF Tells, Last
  <1>2. Len(Records(f)) = n /\ \A i \in 1..n : Records(f)[i] = f[i + 1].text
    <2>1. Len(Records(f)) = n
      BY <1>1, RecordsTyped
    <2>2. QED
      BY <2>1, RecordsTyped
  <1>3. f[1].text.event.kind = "header"
    BY DEF Tells, Header, HeaderOf, Event
  <1>4. \A i \in 1..n : f[i].end = "whole"
    BY DEF Tells
  <1>5. Readable(f) <=> f[n + 1].end # "torn"
    <2>1. f[n + 1].end \in Ends
      BY DEF Tells
    <2>2. \A i \in 1..n + 1 : i \in 1..n \/ i = n + 1
      OBVIOUS
    <2>3. Parses(f[n + 1]) <=> f[n + 1].end # "torn"
      BY <2>1 DEF Parses, Ends
    <2>4. \A i \in 1..n : Parses(f[i])
      BY <1>4 DEF Parses
    <2>5. QED
      BY <1>1, <1>3, <2>2, <2>3, <2>4 DEF Readable
  <1>6. QED
    BY <1>1, <1>2, <1>5 DEF Tells

LEMMA ReadsBackFrom ==
  ASSUME Typed, Filed, TapesTell
  PROVE  ReadsBack
  <1> SUFFICES ASSUME NEW s \in Sessions, Sole(s)
               PROVE  LET f == FileOf(ses[s].out)  rs == Records(f)
                      IN IF Readable(f)
                           THEN /\ \A i \in 1..Len(rs) : rs[i].seq = i - 1
                                /\ \/ Len(rs) = ses[s].seq
                                   \/ ses[s].pc = "dead" /\ Len(rs) = ses[s].seq + 1
                           ELSE ses[s].pc = "dead" /\ Last(f).end = "torn"
    BY DEF ReadsBack
  <1> DEFINE f == FileOf(ses[s].out)
  <1>1. f \in Seq(Lines) /\ ses[s].seq \in Nat /\ ses[s].seq + 1 \in Nat
    BY FilesTyped DEF FileOfTyped, Typed, SessionTyped
  <1>2. ses[s].pc \in Live \cup {"over"} \/ ses[s].pc = "dead"
    BY SoleFacts DEF Filed
  <1>3. ASSUME f = <<>>
        PROVE  Readable(f) /\ Len(Records(f)) = 0
    BY <1>3 DEF Readable, Records
  <1>4. ASSUME NEW n \in Nat, Tells(f, n)
        PROVE  /\ Readable(f) <=> f[n + 1].end # "torn"
               /\ Last(f) = f[n + 1]
               /\ Len(Records(f)) = n /\ \A i \in 1..n : Records(f)[i].seq = i - 1
    BY <1>1, <1>4, TellsReads
  <1>5. CASE Kept(s)
    <2>1. CASE ses[s].fresh
      BY <1>3, <1>5, <2>1 DEF Kept
    <2>2. CASE ~ses[s].fresh
      BY <1>1, <1>4, <1>5, <2>2 DEF Kept
    <2>3. QED
      BY <2>1, <2>2
  <1>6. CASE ses[s].pc = "dead" /\ Left(s)
    <2>1. CASE f = <<>> /\ ses[s].seq = 0
      BY <1>3, <2>1
    <2>2. CASE Tells(f, ses[s].seq)
      BY <1>1, <1>4, <1>6, <2>2
    <2>3. CASE Tells(f, ses[s].seq + 1)
      BY <1>1, <1>4, <1>6, <2>3
    <2>4. QED
      BY <1>6, <2>1, <2>2, <2>3 DEF Left
  <1>7. QED
    BY <1>2, <1>5, <1>6 DEF TapesTell

-----------------------------------------------------------------------------
(* Names *)

\* Once started, a session keeps what it was given; once ended, it does not move.
LEMMA GivenStays ==
  ASSUME Typed, [Next]_vars, NEW u \in Sessions
  PROVE  /\ ses[u].pc # "idle" =>
              /\ ses'[u].pc # "idle" /\ ses'[u].cmd = ses[u].cmd /\ ses'[u].src = ses[u].src
              /\ ses'[u].out = ses[u].out /\ ses'[u].cache = ses[u].cache
              /\ ses'[u].sound = ses[u].sound /\ ses'[u].restored = ses[u].restored
              /\ ses'[u].beside = ses[u].beside
         /\ ses[u].pc \in Ended => ses'[u] = ses[u]
         /\ ses[u].pc = "idle" => ses'[u] = ses[u] \/ Started(u)
  <1>1. CASE UNCHANGED vars
    BY <1>1 DEF vars
  <1>2. CASE Next
    <2>1. PICK s \in Sessions : Started(s) \/ Open(s) \/ Put(s) \/ Dies(s) \/ Quiet(s)
      BY <1>2, StepKinds
    <2>2. CASE u # s
      <3>1. ses'[u] = ses[u]
        BY <2>1, <2>2, MoverFacts DEF NewBorn, Moves, Quiet, Others
      <3>2. QED
        BY <3>1
    <2>3. CASE u = s
      <3>1. CASE Started(s)
        <4>1. ses[s].pc = "idle"
          BY <3>1, StartedAs DEF Birth
        <4>2. QED
          BY <2>3, <3>1, <4>1 DEF Ended
      <3>2. CASE Open(s) \/ Put(s) \/ Dies(s)
        <4>1. /\ Moves(s) /\ ses[s].pc \in Appending \cup {"open"}
              /\ ses'[s].pc \in Live \cup {"over", "dead"}
          BY <3>2, MoverFacts DEF Live, Taking, Appending
        <4>2. QED
          BY <2>3, <4>1 DEF Moves, Fixed, Live, Taking, Appending, Ended
      <3>3. CASE Quiet(s)
        <4>1. \A p \in Planning \cup Live : p \notin Ended \cup {"idle"}
          BY DEF Planning, Restoring, Live, Taking, Appending, Ended
        <4>2. \A p \in Planning \cup Ended \cup Onward : p # "idle"
          BY DEF Planning, Restoring, Ended, Onward, Taking
        <4>3. QED
          BY <2>3, <3>3, <4>1, <4>2 DEF Quiet, Moves, Fixed
      <3>4. QED
        BY <2>1, <3>1, <3>2, <3>3
    <2>4. QED
      BY <2>2, <2>3
  <1>3. QED
    BY <1>1, <1>2

Ordered == \A s, t \in Sessions : s < t /\ ses[t].pc # "idle" => ses[s].pc # "idle"

NameOf(s) ==
  LET x == ses[s]
  IN CASE x.cmd.kind = "run"  -> x.out = x.cmd.tape \/ \E k \in Nat : x.out = RunName(k)
       [] x.cmd.kind = "fork" -> x.out = ForkName(x.src, x.cmd.at)
       [] OTHER               -> x.out = ResumedName(x.src)

\* A command that made it past its plan; the tape it reads has been there since.
Meant == \A s \in Sessions : ses[s].pc \notin {"idle", "refused"} =>
           NameOf(s) /\ (ses[s].cmd.kind # "run" => ses[s].src \in DOMAIN files)

\* A run that is not the first of its name was told it, or given it beside the first one.
RunsApart ==
  \A s, t \in Sessions :
    /\ s < t /\ ses[t].pc # "idle" /\ ses[s].cmd.kind = "run" /\ ses[t].cmd.kind = "run"
    /\ ses[s].out = ses[t].out
    => \/ s \in ses[t].beside \/ (ses[s].pc \in Ended /\ ~ses[s].handle)
       \/ ses[t].out = ses[t].cmd.tape

Naming == Ordered /\ Meant /\ RunsApart

LEMMA NamingInit == Init => Naming
  BY DEF Init, Naming, Ordered, Meant, RunsApart, Idle

LEMMA NamingNext ==
  ASSUME Typed, Filed, Naming, [Next]_vars
  PROVE  Naming'
  <1>1. \A u \in Sessions :
          /\ ses[u].pc # "idle" =>
              /\ ses'[u].pc # "idle" /\ ses'[u].cmd = ses[u].cmd /\ ses'[u].src = ses[u].src
              /\ ses'[u].out = ses[u].out /\ ses'[u].beside = ses[u].beside
          /\ ses[u].pc \in Ended => ses'[u] = ses[u]
          /\ ses[u].pc = "idle" => ses'[u] = ses[u] \/ Started(u)
    BY GivenStays
  <1>2. DOMAIN files \subseteq DOMAIN files'
    <2>1. CASE UNCHANGED vars
      BY <2>1 DEF vars
    <2>2. CASE Next
      <3>1. PICK s \in Sessions : Started(s) \/ Open(s) \/ Put(s) \/ Dies(s) \/ Quiet(s)
        BY <2>2, StepKinds
      <3>2. QED
        BY <3>1, MoverFacts DEF Written, Quiet
    <2>3. QED
      BY <2>1, <2>2
  <1>3. Ordered'
    <2>1. SUFFICES ASSUME NEW s \in Sessions, NEW t \in Sessions, s < t, ses'[t].pc # "idle"
                   PROVE  ses'[s].pc # "idle"
      BY DEF Ordered
    <2>2. CASE ses[t].pc # "idle"
      BY <1>1, <2>1, <2>2 DEF Naming, Ordered
    <2>3. CASE Started(t)
      <3>1. ses[s].pc # "idle"
        BY <2>1, <2>3, StartedAs DEF Birth
      <3>2. QED
        BY <1>1, <3>1
    <2>4. QED
      BY <1>1, <2>1, <2>2, <2>3
  <1>4. Meant'
    <2>1. SUFFICES ASSUME NEW s \in Sessions, ses'[s].pc \notin {"idle", "refused"}
                   PROVE  NameOf(s)' /\ (ses'[s].cmd.kind # "run" => ses'[s].src \in DOMAIN files')
      BY DEF Meant
    <2>2. CASE ses[s].pc # "idle"
      <3>1. ses[s].pc # "refused"
        BY <1>1, <2>1 DEF Ended
      <3>2. QED
        BY <1>1, <1>2, <2>2, <3>1 DEF Naming, Meant, NameOf
    <2>3. CASE Started(s)
      <3>1. \/ \E c \in Commands[s] : Run(s, c)
            \/ \E c \in Commands[s], src \in DOMAIN files : c.kind = "fork" /\ ForkPlanned(s, c, src)
            \/ \E c \in Commands[s], src \in DOMAIN files : c.kind = "resume" /\ ResumePlanned(s, c, src)
        BY <2>1, <2>3, StartedAs
      <3>2. CASE \E c \in Commands[s] : Run(s, c)
        <4>1. PICK c \in Commands[s] : Run(s, c)
          BY <3>2
        <4>2. ses'[s].cmd = c /\ c.kind = "run" /\ ses'[s].out \in {DefaultTape, c.tape}
          BY <4>1, RunFacts DEF Run, Named
        <4>3. PICK k \in Nat : DefaultTape = RunName(k)
          BY DefaultTapeFree
        <4>4. QED
          BY <4>2, <4>3 DEF NameOf
      <3>3. CASE \E c \in Commands[s], src \in DOMAIN files : c.kind = "fork" /\ ForkPlanned(s, c, src)
        <4>1. PICK c \in Commands[s], src \in DOMAIN files : c.kind = "fork" /\ ForkPlanned(s, c, src)
          BY <3>3
        <4>2. ses'[s].cmd = c /\ ses'[s].src = src /\ ses'[s].out = ForkName(src, c.at)
          BY <4>1 DEF ForkPlanned
        <4>3. QED
          BY <1>2, <4>1, <4>2 DEF NameOf
      <3>4. CASE \E c \in Commands[s], src \in DOMAIN files : c.kind = "resume" /\ ResumePlanned(s, c, src)
        <4>1. PICK c \in Commands[s], src \in DOMAIN files : c.kind = "resume" /\ ResumePlanned(s, c, src)
          BY <3>4
        <4>2. ses'[s].cmd = c /\ ses'[s].src = src /\ ses'[s].out = ResumedName(src)
          BY <4>1 DEF ResumePlanned
        <4>3. QED
          BY <1>2, <4>1, <4>2 DEF NameOf
      <3>5. QED
        BY <3>1, <3>2, <3>3, <3>4
    <2>4. QED
      BY <1>1, <2>1, <2>2, <2>3
  <1>5. RunsApart'
    <2>1. SUFFICES ASSUME NEW s \in Sessions, NEW t \in Sessions, s < t, ses'[t].pc # "idle",
                          ses'[s].cmd.kind = "run", ses'[t].cmd.kind = "run", ses'[s].out = ses'[t].out
                   PROVE  \/ s \in ses'[t].beside \/ (ses'[s].pc \in Ended /\ ~ses'[s].handle)
                          \/ ses'[t].out = ses'[t].cmd.tape
      BY DEF RunsApart
    <2>2. CASE ses[t].pc # "idle"
      <3>1. ses[s].pc # "idle"
        BY <2>1, <2>2 DEF Naming, Ordered
      <3>2. \/ s \in ses[t].beside \/ (ses[s].pc \in Ended /\ ~ses[s].handle)
            \/ ses[t].out = ses[t].cmd.tape
        BY <1>1, <2>1, <2>2, <3>1 DEF Naming, RunsApart
      <3>3. QED
        BY <1>1, <2>2, <3>2
    <2>3. CASE Started(t)
      <3>1. Birth(t)
        BY <2>3, StartedAs
      <3>2. ses[s].pc # "idle" /\ ses'[s] = ses[s] /\ ses'[t].beside = Running
        BY <2>1, <3>1 DEF Birth, NewBorn, Others
      <3>3. CASE s \in Running
        BY <3>2, <3>3
      <3>4. CASE s \notin Running
        <4>1. ses[s].pc \in Ended
          BY <3>2, <3>4 DEF Running
        <4>2. ASSUME ses[s].handle, ses'[t].out # ses'[t].cmd.tape
              PROVE  FALSE
          <5>1. ses[s].out \in DOMAIN files
            BY <4>2 DEF Filed
          <5>2. PICK c \in Commands[t] : Run(t, c)
            <6>1. \A c, src : ForkPlanned(t, c, src) \/ ResumePlanned(t, c, src) => ses'[t].cmd = c
              BY DEF ForkPlanned, ResumePlanned
            <6>2. ses[t].pc = "idle"
              BY <3>1 DEF Birth
            <6>3. \A c, src : Fails(t, c, src) => ses'[t].cmd = c
              BY <6>2, FailsFacts
            <6>4. QED
              BY <2>1, <2>3, <6>1, <6>3, StartedAs
          <5>3. ses'[t].out = DefaultTape /\ DefaultTape \notin DOMAIN files
            BY <4>2, <5>2, RunFacts, DefaultTapeFree DEF Named
          <5>4. QED
            BY <2>1, <3>2, <5>1, <5>3
        <4>3. QED
          BY <3>2, <4>1, <4>2
      <3>5. QED
        BY <3>3, <3>4
    <2>4. QED
      BY <1>1, <2>1, <2>2, <2>3
  <1>6. QED
    BY <1>3, <1>4, <1>5 DEF Naming

\* Names tell kinds and sources apart.
LEMMA NamesTell ==
  /\ \A k : \A src \in Names : \A at : RunName(k) # ForkName(src, at) /\ RunName(k) # ResumedName(src)
  /\ \A a \in Names, b \in Names : \A at : ForkName(a, at) # ResumedName(b)
  /\ \A a \in Names, b \in Names : \A i, j : ForkName(a, i) = ForkName(b, j) => a = b /\ i = j
  /\ \A a \in Names, b \in Names : ResumedName(a) = ResumedName(b) => a = b
  <1> DEFINE T == {"run", "fork", "resumed"} \X Nat
  <1>1. ASSUME NEW a \in Names, NEW e
        PROVE  Len(Append(a, e)) = Len(a) + 1 /\ Append(a, e)[Len(a) + 1] = e
               /\ \A i \in 1..Len(a) : Append(a, e)[i] = a[i]
    BY DEF Names
  <1>2. ASSUME NEW a \in Names, NEW b \in Names, NEW d, NEW e, Append(a, d) = Append(b, e)
        PROVE  a = b /\ d = e
    <2>1. a \in Seq(T) /\ b \in Seq(T)
      BY DEF Names
    <2>2. PICK m \in Nat, n \in Nat : m = Len(a) /\ n = Len(b)
      BY <2>1
    <2>3. m + 1 = n + 1
      BY <1>1, <1>2, <2>2
    <2>4. Len(a) = Len(b)
      BY <2>2, <2>3
    <2>5. \A i \in 1..Len(a) : a[i] = b[i]
      BY <1>1, <1>2, <2>4
    <2>6. a = b
      BY <2>1, <2>4, <2>5, SeqEqual
    <2>7. Append(a, d)[Len(a) + 1] = d /\ Append(b, e)[Len(b) + 1] = e
      BY <1>1
    <2>8. d = e
      BY <1>2, <2>4, <2>7
    <2>9. QED
      BY <2>6, <2>8
  <1>3. ASSUME NEW k, NEW src \in Names, NEW e, RunName(k) = Append(src, e)
        PROVE  e = <<"run", k>>
    <2>1. Len(RunName(k)) = 1 /\ RunName(k)[1] = <<"run", k>>
      BY DEF RunName
    <2>2. PICK m \in Nat : m = Len(src)
      BY DEF Names
    <2>3. m + 1 = 1
      BY <1>1, <1>3, <2>1, <2>2
    <2>4. Append(src, e)[1] = e
      BY <1>1, <2>2, <2>3
    <2>5. QED
      BY <1>3, <2>1, <2>4
  <1>4. \A i, j : <<"run", i>> # <<"fork", j>> /\ <<"run", i>> # <<"resumed", j>> /\ <<"fork", i>> # <<"resumed", j>>
                  /\ (<<"fork", i>> = <<"fork", j>> => i = j)
    OBVIOUS
  <1>5. \A a \in Names, b \in Names : \A at : ForkName(a, at) # ResumedName(b)
    BY <1>2, <1>4 DEF ForkName, ResumedName
  <1>6. \A a \in Names, b \in Names : \A i, j : ForkName(a, i) = ForkName(b, j) => a = b /\ i = j
    BY <1>2, <1>4 DEF ForkName
  <1>7. \A a \in Names, b \in Names : ResumedName(a) = ResumedName(b) => a = b
    BY <1>2 DEF ResumedName
  <1>8. \A k : \A src \in Names : \A at : RunName(k) # ForkName(src, at) /\ RunName(k) # ResumedName(src)
    <2>1. SUFFICES ASSUME NEW k, NEW src \in Names, NEW at
                   PROVE  RunName(k) # ForkName(src, at) /\ RunName(k) # ResumedName(src)
      OBVIOUS
    <2>2. RunName(k) # ForkName(src, at)
      BY <1>3, <1>4 DEF ForkName
    <2>3. RunName(k) # ResumedName(src)
      BY <1>3, <1>4 DEF ResumedName
    <2>4. QED
      BY <2>2, <2>3
  <1>9. QED
    BY <1>5, <1>6, <1>7, <1>8

\* Who alone writes a tape that is read did so before.
LEMMA SourceStays ==
  ASSUME Typed, Filed, Naming, [Next]_vars, NEW s \in Sessions, NEW t \in Sessions,
         ses[s].pc \notin {"idle", "refused"}, ses[s].cmd.kind # "run",
         Sole(t)', ses'[t].out = ses[s].src
  PROVE  Sole(t)
  <1>1. SoleStep(t) /\ ses'[t].out = ses[t].out
    BY SoleSteps
  <1>2. ses[s].src \in DOMAIN files
    BY DEF Naming, Meant
  <1>3. Writers(ses[t].out) # {}
    BY <1>1, <1>2 DEF Filed
  <1>4. ASSUME ~ses[t].handle
        PROVE  FALSE
    <2>1. PICK u \in Sessions : ses[u].handle /\ ses[u].out = ses[t].out
      BY <1>3 DEF Writers
    <2>2. ses'[u].handle /\ ses'[u].out = ses[u].out
      BY <2>1, HandlesStay
    <2>3. u = t
      BY <1>1, <2>1, <2>2, SoleFacts
    <2>4. QED
      BY <1>4, <2>1, <2>3
  <1>5. QED
    BY <1>1, <1>4 DEF SoleStep

-----------------------------------------------------------------------------
(* One run_start to a writer *)

Born(s) == IF ses[s].cmd.kind = "run" THEN 0 ELSE 1

Counted == \A s \in Sessions :
             /\ ses[s].pc = "provenance" => ses[s].seq = 0 /\ ses[s].cmd.kind # "run"
             /\ ses[s].pc = "start" => ses[s].seq = Born(s)

StartsOnce == \A s \in Sessions : Sole(s) =>
                \A i \in 1..Len(Rs(ses[s].out)) :
                  Rs(ses[s].out)[i].event.kind = "run_start" => i = Born(s) + 1

LEMMA CountedInit == Init => Counted /\ StartsOnce
  BY DEF Init, Counted, StartsOnce, Idle, Sole, Writers

LEMMA CountedNext ==
  ASSUME Typed, Filed, Counted, [Next]_vars
  PROVE  Counted'
  <1> SUFFICES ASSUME NEW u \in Sessions
               PROVE  /\ ses'[u].pc = "provenance" => ses'[u].seq = 0 /\ ses'[u].cmd.kind # "run"
                      /\ ses'[u].pc = "start" => ses'[u].seq = IF ses'[u].cmd.kind = "run" THEN 0 ELSE 1
    BY DEF Counted, Born
  <1>1. /\ ses[u].pc = "provenance" => ses[u].seq = 0 /\ ses[u].cmd.kind # "run"
        /\ ses[u].pc = "start" => ses[u].seq = IF ses[u].cmd.kind = "run" THEN 0 ELSE 1
    BY DEF Counted, Born
  <1>2. CASE UNCHANGED vars
    BY <1>1, <1>2 DEF vars
  <1>3. CASE Next
    <2>1. PICK s \in Sessions : Started(s) \/ Open(s) \/ Put(s) \/ Dies(s) \/ Quiet(s)
      BY <1>3, StepKinds
    <2>2. CASE u # s
      <3>1. ses'[u] = ses[u]
        BY <2>1, <2>2, MoverFacts DEF NewBorn, Moves, Quiet, Others
      <3>2. QED
        BY <1>1, <3>1
    <2>3. CASE u = s
      <3>1. CASE Started(s)
        BY <2>3, <3>1, MoverFacts
      <3>2. CASE Open(s)
        <4>1. /\ ses'[s].pc = (IF ses[s].cmd.kind = "run" THEN "start" ELSE "provenance")
              /\ ses'[s].seq = ses[s].seq /\ ses'[s].cmd = ses[s].cmd /\ ses[s].pc = "open"
          BY <3>2, OpenFacts DEF Open, Moves, Fixed
        <4>2. ses[s].seq = 0
          BY <4>1 DEF Typed, SessionTyped, Planning, Restoring
        <4>3. QED
          BY <2>3, <4>1, <4>2
      <3>3. CASE Put(s)
        <4>1. /\ Moves(s) /\ ses'[s].seq = ses[s].seq + 1 /\ Followed(s) /\ ses[s].pc \in Appending
          BY <3>3, AfterFacts DEF Put
        <4>2. ses'[s].pc # "provenance" /\ (ses'[s].pc = "start" => ses[s].pc = "provenance")
          BY <4>1 DEF Followed, Begun, Appending
        <4>3. QED
          BY <1>1, <2>3, <4>1, <4>2 DEF Moves, Fixed
      <3>4. CASE Dies(s)
        BY <2>3, <3>4, MoverFacts
      <3>5. CASE Quiet(s)
        <4>1. ses'[s].pc \in Planning \cup Ended \cup Onward
          BY <3>5 DEF Quiet
        <4>2. QED
          BY <2>3, <4>1 DEF Planning, Restoring, Ended, Onward, Taking
      <3>6. QED
        BY <2>1, <3>1, <3>2, <3>3, <3>4, <3>5
    <2>4. QED
      BY <2>2, <2>3
  <1>4. QED
    BY <1>2, <1>3

\* A writer alone has appended what its tape holds.
LEMMA SoleLength ==
  ASSUME Typed, Filed, TapesTell, NEW s \in Sessions, Sole(s)
  PROVE  /\ Rs(ses[s].out) \in Seq(Stamped) /\ Len(Rs(ses[s].out)) \in Nat
         /\ ses[s].pc \in Live \cup {"over"} => Len(Rs(ses[s].out)) = ses[s].seq
  <1> DEFINE f == FileOf(ses[s].out)
  <1>1. f \in Seq(Lines) /\ ses[s].seq \in Nat /\ Rs(ses[s].out) = Records(f)
    BY FilesTyped DEF FileOfTyped, Typed, SessionTyped, Rs
  <1> HIDE DEF f
  <1>2. Records(f) \in Seq(Stamped) /\ Len(Records(f)) \in Nat
    BY <1>1, RecordsTyped
  <1>3. ASSUME ses[s].pc \in Live \cup {"over"}
        PROVE  Len(Records(f)) = ses[s].seq
    <2>1. Kept(s)
      BY <1>3 DEF TapesTell
    <2>2. CASE ses[s].fresh
      BY <2>1, <2>2 DEF Kept, f, Records
    <2>3. CASE ~ses[s].fresh
      BY <1>1, <2>1, <2>3, TellsReads DEF Kept, f
    <2>4. QED
      BY <2>2, <2>3
  <1>4. QED
    BY <1>1, <1>2, <1>3

LEMMA StartsOnceNext ==
  ASSUME Typed, Filed, TapesTell, Counted, StartsOnce, [Next]_vars
  PROVE  StartsOnce'
  <1> SUFFICES ASSUME NEW s \in Sessions, Sole(s)'
               PROVE  \A i \in 1..Len(Rs(ses[s].out)') :
                        Rs(ses[s].out)'[i].event.kind = "run_start" => i = Born(s)' + 1
    BY DEF StartsOnce
  <1> DEFINE rs == Rs(ses[s].out)
             r  == Numbered(ses[s].seq, Pending(s))
  <1>1. SoleRecords(s)
    BY TapesTellStep
  <1>2. Born(s)' = Born(s)
    <2>1. ses[s].pc # "idle"
      <3>1. ses'[s].handle
        BY SoleFacts
      <3>2. CASE Open(s)
        BY <3>2 DEF Open
      <3>3. CASE ses[s].handle
        BY <3>3 DEF Filed, Live, Taking, Appending
      <3>4. QED
        BY <3>1, <3>2, <3>3, HandlesStay
    <2>2. QED
      BY <2>1, GivenStays DEF Born
  <1>3. CASE rs' = <<>>
    BY <1>3
  <1>4. CASE Sole(s) /\ rs' = rs
    BY <1>2, <1>4 DEF StartsOnce
  <1>5. CASE Sole(s) /\ ses[s].pc \in Appending /\ r \in Stamped /\ rs' = Append(rs, r)
    <2>1. rs \in Seq(Stamped) /\ Len(rs) \in Nat /\ Len(rs) = ses[s].seq
      BY <1>5, SoleLength DEF Live, Taking
    <2>2. r.event.kind = "run_start" => ses[s].pc = "start"
      BY <1>5 DEF Numbered, Pending, Event, Appending
    <2>3. \A i \in 1..Len(rs) : rs[i].event.kind = "run_start" => i = Born(s) + 1
      BY <1>5 DEF StartsOnce
    <2> HIDE DEF rs, r
    <2>4. /\ Len(Append(rs, r)) = Len(rs) + 1 /\ Append(rs, r)[Len(rs) + 1] = r
          /\ \A i \in 1..Len(rs) : Append(rs, r)[i] = rs[i]
      BY <1>5, <2>1, AppendProperties
    <2>5. SUFFICES ASSUME NEW i \in 1..Len(rs) + 1, Append(rs, r)[i].event.kind = "run_start"
                   PROVE  i = Born(s) + 1
      BY <1>2, <1>5, <2>4 DEF rs
    <2>6. CASE i = Len(rs) + 1
      BY <2>1, <2>2, <2>4, <2>5, <2>6 DEF Counted
    <2>7. CASE i # Len(rs) + 1
      <3>1. i \in 1..Len(rs)
        BY <2>1, <2>7
      <3>2. QED
        BY <2>3, <2>4, <2>5, <3>1
    <2>8. QED
      BY <2>6, <2>7
  <1>6. QED
    BY <1>1, <1>3, <1>4, <1>5 DEF SoleRecords

LEMMA TwoRunsFrom ==
  ASSUME Typed, Filed, TapesTell, StartsOnce, Naming
  PROVE  TwoRunsAreNamesakes
  <1> SUFFICES ASSUME NEW n \in DOMAIN files, Cardinality(Places(Rs(n), {"run_start"})) > 1
               PROVE  \E s, t \in Writers(n) :
                        /\ s < t
                        /\ \/ n \in {ses[s].cmd.tape, ses[t].cmd.tape}
                           \/ /\ ses[s].cmd.kind = ses[t].cmd.kind
                              /\ \/ ses[s].cmd.kind = "run" /\ s \in ses[t].beside
                                 \/ /\ ses[s].cmd.kind = "fork" /\ ses[s].src = ses[t].src
                                    /\ ses[s].cmd.at = ses[t].cmd.at
                                 \/ ses[s].cmd.kind = "resume" /\ ses[s].src = ses[t].src
    BY DEF TwoRunsAreNamesakes
  <1>1. PICK a \in Sessions : a \in Writers(n)
    BY DEF Filed, Writers
  <1>2. Writers(n) # {a}
    <2>1. SUFFICES ASSUME Writers(n) = {a}
                   PROVE  FALSE
      OBVIOUS
    <2>2. ses[a].out = n /\ Sole(a)
      BY <1>1, <2>1 DEF Writers, Sole
    <2> DEFINE P == Places(Rs(n), {"run_start"})
    <2>3. P \subseteq {Born(a) + 1}
      BY <2>2 DEF StartsOnce, Places
    <2>4. Cardinality({}) = 0 /\ Cardinality({Born(a) + 1}) = 1
      BY FS_EmptySet, FS_Singleton
    <2>5. P = {} \/ P = {Born(a) + 1}
      BY <2>3
    <2>6. Cardinality(P) \in {0, 1}
      BY <2>4, <2>5
    <2> HIDE DEF P
    <2>7. Cardinality(P) > 1
      BY DEF P
    <2>8. QED
      BY <2>6, <2>7
  <1>3. PICK b \in Sessions : b \in Writers(n) /\ b # a
    BY <1>1, <1>2 DEF Writers
  <1>4. PICK s \in Writers(n), t \in Writers(n) : s < t
    <2>1. a \in Nat /\ b \in Nat
      BY LineageAssumption
    <2>2. a < b \/ b < a
      BY <1>3, <2>1
    <2>3. QED
      BY <1>1, <1>3, <2>2
  <1>5. ASSUME NEW u \in Writers(n)
        PROVE  /\ u \in Sessions /\ ses[u].handle /\ ses[u].out = n
               /\ ses[u].pc \notin {"idle", "refused"} /\ ses[u].src \in Names
               /\ NameOf(u) /\ ses[u].cmd.kind \in {"run", "fork", "resume"}
    <2>1. u \in Sessions /\ ses[u].handle /\ ses[u].out = n
      BY DEF Writers
    <2>2. ses[u].pc \notin {"idle", "refused"}
      BY <2>1 DEF Filed, Live, Taking, Appending
    <2>3. ses[u].src \in Names /\ ses[u].cmd \in Commands[u]
      BY <2>1, <2>2 DEF Typed, SessionTyped
    <2>4. ses[u].cmd.kind \in {"run", "fork", "resume"}
      BY <2>1, <2>3, LineageAssumption
    <2>5. QED
      BY <2>1, <2>2, <2>3, <2>4 DEF Naming, Meant
  <1>6. CASE n \in {ses[s].cmd.tape, ses[t].cmd.tape}
    BY <1>4, <1>6
  <1>7. CASE n \notin {ses[s].cmd.tape, ses[t].cmd.tape}
    <2>1. \A u \in {s, t} : /\ ses[u].src \in Names
                            /\ \/ ses[u].cmd.kind = "run" /\ \E k : n = RunName(k)
                               \/ ses[u].cmd.kind = "fork" /\ n = ForkName(ses[u].src, ses[u].cmd.at)
                               \/ ses[u].cmd.kind = "resume" /\ n = ResumedName(ses[u].src)
      BY <1>5, <1>7 DEF NameOf
    <2>2. /\ ses[s].cmd.kind = ses[t].cmd.kind
          /\ (ses[s].cmd.kind # "run" => ses[s].src = ses[t].src)
          /\ (ses[s].cmd.kind = "fork" => ses[s].cmd.at = ses[t].cmd.at)
      BY <2>1, NamesTell
    <2>3. ASSUME ses[s].cmd.kind = "run"
          PROVE  s \in ses[t].beside
      <3>1. \/ s \in ses[t].beside \/ (ses[s].pc \in Ended /\ ~ses[s].handle)
            \/ ses[t].out = ses[t].cmd.tape
        BY <1>4, <1>5, <2>2, <2>3 DEF Naming, RunsApart
      <3>2. QED
        BY <1>5, <1>7, <3>1
    <2>4. ses[s].cmd.kind \in {"run", "fork", "resume"}
      BY <1>5
    <2>5. QED
      BY <1>4, <2>2, <2>3, <2>4
  <1>8. QED
    BY <1>6, <1>7

-----------------------------------------------------------------------------
(* What a session says and is told *)

LEMMA NextActions ==
  Next => \E s \in Sessions :
            \/ Started(s) \/ Copies(s) \/ Decide(s) \/ Open(s) \/ Put(s)
            \/ Ask(s) \/ Tool(s) \/ Crash(s)
  BY DEF Next, Started, Copies

LEMMA MoveFacts ==
  ASSUME Typed, NEW s \in Sessions
  PROVE  /\ Copies(s) => Moves(s) /\ Still(s) /\ Ways(s)
         /\ Decide(s) => /\ Moves(s) /\ Still(s) /\ ses[s].pc = "decide"
                         /\ ses'[s].pc \in {"refused", "over", "open"}
                         /\ ses'[s].pc = "refused" => ses[s].sound = "simulated"
         /\ Open(s) => /\ Moves(s) /\ ses[s].pc = "open"
                       /\ ses'[s].pc = (IF ses[s].cmd.kind = "run" THEN "start" ELSE "provenance")
                       /\ ses'[s].seq = ses[s].seq /\ ses'[s].step = ses[s].step
                       /\ ses'[s].hist = ses[s].hist /\ ses'[s].resp = ses[s].resp
         /\ Put(s) => /\ Moves(s) /\ ses[s].pc \in Appending /\ Followed(s)
                      /\ ses'[s].seq = ses[s].seq + 1 /\ ses'[s].resp = ses[s].resp
         /\ Ask(s) => /\ Moves(s) /\ ses[s].pc = "ask" /\ ses'[s].pc = "asked"
                      /\ ses'[s].step = ses[s].step /\ ses'[s].hist = ses[s].hist
                      /\ IF ses[s].hist \in DOMAIN ses[s].cache
                           THEN ses'[s].resp = ses[s].cache[ses[s].hist]
                           ELSE \E a \in ses[s].cmd.acts :
                                  ses'[s].resp = Msg("model", <<s, ses[s].step>>, a, {})
         /\ Tool(s) => Moves(s) /\ Still(s) /\ ses[s].pc = "tool" /\ ses'[s].pc = "done"
         /\ Crash(s) => Moves(s) /\ Still(s) /\ s \in Running /\ ses'[s].pc = "dead"
  <1>1. Copies(s) => Moves(s) /\ Still(s) /\ Ways(s)
    BY CopiesFacts
  <1>2. Decide(s) => /\ Moves(s) /\ Still(s) /\ ses[s].pc = "decide"
                     /\ ses'[s].pc \in {"refused", "over", "open"}
                     /\ ses'[s].pc = "refused" => ses[s].sound = "simulated"
    BY DecideFacts DEF Decide
  <1>3. Open(s) => /\ Moves(s) /\ ses[s].pc = "open"
                   /\ ses'[s].pc = (IF ses[s].cmd.kind = "run" THEN "start" ELSE "provenance")
                   /\ ses'[s].seq = ses[s].seq /\ ses'[s].step = ses[s].step
                   /\ ses'[s].hist = ses[s].hist /\ ses'[s].resp = ses[s].resp
    BY OpenFacts DEF Open
  <1>4. Put(s) => /\ Moves(s) /\ ses[s].pc \in Appending /\ Followed(s)
                  /\ ses'[s].seq = ses[s].seq + 1 /\ ses'[s].resp = ses[s].resp
    BY AfterFacts DEF Put
  <1>5. Ask(s) => /\ Moves(s) /\ ses[s].pc = "ask" /\ ses'[s].pc = "asked"
                  /\ ses'[s].step = ses[s].step /\ ses'[s].hist = ses[s].hist
                  /\ IF ses[s].hist \in DOMAIN ses[s].cache
                       THEN ses'[s].resp = ses[s].cache[ses[s].hist]
                       ELSE \E a \in ses[s].cmd.acts :
                              ses'[s].resp = Msg("model", <<s, ses[s].step>>, a, {})
    BY AskFacts DEF Ask
  <1>6. Tool(s) => Moves(s) /\ Still(s) /\ ses[s].pc = "tool" /\ ses'[s].pc = "done"
    BY PcFacts DEF Tool
  <1>7. Crash(s) => Moves(s) /\ Still(s) /\ s \in Running /\ ses'[s].pc = "dead"
    BY PcFacts DEF Crash
  <1>8. QED
    BY <1>1, <1>2, <1>3, <1>4, <1>5, <1>6, <1>7

\* The answer a tool gives shows the workspace if it was read, and nothing else.
AnswerTo(r, m) == /\ m.who = "tools" /\ m.id = r.id /\ m.act = r.act
                  /\ (r.act # "read" => m.saw = {})
Answered1(h, r) == \E g \in Histories, m \in Messages : h = Append(g, m) /\ AnswerTo(r, m)

Asking == {"asked", "tool", "done", "results"}

Speaks(s) ==
  LET x == ses[s]
  IN /\ (x.cmd.kind = "run" => x.cache = NoCache)
     /\ (x.cmd.kind = "run" /\ x.pc \in {"open", "start", "log"} => x.hist = <<Prompt(s), Task(s)>>)
     /\ (x.cmd.kind = "run" => x.pc \notin Restoring \cup {"decide", "provenance"})
     /\ (x.cmd.kind = "run" /\ x.pc \in Asking => x.resp.who = "model")
     /\ (x.pc = "results" => Answered1(x.hist, x.resp))
     /\ (x.pc \in Restoring \cup Taking \cup {"snapped"} => x.cmd.snaps)
     /\ (x.pc \in Early \cup {"log"} => x.step = 0)
     /\ (x.sound = "simulated" \/ x.pc = "refused" => x.restored = None)
     /\ (x.pc \in Restoring => x.restored # None)

Spoken == \A s \in Sessions : ses[s].pc # "idle" => Speaks(s)

LEMMA SpokenInit == Init => Spoken
  BY DEF Init, Spoken, Idle

\* The response of one step is answered before the next.
LEMMA AnswerIs ==
  ASSUME Typed, NEW s \in Sessions
  PROVE  Answer(s) \in Messages /\ AnswerTo(ses[s].resp, Answer(s))
  <1>1. ses[s].resp \in Messages /\ Holds(Home) \subseteq Ids
    BY TreesAre DEF Typed, SessionTyped
  <1>2. ses[s].resp.id \in Ids /\ ses[s].resp.act \in Acts
    BY <1>1 DEF Messages
  <1>3. "tools" \in Speakers /\ (IF ses[s].resp.act = "read" THEN Holds(Home) ELSE {}) \in SUBSET Ids
    BY <1>1 DEF Speakers
  <1>4. Answer(s) \in Messages
    BY <1>2, <1>3, MsgTyped DEF Answer
  <1>5. QED
    BY <1>4 DEF Answer, AnswerTo, Msg

LEMMA BirthSpeaks ==
  ASSUME Typed, Filed, NEW s \in Sessions, Started(s)
  PROVE  Speaks(s)'
  <1>1. ses'[s].step = 0 /\ ses[s].pc = "idle"
    BY StartedAs DEF Birth, NewBorn
  <1>2. ASSUME NEW c \in Commands[s], Run(s, c)
        PROVE  Speaks(s)'
    <2>1. /\ ses'[s].pc = "open" /\ ses'[s].hist = <<Prompt(s), Task(s)>>
          /\ ses'[s].cache = NoCache /\ ses'[s].restored = None /\ ses'[s].sound = "faithful"
      BY <1>2, RunFacts
    <2>2. QED
      BY <1>1, <2>1 DEF Speaks, Asking, Restoring, Taking
  <1>3. ASSUME NEW c \in Commands[s], NEW src \in DOMAIN files, c.kind = "fork", ForkPlanned(s, c, src)
        PROVE  Speaks(s)'
    <2>1. /\ ses'[s].cmd = c /\ ses'[s].pc = (IF ses'[s].restored = None THEN "decide" ELSE "wipe")
          /\ ses'[s].restored # None => c.snaps
          /\ ses'[s].sound = "simulated" => ses'[s].restored = None
      BY <1>3 DEF ForkPlanned, Soundness
    <2>2. QED
      BY <1>1, <1>3, <2>1 DEF Speaks, Asking, Restoring, Taking
  <1>4. ASSUME NEW c \in Commands[s], NEW src \in DOMAIN files, c.kind = "resume", ResumePlanned(s, c, src)
        PROVE  Speaks(s)'
    <2>1. /\ ses'[s].cmd = c /\ ses'[s].pc = (IF ses'[s].restored = None THEN "decide" ELSE "wipe")
          /\ ses'[s].restored # None => c.snaps
          /\ ses'[s].sound = "faithful"
      BY <1>4 DEF ResumePlanned
    <2>2. QED
      BY <1>1, <1>4, <2>1 DEF Speaks, Asking, Restoring, Taking
  <1>5. ASSUME NEW c \in Commands[s], NEW src \in DOMAIN files, c.kind # "run", Fails(s, c, src)
        PROVE  Speaks(s)'
    <2>1. /\ ses'[s].pc = "refused" /\ ses'[s].cmd = c
          /\ ses'[s].restored = None /\ ses'[s].sound = "faithful"
      BY <1>1, <1>5, FailsFacts
    <2>2. QED
      BY <1>1, <1>5, <2>1 DEF Speaks, Asking, Restoring, Taking
  <1>6. QED
    BY <1>2, <1>3, <1>4, <1>5, StartedAs

LEMMA SpokenNext ==
  ASSUME Typed, Filed, Spoken, [Next]_vars
  PROVE  Spoken'
  <1> SUFFICES ASSUME NEW u \in Sessions, ses'[u].pc # "idle"
               PROVE  Speaks(u)'
    BY DEF Spoken
  <1>1. ses[u].pc # "idle" => Speaks(u)
    BY DEF Spoken
  <1>2. ASSUME ses'[u] = ses[u]
        PROVE  Speaks(u)'
    BY <1>1, <1>2 DEF Speaks
  <1>3. CASE UNCHANGED vars
    BY <1>2, <1>3 DEF vars
  <1>4. CASE Next
    <2>1. PICK s \in Sessions :
            \/ Started(s) \/ Copies(s) \/ Decide(s) \/ Open(s) \/ Put(s)
            \/ Ask(s) \/ Tool(s) \/ Crash(s)
      BY <1>4, NextActions
    <2>2. CASE u # s
      <3>1. Others(s)
        BY <2>1, MoveFacts, StartedAs DEF Birth, NewBorn, Moves
      <3>2. QED
        BY <1>2, <2>2, <3>1 DEF Others
    <2>3. CASE u = s
      <3>1. CASE Started(s)
        BY <2>3, <3>1, BirthSpeaks
      <3>2. ASSUME Moves(s), ses[s].pc # "idle"
            PROVE  /\ Speaks(s) /\ ses'[s].cmd = ses[s].cmd /\ ses'[s].cache = ses[s].cache
                   /\ ses'[s].sound = ses[s].sound /\ ses'[s].restored = ses[s].restored
        BY <1>1, <2>3, <3>2 DEF Moves, Fixed
      <3>3. CASE Copies(s)
        <4>1. Moves(s) /\ Still(s) /\ Ways(s)
          BY <3>3, MoveFacts
        <4>2. ses[s].pc # "idle"
          BY <4>1 DEF Ways, Restoring, Taking
        <4>3. CASE ses[s].pc \in Restoring
          BY <2>3, <3>2, <4>1, <4>2, <4>3 DEF Ways, Speaks, Still, Asking, Early, Planning, Restoring, Taking
        <4>4. CASE ses[s].pc \in Taking
          BY <2>3, <3>2, <4>1, <4>2, <4>4 DEF Ways, Speaks, Still, Asking, Early, Planning, Restoring, Taking
        <4>5. QED
          BY <4>1, <4>3, <4>4 DEF Ways
      <3>5. CASE Decide(s)
        BY <2>3, <3>2, <3>5, MoveFacts DEF Speaks, Still, Asking, Early, Planning, Restoring, Taking
      <3>6. CASE Open(s)
        BY <2>3, <3>2, <3>6, MoveFacts DEF Speaks, Asking, Early, Planning, Restoring, Taking
      <3>7. CASE Put(s)
        <4>1. /\ Moves(s) /\ ses[s].pc \in Appending /\ Followed(s) /\ ses'[s].resp = ses[s].resp
          BY <3>7, MoveFacts
        <4>2. ses[s].pc # "idle"
          BY <4>1 DEF Appending
        <4>3. /\ Speaks(s) /\ ses'[s].cmd = ses[s].cmd /\ ses'[s].cache = ses[s].cache
              /\ ses'[s].sound = ses[s].sound /\ ses'[s].restored = ses[s].restored
          BY <3>2, <4>1, <4>2
        <4>4. ses'[s].pc = "results" => Answered1(ses'[s].hist, ses'[s].resp)
          <5>1. SUFFICES ASSUME ses'[s].pc = "results"
                         PROVE  Answered1(ses'[s].hist, ses'[s].resp)
            OBVIOUS
          <5>2. ses[s].pc = "done"
            BY <4>1, <5>1 DEF Followed, Begun, Appending
          <5>3. ses'[s].hist = Append(ses[s].hist, Answer(s)) /\ ses[s].hist \in Histories
            BY <4>1, <5>2 DEF Followed, Typed, SessionTyped
          <5>4. QED
            BY <4>1, <5>3, AnswerIs DEF Answered1
        <4>5. ses'[s].pc \in Restoring \cup Taking \cup {"snapped"} => ses[s].cmd.snaps
          BY <4>1 DEF Followed, Begun, Appending, Restoring, Taking
        <4>6. ses'[s].pc \in Early \cup {"log"} => /\ ses[s].pc \in Early \cup {"log"}
                                                   /\ ses'[s].step = ses[s].step
          BY <4>1 DEF Followed, Begun, Appending, Early, Planning, Restoring, Carried
        <4>7. /\ ses'[s].pc \in Asking => ses[s].pc \in Asking
              /\ ses'[s].pc \notin Restoring \cup {"decide", "provenance", "refused"}
          BY <4>1 DEF Followed, Begun, Appending, Asking, Restoring
        <4>8. ses[s].cmd.kind = "run" /\ ses'[s].pc \in {"open", "start", "log"} =>
                ses'[s].hist = <<Prompt(s), Task(s)>>
          BY <4>1, <4>3 DEF Followed, Begun, Appending, Carried, Speaks
        <4>9. QED
          BY <2>3, <4>1, <4>3, <4>4, <4>5, <4>6, <4>7, <4>8 DEF Speaks
      <3>10. CASE Ask(s)
        <4>1. /\ Moves(s) /\ ses[s].pc = "ask" /\ ses'[s].pc = "asked"
              /\ IF ses[s].hist \in DOMAIN ses[s].cache
                   THEN ses'[s].resp = ses[s].cache[ses[s].hist]
                   ELSE \E a \in ses[s].cmd.acts :
                          ses'[s].resp = Msg("model", <<s, ses[s].step>>, a, {})
          BY <3>10, MoveFacts
        <4>2. ses[s].cmd.kind = "run" => ses'[s].resp.who = "model"
          <5>1. DOMAIN NoCache = {}
            BY DEF NoCache
          <5>2. \A a : Msg("model", <<s, ses[s].step>>, a, {}).who = "model"
            BY DEF Msg
          <5>3. QED
            BY <3>2, <4>1, <5>1, <5>2 DEF Speaks
        <4>3. QED
          BY <2>3, <3>2, <4>1, <4>2 DEF Speaks, Asking, Early, Planning, Restoring, Taking
      <3>11. CASE Tool(s)
        BY <2>3, <3>2, <3>11, MoveFacts DEF Speaks, Still, Asking, Early, Planning, Restoring, Taking
      <3>12. CASE Crash(s)
        BY <2>3, <3>2, <3>12, MoveFacts DEF Speaks, Still, Asking, Early, Planning, Restoring, Taking, Running
      <3>13. QED
        BY <2>1, <3>1, <3>3, <3>5, <3>6, <3>7, <3>10, <3>11, <3>12
    <2>4. QED
      BY <2>2, <2>3
  <1>5. QED
    BY <1>3, <1>4

-----------------------------------------------------------------------------
(* A record more on a tape *)

\* The steps at or before a position.
Upto(rs, i) == Cardinality({j \in Steps(rs) : j <= i})

Longer(rt, rs, r) == rs \in Seq(Stamped) /\ r \in Stamped /\ rt = Append(rs, r)

LEMMA RecordMore ==
  ASSUME NEW rs, NEW r, NEW rt, Longer(rt, rs, r),
         NEW n, n = Len(rs)
  PROVE  /\ rs \in Seq(Stamped) /\ r \in Stamped /\ n \in Nat
         /\ rt \in Seq(Stamped) /\ Len(rt) = n + 1 /\ rt[n + 1] = r
         /\ \A i \in 1..n : rt[i] = rs[i]
  BY AppendProperties DEF Longer

LEMMA WritesMore ==
  ASSUME NEW rs, NEW r, NEW rt, Longer(rt, rs, r),
         NEW n, n = Len(rs)
  PROVE  /\ Writes(rs) \subseteq 1..n
         /\ Writes(rt) = Writes(rs) \cup (IF r.event.kind = "tool_result" /\ r.event.msg.act = "write"
                                            THEN {n + 1} ELSE {})
  <1>1. /\ n \in Nat /\ Len(rt) = n + 1 /\ rt[n + 1] = r /\ \A i \in 1..n : rt[i] = rs[i]
    BY RecordMore
  <1>2. \A i : i \in 1..n + 1 <=> i \in 1..n \/ i = n + 1
    OBVIOUS
  <1>3. QED
    BY <1>1, <1>2 DEF Places, Writes

LEMMA UptoMore ==
  ASSUME NEW rs, NEW r, NEW rt, Longer(rt, rs, r),
         NEW n, n = Len(rs)
  PROVE  /\ Cardinality(Steps(rs)) \in Nat
         /\ \A i \in 1..n : Upto(rt, i) = Upto(rs, i) /\ Upto(rs, i) <= Cardinality(Steps(rs))
         /\ Upto(rt, n + 1) = Cardinality(Steps(rt))
         /\ Cardinality(Steps(rt)) = IF r.event.kind = "step" THEN Cardinality(Steps(rs)) + 1
                                     ELSE Cardinality(Steps(rs))
  <1>0. rs \in Seq(Stamped) /\ n \in Nat
    BY RecordMore
  <1>1. Steps(rt) = Steps(rs) \cup (IF r.event.kind = "step" THEN {n + 1} ELSE {})
    <2>1. /\ n \in Nat /\ Len(rt) = n + 1 /\ rt[n + 1] = r /\ \A i \in 1..n : rt[i] = rs[i]
      BY RecordMore
    <2>2. \A i : i \in 1..n + 1 <=> i \in 1..n \/ i = n + 1
      OBVIOUS
    <2>3. QED
      BY <2>1, <2>2 DEF Steps, Places
  <1>2. Steps(rs) \subseteq 1..n /\ IsFiniteSet(Steps(rs)) /\ Cardinality(Steps(rs)) \in Nat
    BY <1>0, PlacesTyped DEF Steps
  <1>3. n + 1 \notin Steps(rs)
    BY <1>0, <1>2
  <1>4. ASSUME NEW i \in 1..n
        PROVE  Upto(rt, i) = Upto(rs, i) /\ Upto(rs, i) <= Cardinality(Steps(rs))
    <2>1. {j \in Steps(rt) : j <= i} = {j \in Steps(rs) : j <= i}
      BY <1>0, <1>1
    <2>2. {j \in Steps(rs) : j <= i} \in SUBSET Steps(rs)
      OBVIOUS
    <2>3. Cardinality({j \in Steps(rs) : j <= i}) <= Cardinality(Steps(rs))
      BY <1>2, <2>2, FS_Subset
    <2>4. QED
      BY <2>1, <2>3 DEF Upto
  <1>5. Upto(rt, n + 1) = Cardinality(Steps(rt))
    <2>1. {j \in Steps(rt) : j <= n + 1} = Steps(rt)
      BY <1>0, <1>1, <1>2
    <2>2. QED
      BY <2>1 DEF Upto
  <1>6. Cardinality(Steps(rt)) = IF r.event.kind = "step" THEN Cardinality(Steps(rs)) + 1
                                 ELSE Cardinality(Steps(rs))
    <2>1. Cardinality(Steps(rs) \cup {n + 1}) = Cardinality(Steps(rs)) + 1
      BY <1>2, <1>3, FS_AddElement
    <2>2. QED
      BY <1>1, <2>1
  <1>7. QED
    BY <1>2, <1>4, <1>5, <1>6

\* What is told is what some record at these places says.
LEMMA ToldSays ==
  ASSUME NEW rs \in Seq(Stamped), NEW places, NEW i \in 1..Len(Told(rs, places))
  PROVE  \E j \in 1..Len(rs) : j \in places /\ Told(rs, places)[i] = rs[j].event.msg
  <1> DEFINE ms == [k \in 1..Len(rs) |-> rs[k].event.msg]
             U  == {rs[j].event.msg : j \in {k \in 1..Len(rs) : k \in places}}
  <1>1. Len(rs) \in Nat
    OBVIOUS
  <1>2. \A k \in 1..Len(rs) : rs[k].event.msg \in Messages
    BY StampedFacts
  <1>3. ms \in Seq(Messages) /\ Len(ms) = Len(rs)
    BY <1>1, <1>2
  <1>4. \A k \in 1..Len(ms) : k \in places => ms[k] \in U
    BY <1>3
  <1> HIDE DEF ms, U
  <1>5. Tape!Only(ms, places) \in Seq(U)
    BY <1>1, <1>3, <1>4, OnlyTyped
  <1>6. Told(rs, places) \in Seq(U)
    BY <1>5 DEF Told, ms
  <1>7. Told(rs, places)[i] \in U
    BY <1>6
  <1>8. QED
    BY <1>7 DEF U

-----------------------------------------------------------------------------
(* The steps on a tape with one writer *)

Paced == \A s \in Sessions : Sole(s) /\ ses[s].pc \in Live \ {"end"} =>
           Cardinality(Steps(Rs(ses[s].out)))
             = IF ses[s].pc \in {"tool", "done", "results"} THEN ses[s].step + 1 ELSE ses[s].step

LEMMA PacedInit == Init => Paced
  BY DEF Init, Paced, Idle, Sole, Writers

\* The kind of the record that is due.
LEMMA PendingKind ==
  ASSUME NEW s \in Sessions, ses[s].pc \in Appending
  PROVE  Pending(s).kind = CASE ses[s].pc = "provenance" -> (IF ses[s].cmd.kind = "fork" THEN "fork"
                                                             ELSE "resumed_from")
                             [] ses[s].pc = "start" -> "run_start"
                             [] ses[s].pc \in {"log", "results"} -> "message"
                             [] ses[s].pc = "snapped" -> "snapshot"
                             [] ses[s].pc = "asked" -> "step"
                             [] ses[s].pc = "done" -> "tool_result"
                             [] OTHER -> "run_end"
  BY DEF Pending, Event, Appending

LEMMA EmptySteps == Steps(<<>>) = {} /\ Cardinality(Steps(<<>>)) = 0
  BY FS_EmptySet DEF Steps, Places

LEMMA PacedNext ==
  ASSUME Typed, Filed, TapesTell, Spoken, Paced, [Next]_vars
  PROVE  Paced'
  <1> SUFFICES ASSUME NEW s \in Sessions, Sole(s)', ses'[s].pc \in Live \ {"end"}
               PROVE  Cardinality(Steps(Rs(ses[s].out)'))
                        = IF ses'[s].pc \in {"tool", "done", "results"} THEN ses'[s].step + 1
                          ELSE ses'[s].step
    BY DEF Paced, Steps, Places
  <1> DEFINE rs == Rs(ses[s].out)
             r  == Numbered(ses[s].seq, Pending(s))
             want(p, n) == IF p \in {"tool", "done", "results"} THEN n + 1 ELSE n
  <1>1. SoleRecords(s)
    BY TapesTellStep
  <1>2. CASE Open(s) /\ rs' = <<>>
    <2>1. /\ ses[s].pc = "open" /\ ses'[s].step = ses[s].step
          /\ ses'[s].pc = (IF ses[s].cmd.kind = "run" THEN "start" ELSE "provenance")
      BY <1>2, MoveFacts
    <2>2. ses[s].step = 0
      BY <2>1 DEF Spoken, Speaks, Early, Planning, Restoring
    <2>3. QED
      BY <1>2, <2>1, <2>2, EmptySteps
  <1>3. ses[s].step \in Nat
    BY DEF Typed, SessionTyped
  <1>4. CASE Sole(s) /\ (ses'[s] = ses[s] \/ Quiet(s) \/ Dies(s)) /\ rs' = rs
    <2>1. CASE ses'[s] = ses[s]
      BY <1>4, <2>1 DEF Paced
    <2>2. CASE Quiet(s)
      <3>1. ses[s].pc \notin Planning
        <4>1. ses[s].pc \in Live \cup {"over", "dead"}
          BY <1>4, SoleFacts DEF Filed
        <4>2. QED
          BY <4>1 DEF Live, Taking, Appending, Planning, Restoring
      <3>2. /\ ses'[s].step = ses[s].step /\ ses[s].pc \in Live \ {"end"}
            /\ ses'[s].pc \in {"tool", "done", "results"} <=> ses[s].pc \in {"tool", "done", "results"}
        <4>1. /\ ses'[s].step = ses[s].step /\ ses[s].pc \in Live \ Appending
          BY <2>2, <3>1 DEF Quiet
        <4>2. \/ ses[s].pc \in Taking /\ ses'[s].pc \in Taking \cup {"snapped"}
              \/ ses[s].pc = "ask" /\ ses'[s].pc = "asked"
              \/ ses[s].pc = "tool" /\ ses'[s].pc = "done"
          BY <2>2, <4>1, MoveFacts DEF Quiet, Silent, Ways, Live, Taking, Restoring, Appending
        <4>3. ses[s].pc \in Live \ {"end"}
          BY <4>1 DEF Appending
        <4>4. QED
          BY <4>1, <4>2, <4>3 DEF Taking
      <3>3. QED
        BY <1>4, <3>2 DEF Paced
    <2>3. CASE Dies(s)
      BY <2>3, MoverFacts DEF Live, Taking, Appending
    <2>4. QED
      BY <1>4, <2>1, <2>2, <2>3
  <1>5. CASE Sole(s) /\ (Put(s) \/ Dies(s)) /\ ses[s].pc \in Appending /\ r \in Stamped /\ rs' = Append(rs, r)
    <2>1. Put(s)
      BY <1>5, MoverFacts DEF Live, Taking, Appending
    <2>2. Followed(s) /\ ses[s].pc \in Appending
      BY <2>1, MoveFacts
    <2>3. rs \in Seq(Stamped) /\ Len(rs) \in Nat
      BY <1>5, SoleLength
    <2>4. r.event.kind = Pending(s).kind
      BY DEF Numbered
    <2>5. Cardinality(Steps(rs')) = IF ses[s].pc = "asked" THEN Cardinality(Steps(rs)) + 1
                                    ELSE Cardinality(Steps(rs))
      <3>1. r.event.kind = "step" <=> ses[s].pc = "asked"
        BY <1>5, <2>4, PendingKind DEF Appending
      <3>2. Longer(rs', rs, r)
        BY <1>5, <2>3 DEF Longer
      <3> HIDE DEF rs, r
      <3>3. QED
        BY <3>1, <3>2, UptoMore
    <2>6. ses[s].pc # "end"
      BY <2>2 DEF Followed, Live, Taking, Appending
    <2>7. Cardinality(Steps(rs)) = want(ses[s].pc, ses[s].step)
      BY <1>5, <2>6 DEF Paced, Live, Taking
    <2>8. want(ses'[s].pc, ses'[s].step) = IF ses[s].pc = "asked" THEN want(ses[s].pc, ses[s].step) + 1
                                           ELSE want(ses[s].pc, ses[s].step)
      BY <1>3, <2>2, <2>6 DEF Followed, Begun, Carried, Appending
    <2>9. QED
      BY <2>5, <2>7, <2>8
  <1>6. QED
    BY <1>1, <1>2, <1>4, <1>5 DEF SoleRecords
(* What a tape of a run says of its writes *)

\* An answer of a write follows the write; a step is the model's.
Accounts(rs) ==
  \A i \in 1..Len(rs) :
    LET e == rs[i].event
    IN /\ e.kind = "message" /\ e.msg.who = "tools" /\ e.msg.act = "write" =>
            \E j \in Writes(rs) : rs[j].event.step < Upto(rs, i)
       /\ e.kind = "step" => e.msg.who = "model"

\* So does the answer that is due.
Accounted ==
  \A s \in Sessions : Sole(s) /\ ses[s].cmd.kind = "run" =>
    /\ Accounts(Rs(ses[s].out))
    /\ ses[s].pc = "results" /\ ses[s].resp.act = "write" =>
         \E j \in Writes(Rs(ses[s].out)) : Rs(ses[s].out)[j].event.step = ses[s].step

LEMMA AccountedInit == Init => Accounted
  BY DEF Init, Accounted, Idle, Sole, Writers

LEMMA HumansSay ==
  \A s, m : m \in {Prompt(s), Task(s), Nudge(s)} => m.who # "tools" /\ m.who # "model"
  <1>1. \A s : /\ Prompt(s).who = "system" /\ Task(s).who = "task" /\ Nudge(s).who = "nudge"
    BY DEF Prompt, Task, Nudge, Msg
  <1>2. QED
    BY <1>1

\* One record more, if it is no unfounded answer.
LEMMA AccountsMore ==
  ASSUME NEW rs, NEW r, NEW rt, Longer(rt, rs, r), Accounts(rs),
         r.event.kind = "message" /\ r.event.msg.who = "tools" /\ r.event.msg.act = "write" =>
           \E j \in Writes(rs) : rs[j].event.step < Cardinality(Steps(rs)),
         r.event.kind = "step" => r.event.msg.who = "model"
  PROVE  Accounts(rt)
  <1>1. PICK n : n = Len(rs)
    OBVIOUS
  <1>2. n \in Nat /\ Len(rt) = n + 1 /\ rt[n + 1] = r /\ \A i \in 1..n : rt[i] = rs[i]
    BY <1>1, RecordMore, SMTT(30)
  <1>3. /\ \A i \in 1..n : Upto(rt, i) = Upto(rs, i)
        /\ r.event.kind # "step" => Upto(rt, n + 1) = Cardinality(Steps(rs))
    <2>1. /\ \A i \in 1..n : Upto(rt, i) = Upto(rs, i) /\ Upto(rs, i) <= Cardinality(Steps(rs))
          /\ Upto(rt, n + 1) = Cardinality(Steps(rt))
          /\ Cardinality(Steps(rt)) = IF r.event.kind = "step" THEN Cardinality(Steps(rs)) + 1
                                      ELSE Cardinality(Steps(rs))
      BY <1>1, UptoMore
    <2>2. QED
      BY <2>1
  <1>4. Writes(rs) \subseteq Writes(rt) /\ \A j \in Writes(rs) : rt[j] = rs[j]
    <2>1. Writes(rs) \subseteq Writes(rt)
      BY <1>1, WritesMore
    <2>2. Writes(rs) \subseteq 1..n
      BY <1>1, WritesMore
    <2>3. QED
      BY <1>2, <2>1, <2>2
  <1>5. ASSUME NEW i \in 1..n
        PROVE  /\ rt[i].event.kind = "message" /\ rt[i].event.msg.who = "tools"
                    /\ rt[i].event.msg.act = "write" =>
                      \E j \in Writes(rt) : rt[j].event.step < Upto(rt, i)
               /\ rt[i].event.kind = "step" => rt[i].event.msg.who = "model"
    BY <1>1, <1>2, <1>3, <1>4 DEF Accounts
  <1>6. /\ rt[n + 1].event.kind = "message" /\ rt[n + 1].event.msg.who = "tools"
             /\ rt[n + 1].event.msg.act = "write" =>
               \E j \in Writes(rt) : rt[j].event.step < Upto(rt, n + 1)
        /\ rt[n + 1].event.kind = "step" => rt[n + 1].event.msg.who = "model"
    BY <1>2, <1>3, <1>4
  <1>7. \A i \in 1..Len(rt) : i \in 1..n \/ i = n + 1
    BY <1>2
  <1>8. QED
    BY <1>5, <1>6, <1>7 DEF Accounts

LEMMA AccountedNext ==
  ASSUME Typed, Filed, TapesTell, Spoken, Paced, Accounted, [Next]_vars
  PROVE  Accounted'
  <1> SUFFICES ASSUME NEW s \in Sessions, Sole(s)', ses'[s].cmd.kind = "run"
               PROVE  /\ Accounts(Rs(ses[s].out)')
                      /\ ses'[s].pc = "results" /\ ses'[s].resp.act = "write" =>
                           \E j \in Writes(Rs(ses[s].out)') : Rs(ses[s].out)'[j].event.step = ses'[s].step
    BY DEF Accounted, Accounts, Writes, Places, Upto, Steps
  <1> DEFINE rs == Rs(ses[s].out)
             r  == Numbered(ses[s].seq, Pending(s))
  <1>1. SoleRecords(s)
    BY TapesTellStep
  <1>2. CASE Open(s) /\ rs' = <<>>
    <2>1. ses'[s].pc \in {"start", "provenance"}
      BY <1>2, MoverFacts
    <2>2. QED
      BY <1>2, <2>1 DEF Accounts
  <1>3. ASSUME Sole(s)
        PROVE  /\ ses[s].pc \in Live \cup {"over", "dead"} /\ Speaks(s) /\ ses[s].cmd.kind = "run"
               /\ Accounts(rs) /\ rs \in Seq(Stamped)
    <2>1. ses[s].pc \in Live \cup {"over", "dead"}
      BY <1>3, SoleFacts DEF Filed
    <2>2. ses[s].pc # "idle"
      BY <2>1 DEF Live, Taking, Appending
    <2>3. Speaks(s) /\ ses[s].cmd.kind = "run"
      BY <2>2, GivenStays DEF Spoken
    <2>4. QED
      BY <1>3, <2>1, <2>3, SoleLength DEF Accounted
  <1>4. CASE Sole(s) /\ (ses'[s] = ses[s] \/ Quiet(s) \/ Dies(s)) /\ rs' = rs
    <2>1. ses'[s] = ses[s] \/ ses'[s].pc # "results"
      BY <1>4, MoverFacts DEF Quiet, Planning, Restoring, Ended, Onward, Taking
    <2>2. QED
      BY <1>3, <1>4, <2>1 DEF Accounted
  <1>5. CASE Sole(s) /\ (Put(s) \/ Dies(s)) /\ ses[s].pc \in Appending /\ r \in Stamped /\ rs' = Append(rs, r)
    <2>1. r.event = Pending(s)
      BY DEF Numbered
    <2>2. ASSUME r.event.kind = "message", r.event.msg.who = "tools", r.event.msg.act = "write"
          PROVE  \E j \in Writes(rs) : rs[j].event.step < Cardinality(Steps(rs))
      <3>1. ses[s].pc \in {"log", "results"}
        BY <1>5, <2>1, <2>2, PendingKind DEF Appending
      <3>2. ses[s].pc # "log"
        <4>1. SUFFICES ASSUME ses[s].pc = "log"
                       PROVE  FALSE
          OBVIOUS
        <4>2. ses[s].hist = <<Prompt(s), Task(s)>> /\ ses[s].logged \in Nat /\ ses[s].logged < Len(ses[s].hist)
          BY <1>3, <1>5, <4>1 DEF Speaks, Typed, SessionTyped
        <4>3. ses[s].logged + 1 \in {1, 2}
          BY <4>2
        <4>4. ses[s].hist[ses[s].logged + 1] \in {Prompt(s), Task(s)}
          BY <4>2, <4>3
        <4>5. r.event.msg = ses[s].hist[ses[s].logged + 1]
          BY <2>1, <4>1 DEF Pending, Event
        <4>6. QED
          BY <2>2, <4>4, <4>5, HumansSay
      <3>3. ses[s].pc = "results"
        BY <3>1, <3>2
      <3>4. r.event.msg = Last(ses[s].hist)
        BY <2>1, <3>3 DEF Pending, Event
      <3>5. PICK g \in Histories, m \in Messages : ses[s].hist = Append(g, m) /\ AnswerTo(ses[s].resp, m)
        BY <1>3, <1>5, <3>3 DEF Speaks, Answered1
      <3>6. Last(ses[s].hist) = m
        BY <3>5 DEF Histories, Last
      <3>7. ses[s].resp.act = "write"
        BY <2>2, <3>4, <3>5, <3>6 DEF AnswerTo
      <3>8. PICK j \in Writes(rs) : rs[j].event.step = ses[s].step
        BY <1>3, <1>5, <3>3, <3>7 DEF Accounted
      <3>9. Cardinality(Steps(rs)) = ses[s].step + 1 /\ ses[s].step \in Nat
        BY <1>5, <3>3 DEF Paced, Live, Taking, Appending, Typed, SessionTyped
      <3>10. QED
        BY <3>8, <3>9
    <2>3. r.event.kind = "step" => r.event.msg.who = "model"
      <3>1. r.event.kind = "step" => ses[s].pc = "asked"
        BY <1>5, <2>1, PendingKind DEF Appending
      <3>2. ses[s].pc = "asked" => r.event.msg = ses[s].resp
        BY <2>1 DEF Pending, Event
      <3>3. QED
        BY <1>3, <1>5, <3>1, <3>2 DEF Speaks, Asking
    <2>4. Accounts(rs')
      <3>1. Longer(rs', rs, r) /\ Accounts(rs)
        BY <1>3, <1>5 DEF Longer
      <3> HIDE DEF rs, r
      <3>2. QED
        BY <2>2, <2>3, <3>1, AccountsMore
    <2>5. ASSUME ses'[s].pc = "results", ses'[s].resp.act = "write"
          PROVE  \E j \in Writes(rs') : rs'[j].event.step = ses'[s].step
      <3>1. Put(s)
        BY <1>5, <2>5, MoverFacts
      <3>2. Followed(s) /\ ses'[s].resp = ses[s].resp
        BY <3>1, MoveFacts
      <3>3. ses[s].pc = "done" /\ ses'[s].step = ses[s].step
        BY <1>5, <2>5, <3>2 DEF Followed, Begun, Appending
      <3>4. r.event.kind = "tool_result" /\ r.event.msg.act = "write" /\ r.event.step = ses[s].step
        BY <2>1, <2>5, <3>2, <3>3 DEF Pending, Event
      <3>5. PICK n \in Nat : n = Len(rs)
        BY <1>3, <1>5
      <3>6. n + 1 \in Writes(rs') /\ rs'[n + 1] = r
        <4>1. Longer(rs', rs, r)
          BY <1>3, <1>5 DEF Longer
        <4> HIDE DEF rs, r
        <4>2. n + 1 \in Writes(rs')
          BY <3>4, <3>5, <4>1, WritesMore
        <4>3. rs'[n + 1] = r
          BY <3>5, <4>1, RecordMore
        <4>4. QED
          BY <4>2, <4>3
      <3>7. QED
        BY <3>3, <3>4, <3>6
    <2>6. QED
      BY <2>4, <2>5
  <1>6. QED
    BY <1>1, <1>2, <1>4, <1>5 DEF SoleRecords
\* A prefix that tells of a write has the write in it.
LEMMA AnswersWritten ==
  ASSUME NEW rs \in Seq(Stamped), NEW at \in Nat, Accounts(rs), Answered(HistoryBefore(rs, at))
  PROVE  WritesBefore(rs, at) # {}
  <1> DEFINE places == {i \in Places(rs, {"message", "step"}) :
                          Cardinality({j \in Steps(rs) : j <= i}) <= at}
             h == Told(rs, places)
  <1>1. PICK i \in 1..Len(h) : h[i].who = "tools" /\ h[i].act = "write"
    BY DEF Answered, HistoryBefore
  <1> HIDE DEF places
  <1>2. PICK j \in 1..Len(rs) : j \in places /\ h[i] = rs[j].event.msg
    BY <1>1, ToldSays
  <1>3. rs[j].event.kind \in {"message", "step"} /\ Upto(rs, j) <= at
    BY <1>2 DEF places, Places, Upto
  <1>4. rs[j].event.kind = "message"
    BY <1>1, <1>2, <1>3 DEF Accounts
  <1>5. PICK k \in Writes(rs) : rs[k].event.step < Upto(rs, j)
    BY <1>1, <1>2, <1>4 DEF Accounts
  <1>6. rs[k].event.step \in Nat /\ Upto(rs, j) \in Nat
    <2>1. k \in 1..Len(rs)
      BY DEF Writes, Places
    <2>2. Steps(rs) \subseteq 1..Len(rs) /\ IsFiniteSet(Steps(rs))
      BY PlacesTyped DEF Steps
    <2>3. {i2 \in Steps(rs) : i2 <= j} \in SUBSET Steps(rs)
      OBVIOUS
    <2>4. IsFiniteSet({i2 \in Steps(rs) : i2 <= j})
      BY <2>2, <2>3, FS_Subset
    <2>5. Upto(rs, j) \in Nat
      BY <2>4, FS_CardinalityType DEF Upto
    <2>6. QED
      BY <2>1, <2>5, StampedFacts
  <1>7. k \in WritesBefore(rs, at)
    BY <1>3, <1>5, <1>6 DEF WritesBefore
  <1>8. QED
    BY <1>7

\* What is edited is nobody's answer.
LEMMA EditedAnswers ==
  ASSUME NEW s \in Sessions, NEW c, NEW h \in Histories, ~Answered(h)
  PROVE  ~Answered(Edited(s, c, h))
  <1>1. ~Answered(Append(h, Nudge(s)))
    <2>1. PICK n \in Nat : n = Len(h)
      BY DEF Histories
    <2>2. PICK g : g = Append(h, Nudge(s))
      OBVIOUS
    <2>3. Len(g) = n + 1 /\ g[n + 1] = Nudge(s) /\ \A i \in 1..n : g[i] = h[i]
      BY <2>1, <2>2, MsgTyped DEF Histories
    <2>4. \A i \in 1..n + 1 : i \in 1..n \/ i = n + 1
      BY <2>1
    <2>5. ~Answered(g)
      BY <2>1, <2>3, <2>4, HumansSay DEF Answered
    <2>6. QED
      BY <2>2, <2>5
  <1>2. ASSUME h # <<>>
        PROVE  ~Answered(<<Prompt(s)>> \o Tail(h))
    <2>1. PICK n \in Nat : n = Len(h) /\ n > 0
      BY <1>2, EmptySeq DEF Histories
    <2>2. PICK g : g = <<Prompt(s)>> \o Tail(h)
      OBVIOUS
    <2>3. Len(g) = n /\ g[1] = Prompt(s) /\ \A i \in 2..n : g[i] = h[i]
      BY <1>2, <2>1, <2>2, MsgTyped DEF Histories
    <2>4. \A i \in 1..n : i \in 2..n \/ i = 1
      BY <2>1
    <2>5. ~Answered(g)
      BY <2>1, <2>3, <2>4, HumansSay DEF Answered
    <2>6. QED
      BY <2>2, <2>5
  <1>3. QED
    BY <1>1, <1>2 DEF Edited

\* The first half of ForkOwnsUp.
Owns ==
  \A s, t \in Sessions :
    CalledFaithful(s) /\ Sole(t) /\ ses[t].cmd.kind = "run" /\ ses[t].out = ses[s].src
      => ~Answered(ses[s].hist)

LEMMA OwnsInit == Init => Owns
  BY DEF Init, Owns, CalledFaithful, Idle

LEMMA OwnsNext ==
  ASSUME Typed, Filed, Naming, TapesTell, Spoken, Accounted, Owns, [Next]_vars
  PROVE  Owns'
  <1> SUFFICES ASSUME NEW s \in Sessions, NEW t \in Sessions, CalledFaithful(s)', Sole(t)',
                      ses'[t].cmd.kind = "run", ses'[t].out = ses'[s].src
               PROVE  ~Answered(ses'[s].hist)
    BY DEF Owns, Answered
  <1>1. /\ ses'[s].pc = "decide" /\ ses'[s].cmd.kind = "fork" /\ ses'[s].sound = "faithful"
        /\ ses'[s].restored = None
    BY DEF CalledFaithful
  <1>2. SoleStep(t) /\ ses'[t].out = ses[t].out
    BY SoleSteps
  <1>3. CASE ses[s].pc # "idle"
    <2>1. /\ ses[s].cmd = ses'[s].cmd /\ ses[s].sound = ses'[s].sound
          /\ ses[s].restored = ses'[s].restored /\ ses[s].src = ses'[s].src
      BY <1>3, GivenStays
    <2>2. ses'[s] = ses[s]
      <3>1. CASE UNCHANGED vars
        BY <3>1 DEF vars
      <3>2. ASSUME NEW u \in Sessions,
                   \/ Started(u) \/ Copies(u) \/ Decide(u) \/ Open(u) \/ Put(u)
                   \/ Ask(u) \/ Tool(u) \/ Crash(u)
            PROVE  ses'[s] = ses[s]
        <4>1. CASE u = s
          <5>1. ~Started(s)
            BY <1>3, StartedAs DEF Birth
          <5>2. ~Copies(s)
            <6>1. Copies(s) => Ways(s)
              BY MoveFacts
            <6>2. ses[s].pc \in Restoring => ses[s].restored # None
              BY <1>3 DEF Spoken, Speaks
            <6>3. QED
              BY <1>1, <2>1, <6>1, <6>2 DEF Ways, Taking
          <5>3. ~Put(s)
            BY <1>1, MoverFacts DEF Live, Taking, Appending
          <5>4. QED
            BY <1>1, <3>2, <4>1, <5>1, <5>2, <5>3, MoveFacts
        <4>2. CASE u # s
          <5>1. Others(u)
            BY <3>2, MoveFacts, StartedAs DEF Birth, NewBorn, Moves
          <5>2. QED
            BY <4>2, <5>1 DEF Others
        <4>3. QED
          BY <4>1, <4>2
      <3>3. QED
        BY <3>1, <3>2, NextActions
    <2>3. CalledFaithful(s)
      BY <1>1, <2>2 DEF CalledFaithful
    <2>4. Sole(t)
      BY <1>1, <1>3, <2>1, <2>2, SourceStays
    <2>5. ses[t].cmd.kind = "run"
      <3>1. ses[t].pc # "idle"
        BY <2>4, SoleFacts DEF Filed, Live, Taking, Appending
      <3>2. QED
        BY <3>1, GivenStays
    <2>6. QED
      BY <1>2, <2>1, <2>2, <2>3, <2>4, <2>5 DEF Owns
  <1>4. CASE ses[s].pc = "idle"
    <2>1. Started(s)
      BY <1>1, <1>4, GivenStays
    <2>2. Others(s) /\ NewBorn(s)
      BY <2>1, StartedAs DEF Birth, NewBorn
    <2>3. PICK c \in Commands[s], src \in DOMAIN files : c.kind = "fork" /\ ForkPlanned(s, c, src)
      <3>1. ASSUME NEW c \in Commands[s], Run(s, c)
            PROVE  FALSE
        BY <1>1, <3>1, RunFacts
      <3>2. ASSUME NEW c \in Commands[s], NEW src \in DOMAIN files, c.kind = "resume", ResumePlanned(s, c, src)
            PROVE  FALSE
        BY <1>1, <3>2 DEF ResumePlanned
      <3>3. QED
        BY <1>1, <2>1, <3>1, <3>2, StartedAs
    <2>4. t # s
      <3>1. ses'[t].handle
        BY SoleFacts
      <3>2. ~ses'[s].handle
        BY <2>2 DEF NewBorn
      <3>3. QED
        BY <3>1, <3>2
    <2>5. Sole(t) /\ ses'[t] = ses[t]
      <3>1. ses'[t] = ses[t]
        BY <2>2, <2>4 DEF Others
      <3>2. ~Open(t)
        <4>1. Open(t) => ses'[t].pc # ses[t].pc
          BY MoverFacts
        <4>2. QED
          BY <3>1, <4>1
      <3>3. QED
        BY <1>2, <3>1, <3>2 DEF SoleStep
    <2>6. src = ses[t].out /\ Accounts(Rs(src)) /\ Rs(src) \in Seq(Stamped)
      <3>1. ses'[s].src = src
        BY <2>3 DEF ForkPlanned
      <3>2. QED
        BY <1>2, <2>5, <3>1, SoleLength DEF Accounted
    <2>7. c.at \in Nat /\ ses'[s].hist = Edited(s, c, HistoryBefore(Rs(src), c.at))
          /\ WritesBefore(Rs(src), c.at) = {}
      <3>1. c.at \in Nat
        BY LineageAssumption
      <3>2. QED
        BY <1>1, <2>3, <3>1 DEF ForkPlanned, Soundness
    <2>8. ~Answered(HistoryBefore(Rs(src), c.at))
      BY <2>6, <2>7, AnswersWritten
    <2>9. HistoryBefore(Rs(src), c.at) \in Histories
      BY <2>6, ToldTyped DEF HistoryBefore
    <2>10. QED
      BY <2>7, <2>8, <2>9, EditedAnswers
  <1>5. QED
    BY <1>3, <1>4

LEMMA OwnsUpFrom ==
  ASSUME Spoken, Owns
  PROVE  ForkOwnsUp
  BY DEF Spoken, Speaks, Owns, ForkOwnsUp
(* Which responses there can be *)

Answering == {"asked", "tool", "done", "results", "end"} \cup Ended

\* The ids a session has given out, and those nobody gives out.
Past(t, j) == j < ses[t].step \/ (j = ses[t].step /\ ses[t].pc \in Answering)
Asked == {id \in Ids : id[1] \in Sessions => Past(id[1], id[2])}

LinesOf(A) == {l \in Lines : l.text.event.kind = "step" => l.text.event.msg.id \in A}

\* Nothing is known of a response before it is given.
Fresh ==
  /\ \A d : Holds(d) \subseteq Asked
  /\ \A n \in DOMAIN files : files[n] \in Seq(LinesOf(Asked))
  /\ \A s \in Sessions : /\ ses[s].resp.id \in Asked
                         /\ \A k \in DOMAIN ses[s].cache : ses[s].cache[k].id \in Asked

LEMMA IdleFacts ==
  /\ Idle.pc = "idle" /\ Idle.step = 0 /\ Idle.cache = NoCache /\ Idle.resp = NoMsg
  /\ DOMAIN NoCache = {} /\ NoMsg.id = <<0, 0>> /\ Idle.handle = FALSE
  BY DEF Idle, NoCache, NoMsg, Msg

LEMMA ZeroAsked == <<0, 0>> \in Asked /\ <<0, 0>> \in Asked'
  <1>1. <<0, 0>> \in Ids /\ 0 \notin Sessions
    BY LineageAssumption DEF Ids
  <1>2. QED
    BY <1>1 DEF Asked

LEMMA FreshInit == Init => Fresh
  <1> SUFFICES ASSUME Init
               PROVE  Fresh
    OBVIOUS
  <1>1. (\A d : Holds(d) = {}) /\ DOMAIN files = {} /\ \A s \in Sessions : ses[s] = Idle
    BY DEF Init, Holds
  <1>2. QED
    BY <1>1, IdleFacts, ZeroAsked DEF Fresh

\* What was given out stays given out.
LEMMA AskedGrows ==
  ASSUME Typed, Filed, [Next]_vars
  PROVE  Asked \subseteq Asked'
  <1> SUFFICES ASSUME NEW t \in Sessions, NEW j \in Nat, Past(t, j)
               PROVE  Past(t, j)'
    BY DEF Asked, Ids
  <1>0. ses[t].step \in Nat
    BY DEF Typed, SessionTyped
  <1>1. CASE ses'[t] = ses[t]
    BY <1>1 DEF Past
  <1>2. CASE UNCHANGED vars
    BY <1>1, <1>2 DEF vars
  <1>3. CASE Next
    <2>1. PICK s \in Sessions :
            \/ Started(s) \/ Copies(s) \/ Decide(s) \/ Open(s) \/ Put(s)
            \/ Ask(s) \/ Tool(s) \/ Crash(s)
      BY <1>3, NextActions
    <2>2. CASE t # s
      BY <1>1, <2>1, <2>2, MoveFacts, StartedAs DEF Birth, NewBorn, Moves, Others
    <2>3. CASE t = s
      <3>1. ~Started(s)
        <4>1. SUFFICES ASSUME Started(s)
                       PROVE  FALSE
          OBVIOUS
        <4>2. ses[s].pc = "idle" /\ SessionTyped(s)
          BY <4>1, StartedAs DEF Birth, Typed
        <4>3. ses[s] = Idle
          BY <4>2 DEF SessionTyped
        <4>4. QED
          BY <2>3, <4>3, IdleFacts DEF Past, Answering, Ended
      <3>2. ASSUME ses'[s].step = ses[s].step, ses'[s].pc \in Answering
            PROVE  Past(t, j)'
        BY <1>0, <2>3, <3>2 DEF Past
      <3>3. ASSUME ses'[s].step = ses[s].step, ses[s].pc \notin Answering
            PROVE  Past(t, j)'
        BY <1>0, <2>3, <3>3 DEF Past
      <3>4. ASSUME ses'[s].step = ses[s].step + 1
            PROVE  Past(t, j)'
        BY <1>0, <2>3, <3>4 DEF Past
      <3>5. CASE Copies(s) \/ Decide(s) \/ Open(s) \/ Ask(s)
        BY <3>3, <3>5, MoveFacts DEF Still, Ways, Restoring, Taking, Answering, Ended
      <3>6. CASE Tool(s) \/ Crash(s)
        BY <3>2, <3>6, MoveFacts DEF Still, Answering, Ended
      <3>7. CASE Put(s)
        BY <1>0, <3>2, <3>3, <3>4, <3>7, MoveFacts DEF Followed, Carried, Begun, Appending, Answering, Ended
      <3>8. QED
        BY <2>1, <3>1, <3>5, <3>6, <3>7
    <2>4. QED
      BY <2>2, <2>3
  <1>4. QED
    BY <1>2, <1>3

\* A line more on a file of such lines.
LEMMA JoinedIn ==
  ASSUME NEW A, NEW f \in Seq(LinesOf(A)), NEW r \in Stamped, NEW e \in {"whole", "bare", "torn"},
         r.event.kind = "step" => r.event.msg.id \in A
  PROVE  Joined(f, Line(r, e)) \in Seq(LinesOf(A))
  <1>1. \A x \in {"whole", "bare", "torn", "junk"} : Line(r, x) \in Lines /\ Line(r, x).text = r
    BY DEF Line, Lines
  <1>2. Line(r, e) \in LinesOf(A) /\ Line(r, "junk") \in LinesOf(A) /\ Line(r, e).text = r
    BY <1>1 DEF LinesOf
  <1> DEFINE L == LinesOf(A)
  <1>3. f \in Seq(L) /\ Line(r, e) \in L /\ Line(r, "junk") \in L
    BY <1>2
  <1> HIDE DEF L
  <1>4. Append(f, Line(r, e)) \in Seq(L)
    BY <1>3
  <1>5. f # <<>> => Append(Front(f), Line(r, "junk")) \in Seq(L)
    BY <1>3 DEF Front
  <1>6. Joined(f, Line(r, e)) \in Seq(L)
    BY <1>2, <1>4, <1>5 DEF Joined
  <1>7. QED
    BY <1>6 DEF L

LEMMA AppendedIn ==
  ASSUME NEW A, NEW f \in Seq(LinesOf(A)), NEW fresh \in BOOLEAN, NEW r \in Stamped,
         r.event.kind = "step" => r.event.msg.id \in A
  PROVE  /\ Appended(f, fresh, Header, r) \in Seq(LinesOf(A))
         /\ Cuts(f, fresh, Header, r) \subseteq Seq(LinesOf(A))
  <1>1. Header \in Stamped /\ Header.event.kind # "step"
    BY LinesTyped DEF Header, HeaderOf, Event
  <1>2. Headed(f, fresh, Header) \in Seq(LinesOf(A))
    BY <1>1, JoinedIn DEF Headed
  <1>3. Appended(f, fresh, Header, r) \in Seq(LinesOf(A))
    BY <1>2, JoinedIn DEF Appended
  <1>4. ASSUME NEW g \in Cuts(f, fresh, Header, r)
        PROVE  g \in Seq(LinesOf(A))
    <2>1. \/ g = f
          \/ fresh /\ \E e \in {"whole", "bare", "torn"} : g = Joined(f, Line(Header, e))
          \/ \E e \in {"whole", "bare", "torn"} : g = Joined(Headed(f, fresh, Header), Line(r, e))
      BY CutsAre
    <2>2. QED
      BY <1>1, <1>2, <2>1, JoinedIn
  <1>5. QED
    BY <1>3, <1>4

LEMMA LinesGrow ==
  ASSUME NEW A, NEW B, A \subseteq B
  PROVE  Seq(LinesOf(A)) \subseteq Seq(LinesOf(B))
  <1>1. LinesOf(A) \subseteq LinesOf(B)
    BY DEF LinesOf
  <1>2. QED
    BY <1>1

\* A cache filled from such a file.
LEMMA CacheIn ==
  ASSUME NEW A, NEW f \in Seq(Lines), f \in Seq(LinesOf(A))
  PROVE  \A k \in DOMAIN CacheOf(Records(f)) : CacheOf(Records(f))[k].id \in A
  <1> SUFFICES ASSUME NEW k \in DOMAIN CacheOf(Records(f))
               PROVE  CacheOf(Records(f))[k].id \in A
    OBVIOUS
  <1>1. PICK rs : rs = Records(f)
    OBVIOUS
  <1>2. rs \in Seq(Stamped) /\ \A i \in 1..Len(rs) : i + 1 \in 1..Len(f) /\ rs[i] = f[i + 1].text
    BY <1>1, RecordsTyped
  <1>3. PICK i \in Steps(rs) : CacheOf(rs)[k] = rs[i].event.msg
    BY <1>1, <1>2, CacheHolds
  <1>4. i \in 1..Len(rs) /\ rs[i].event.kind = "step"
    BY DEF Steps, Places
  <1>5. f[i + 1] \in LinesOf(A)
    BY <1>2, <1>4
  <1>6. QED
    BY <1>1, <1>2, <1>3, <1>4, <1>5 DEF LinesOf

\* A copy makes nothing up.
LEMMA CopiesFill ==
  ASSUME Typed, NEW s \in Sessions, Copies(s)
  PROVE  \A d : Holds(d)' \subseteq Holds(d) \cup Holds(From(s))
  <1>1. trees' = trees => \A d : Holds(d)' = Holds(d)
    BY DEF Holds
  <1>2. ASSUME NEW w, trees' = Filled(Into(s), w), w \subseteq Holds(Into(s)) \cup Holds(From(s))
        PROVE  \A d : Holds(d)' \subseteq Holds(d) \cup Holds(From(s))
    BY <1>2 DEF Filled, Holds
  <1>3. trees' = Removed(Into(s)) => \A d : Holds(d)' \subseteq Holds(d)
    BY DEF Removed, Holds
  <1>4. CASE Clear(s) \/ Copied(s)
    BY <1>1, <1>4 DEF Clear, Copied
  <1>5. CASE Unlink(s)
    <2>1. trees' = trees \/ \E x : trees' = Filled(Into(s), Holds(Into(s)) \ {x})
      BY <1>5 DEF Unlink
    <2>2. \A x : Holds(Into(s)) \ {x} \subseteq Holds(Into(s)) \cup Holds(From(s))
      OBVIOUS
    <2>3. QED
      BY <1>1, <1>2, <2>1, <2>2
  <1>6. CASE Rmdir(s)
    BY <1>1, <1>3, <1>6 DEF Rmdir
  <1>7. CASE Mkdir(s)
    BY <1>1, <1>2, <1>7 DEF Mkdir
  <1>8. CASE CopyOne(s)
    <2>1. trees' = trees \/ \E x \in Holds(From(s)) : trees' = Filled(Into(s), Holds(Into(s)) \cup {x})
      BY <1>8 DEF CopyOne
    <2>2. \A x \in Holds(From(s)) : Holds(Into(s)) \cup {x} \subseteq Holds(Into(s)) \cup Holds(From(s))
      OBVIOUS
    <2>3. QED
      BY <1>1, <1>2, <2>1, <2>2
  <1>9. QED
    BY <1>4, <1>5, <1>6, <1>7, <1>8 DEF Copies

LEMMA FreshNext ==
  ASSUME Typed, Filed, Fresh, [Next]_vars
  PROVE  Fresh'
  <1> DEFINE A == Asked
             B == Asked'
  <1>1. A \subseteq B
    BY AskedGrows
  <1>2. /\ \A d : Holds(d) \subseteq B
        /\ \A n \in DOMAIN files : files[n] \in Seq(LinesOf(B))
        /\ \A s \in Sessions : /\ ses[s].resp.id \in B
                               /\ \A k \in DOMAIN ses[s].cache : ses[s].cache[k].id \in B
    <2>1. Seq(LinesOf(A)) \subseteq Seq(LinesOf(B))
      BY <1>1, LinesGrow
    <2>2. QED
      BY <1>1, <2>1 DEF Fresh
  <1> DEFINE New == /\ \A d : Holds(d)' \subseteq B
                    /\ \A n \in DOMAIN files' : files'[n] \in Seq(LinesOf(B))
                    /\ \A s \in Sessions : /\ ses'[s].resp.id \in B
                                           /\ \A k \in DOMAIN ses'[s].cache : ses'[s].cache[k].id \in B
  <1>3. SUFFICES New
    BY DEF Fresh, LinesOf
  <1> HIDE DEF A, B
  <1>0. trees' = trees => \A d : Holds(d)' \subseteq B
    BY <1>2 DEF Holds
  <1>4. CASE UNCHANGED vars
    BY <1>0, <1>2, <1>4 DEF vars
  <1>5. ASSUME NEW s \in Sessions, Moves(s), ses'[s].resp.id \in B
        PROVE  \A u \in Sessions : /\ ses'[u].resp.id \in B
                                   /\ \A k \in DOMAIN ses'[u].cache : ses'[u].cache[k].id \in B
    BY <1>2, <1>5 DEF Moves, Others, Fixed
  <1>6. ASSUME NEW s \in Sessions, Started(s)
        PROVE  New
    <2>1. Others(s) /\ UNCHANGED <<files, trees>> /\ ses'[s].resp = NoMsg
      BY <1>6, StartedAs DEF Birth, NewBorn
    <2>2. \A k \in DOMAIN ses'[s].cache : ses'[s].cache[k].id \in B
      <3>1. ASSUME NEW c \in Commands[s], NEW src \in DOMAIN files, ForkPlanned(s, c, src)
            PROVE  \A k \in DOMAIN ses'[s].cache : ses'[s].cache[k].id \in B
        <4>1. PICK f : f = files[src]
          OBVIOUS
        <4>2. f \in Seq(Lines) /\ f \in Seq(LinesOf(B))
          BY <1>2, <4>1 DEF Typed
        <4>3. ses'[s].cache = CacheOf(Records(f))
          BY <3>1, <4>1 DEF ForkPlanned, Rs, FileOf
        <4>4. QED
          BY <4>2, <4>3, CacheIn
      <3>2. ses'[s].cache = NoCache \/ \E c \in Commands[s], src \in DOMAIN files : ForkPlanned(s, c, src)
        <4>1. \A c \in Commands[s] : Run(s, c) => ses'[s].cache = NoCache
          BY RunFacts
        <4>2. \A c \in Commands[s], src \in DOMAIN files : ResumePlanned(s, c, src) => ses'[s].cache = NoCache
          BY DEF ResumePlanned
        <4>3. ses[s].pc = "idle"
          BY <1>6, StartedAs DEF Birth
        <4>4. \A c \in Commands[s], src \in DOMAIN files : Fails(s, c, src) => ses'[s].cache = NoCache
          BY <4>3, FailsFacts
        <4>5. QED
          BY <1>6, <4>1, <4>2, <4>4, StartedAs
      <3>3. QED
        BY <3>1, <3>2, IdleFacts
    <2>3. ses'[s].resp.id \in B
      BY <2>1, IdleFacts, ZeroAsked DEF B
    <2>4. QED
      BY <1>0, <1>2, <2>1, <2>2, <2>3 DEF Others
  <1>7. ASSUME NEW s \in Sessions, ses[s].pc \in Appending
        PROVE  LET r == Numbered(ses[s].seq, Pending(s))
               IN r \in Stamped /\ (r.event.kind = "step" => r.event.msg.id \in B)
    <2>1. Numbered(ses[s].seq, Pending(s)) \in Stamped
      BY <1>7, PendingTyped, LinesTyped DEF Typed, SessionTyped
    <2>2. Pending(s).kind = "step" => ses[s].pc = "asked"
      BY <1>7, PendingKind DEF Appending
    <2>3. ses[s].pc = "asked" => Pending(s).msg = ses[s].resp
      BY DEF Pending, Event
    <2>4. QED
      BY <1>2, <2>1, <2>2, <2>3 DEF Numbered
  <1>8. ASSUME NEW s \in Sessions, NEW g \in Seq(LinesOf(B)), Written(s, g)
        PROVE  \A n \in DOMAIN files' : files'[n] \in Seq(LinesOf(B))
    BY <1>2, <1>8 DEF Written
  <1>9. ASSUME NEW s \in Sessions, Open(s)
        PROVE  New
    <2>1. Moves(s) /\ ses'[s].resp = ses[s].resp
      BY <1>9, MoveFacts
    <2>2. files' = [n \in DOMAIN files \cup {ses[s].out} |-> FileOf(n)] /\ trees' = trees
      BY <1>9 DEF Open
    <2>3. \A n : FileOf(n) \in Seq(LinesOf(B))
      BY <1>2 DEF FileOf
    <2>4. QED
      BY <1>0, <1>2, <1>5, <2>1, <2>2, <2>3
  <1>10. ASSUME NEW s \in Sessions, Put(s)
         PROVE  New
    <2>1. Moves(s) /\ ses'[s].resp = ses[s].resp /\ ses[s].pc \in Appending /\ trees' = trees
      BY <1>10, MoveFacts DEF Put
    <2>2. ses[s].out \in DOMAIN files /\ ses[s].fresh \in BOOLEAN
      BY <2>1 DEF Filed, Live, Taking, Typed, SessionTyped
    <2>3. PICK f, r : f = files[ses[s].out] /\ r = Numbered(ses[s].seq, Pending(s))
      OBVIOUS
    <2>4. Written(s, Appended(f, ses[s].fresh, Header, r))
      BY <1>10, <2>3, MoverFacts
    <2>5. f \in Seq(LinesOf(B)) /\ r \in Stamped /\ (r.event.kind = "step" => r.event.msg.id \in B)
      BY <1>2, <1>7, <2>1, <2>2, <2>3
    <2>6. Appended(f, ses[s].fresh, Header, r) \in Seq(LinesOf(B))
      BY <2>2, <2>5, AppendedIn
    <2>7. QED
      BY <1>0, <1>2, <1>5, <1>8, <2>1, <2>4, <2>6
  <1>11. ASSUME NEW s \in Sessions, Ask(s)
         PROVE  New
    <2>1. /\ Moves(s) /\ ses'[s].pc = "asked" /\ ses'[s].step = ses[s].step /\ ses[s].step \in Nat
          /\ IF ses[s].hist \in DOMAIN ses[s].cache
               THEN ses'[s].resp = ses[s].cache[ses[s].hist]
               ELSE \E a \in ses[s].cmd.acts : ses'[s].resp = Msg("model", <<s, ses[s].step>>, a, {})
      BY <1>11, MoveFacts DEF Typed, SessionTyped
    <2>2. <<s, ses[s].step>> \in B
      <3>1. <<s, ses[s].step>> \in Ids
        BY <2>1, LineageAssumption DEF Ids
      <3>2. QED
        BY <2>1, <3>1 DEF B, Asked, Past, Answering
    <2>3. \A a : Msg("model", <<s, ses[s].step>>, a, {}).id = <<s, ses[s].step>>
      BY DEF Msg
    <2>4. ses'[s].resp.id \in B
      BY <1>2, <2>1, <2>2, <2>3
    <2>5. QED
      BY <1>0, <1>2, <1>5, <1>11, <2>1, <2>4 DEF Ask
  <1>12. ASSUME NEW s \in Sessions, Crash(s)
         PROVE  New
    <2>1. Moves(s) /\ ses'[s].resp = ses[s].resp
      BY <1>12, MoveFacts DEF Still
    <2>2. \A n \in DOMAIN files' : files'[n] \in Seq(LinesOf(B))
      <3>1. CASE ses[s].pc \in Appending
        <4>1. ses[s].out \in DOMAIN files /\ ses[s].fresh \in BOOLEAN
          BY <3>1 DEF Filed, Live, Taking, Typed, SessionTyped
        <4>2. PICK f, r : f = files[ses[s].out] /\ r = Numbered(ses[s].seq, Pending(s))
          OBVIOUS
        <4>3. PICK g \in Cuts(f, ses[s].fresh, Header, r) : Written(s, g)
          BY <1>12, <3>1, <4>1, <4>2, MoverFacts DEF Dies, FileOf
        <4>4. f \in Seq(LinesOf(B)) /\ r \in Stamped /\ (r.event.kind = "step" => r.event.msg.id \in B)
          BY <1>2, <1>7, <3>1, <4>1, <4>2
        <4>5. g \in Seq(LinesOf(B))
          BY <4>1, <4>3, <4>4, AppendedIn
        <4>6. QED
          BY <1>8, <4>3, <4>5
      <3>2. CASE ses[s].pc \notin Appending
        BY <1>2, <1>12, <3>2 DEF Crash
      <3>3. QED
        BY <3>1, <3>2
    <2>3. trees' = trees
      BY <1>12 DEF Crash
    <2>4. QED
      BY <1>0, <1>2, <1>5, <2>1, <2>2, <2>3
  <1>13. ASSUME NEW s \in Sessions, Copies(s) \/ Decide(s) \/ Tool(s)
         PROVE  New
    <2>1. Moves(s) /\ ses'[s].resp = ses[s].resp
      BY <1>13, MoveFacts DEF Still
    <2>2. files' = files
      BY <1>13, CopiesFacts DEF Decide, Tool
    <2>3. \A d : Holds(d)' \subseteq B
      <3>1. CASE Copies(s)
        BY <1>2, <3>1, CopiesFill
      <3>2. CASE Decide(s)
        BY <1>0, <3>2 DEF Decide
      <3>3. CASE Tool(s)
        <4>1. trees' = trees \/ trees' = Filled(Home, Holds(Home) \cup {ses[s].resp.id})
          BY <3>3 DEF Tool
        <4>2. ASSUME trees' = Filled(Home, Holds(Home) \cup {ses[s].resp.id})
              PROVE  \A d : Holds(d)' \subseteq Holds(d) \cup {ses[s].resp.id}
          BY <4>2 DEF Filled, Holds
        <4>3. QED
          BY <1>0, <1>2, <4>1, <4>2
      <3>4. QED
        BY <1>13, <3>1, <3>2, <3>3
    <2>4. QED
      BY <1>2, <1>5, <2>1, <2>2, <2>3
  <1>14. QED
    BY <1>4, <1>6, <1>9, <1>10, <1>11, <1>12, <1>13, NextActions
(* The readers of a tape with one record more *)

LEMMA StepsMore ==
  ASSUME NEW rs, NEW r, NEW rt, Longer(rt, rs, r)
  PROVE  /\ StepsOf(rs) \in Seq(Stamped) /\ StepsOf(rt) \in Seq(Stamped)
         /\ StepsOf(rt) = IF r.event.kind = "step" THEN Append(StepsOf(rs), r) ELSE StepsOf(rs)
  <1>1. PICK n : n = Len(rs)
    OBVIOUS
  <1>2. /\ rs \in Seq(Stamped) /\ r \in Stamped /\ n \in Nat /\ rt = Append(rs, r)
        /\ rt \in Seq(Stamped) /\ Len(rt) = n + 1 /\ rt[n + 1] = r /\ \A i \in 1..n : rt[i] = rs[i]
    BY <1>1, RecordMore DEF Longer
  <1>3. \A i \in 1..n : i \in Steps(rt) <=> i \in Steps(rs)
    BY <1>1, <1>2 DEF Steps, Places
  <1>4. n + 1 \in Steps(rt) <=> r.event.kind = "step"
    BY <1>2 DEF Steps, Places
  <1>5. Tape!Only(Append(rs, r), Steps(rt)) = IF n + 1 \in Steps(rt) THEN Append(Tape!Only(rs, Steps(rs)), r)
                                              ELSE Tape!Only(rs, Steps(rs))
    BY <1>1, <1>2, <1>3, OnlyAppend
  <1>6. StepsOf(rt) = IF r.event.kind = "step" THEN Append(StepsOf(rs), r) ELSE StepsOf(rs)
    BY <1>2, <1>4, <1>5 DEF StepsOf
  <1>7. \A i \in 1..n : rs[i] \in Stamped
    BY <1>1, <1>2
  <1>8. StepsOf(rs) \in Seq(Stamped)
    BY <1>1, <1>2, <1>7, OnlyTyped DEF StepsOf
  <1>9. Append(StepsOf(rs), r) \in Seq(Stamped)
    BY <1>2, <1>8
  <1>10. QED
    BY <1>6, <1>8, <1>9

LEMMA ToldMore ==
  ASSUME NEW rs, NEW r, NEW rt, Longer(rt, rs, r), NEW n, n = Len(rs), NEW places, NEW more,
         \A i \in 1..n : i \in more <=> i \in places
  PROVE  Told(rt, more) = IF n + 1 \in more THEN Append(Told(rs, places), r.event.msg) ELSE Told(rs, places)
  <1> DEFINE s == [i \in 1..Len(rs) |-> rs[i].event.msg]
             t == [i \in 1..Len(rt) |-> rt[i].event.msg]
             e == r.event.msg
  <1>1. /\ rs \in Seq(Stamped) /\ r \in Stamped /\ n \in Nat
        /\ rt \in Seq(Stamped) /\ Len(rt) = n + 1 /\ rt[n + 1] = r /\ \A i \in 1..n : rt[i] = rs[i]
    BY RecordMore
  <1>2. s \in Seq(Messages) /\ Len(s) = n
    <2>1. \A i \in 1..Len(rs) : rs[i].event.msg \in Messages
      BY <1>1, StampedFacts
    <2>2. s \in [1..n -> Messages]
      BY <2>1
    <2>3. QED
      BY <1>1, <2>2
  <1>3. e \in Messages
    BY <1>1 DEF Stamped, Events
  <1>4. t = Append(s, e)
    <2>1. /\ Append(s, e) \in Seq(Messages) /\ Len(Append(s, e)) = n + 1 /\ Append(s, e)[n + 1] = e
          /\ \A i \in 1..n : Append(s, e)[i] = s[i]
      <3> HIDE DEF s, e
      <3>1. QED
        BY <1>1, <1>2, <1>3, AppendProperties
    <2>2. t \in Seq(Messages) /\ Len(t) = n + 1
      <3>1. \A i \in 1..Len(rt) : rt[i].event.msg \in Messages
        BY <1>1, StampedFacts
      <3>2. t \in [1..n + 1 -> Messages]
        BY <1>1, <3>1
      <3>3. QED
        BY <1>1, <3>2
    <2>3. \A i \in 1..n + 1 : i \in 1..n \/ i = n + 1
      BY <1>1
    <2>4. \A i \in 1..n + 1 : t[i] = Append(s, e)[i]
      <3>1. t[n + 1] = e
        BY <1>1
      <3>2. \A i \in 1..n : t[i] = s[i]
        BY <1>1
      <3>3. QED
        BY <2>1, <2>3, <3>1, <3>2
    <2> DEFINE u == Append(s, e)
    <2>5. u \in Seq(Messages) /\ Len(u) = n + 1 /\ \A i \in 1..n + 1 : t[i] = u[i]
      BY <2>1, <2>4
    <2> HIDE DEF t, u
    <2>6. t = u
      BY <1>1, <2>2, <2>5, SeqEqual
    <2>7. QED
      BY <2>6 DEF u
  <1> HIDE DEF s, t, e
  <1>5. Tape!Only(Append(s, e), more) = IF n + 1 \in more THEN Append(Tape!Only(s, places), e)
                                        ELSE Tape!Only(s, places)
    BY <1>2, <1>3, OnlyAppend
  <1>6. Told(rs, places) = Tape!Only(s, places) /\ Told(rt, more) = Tape!Only(t, more)
    BY DEF Told, s, t
  <1>7. QED
    BY <1>4, <1>5, <1>6 DEF e

\* The history, and the part of it before a step that was already there.
LEMMA HistoryMore ==
  ASSUME NEW rs, NEW r, NEW rt, Longer(rt, rs, r)
  PROVE  /\ History(rs) \in Histories
         /\ History(rt) = IF r.event.kind \in {"message", "step"} THEN Append(History(rs), r.event.msg)
                          ELSE History(rs)
         /\ \A m \in Nat : m < Cardinality(Steps(rs)) => HistoryBefore(rt, m) = HistoryBefore(rs, m)
         /\ r.event.kind = "step" => HistoryBefore(rt, Cardinality(Steps(rs))) = History(rs)
  <1> DEFINE kinds == {"message", "step"}
             P == Places(rs, kinds)
             Q == Places(rt, kinds)
             c == Cardinality(Steps(rs))
  <1>1. PICK n : n = Len(rs)
    OBVIOUS
  <1>2. /\ rs \in Seq(Stamped) /\ r \in Stamped /\ n \in Nat
        /\ rt \in Seq(Stamped) /\ Len(rt) = n + 1 /\ rt[n + 1] = r /\ \A i \in 1..n : rt[i] = rs[i]
    BY <1>1, RecordMore
  <1>3. (\A i \in 1..n : i \in Q <=> i \in P) /\ (n + 1 \in Q <=> r.event.kind \in kinds)
        /\ Q \subseteq 1..n + 1 /\ P \subseteq 1..n
    BY <1>1, <1>2 DEF Places
  <1>4. /\ c \in Nat
        /\ \A i \in 1..n : Upto(rt, i) = Upto(rs, i) /\ Upto(rs, i) <= c
        /\ Upto(rt, n + 1) = (IF r.event.kind = "step" THEN c + 1 ELSE c)
    <2>1. /\ c \in Nat
          /\ \A i \in 1..n : Upto(rt, i) = Upto(rs, i) /\ Upto(rs, i) <= c
          /\ Upto(rt, n + 1) = Cardinality(Steps(rt))
          /\ Cardinality(Steps(rt)) = IF r.event.kind = "step" THEN c + 1 ELSE c
      BY <1>1, UptoMore
    <2>2. QED
      BY <2>1
  <1> HIDE DEF P, Q, c, kinds
  <1>5. History(rt) = IF r.event.kind \in kinds THEN Append(History(rs), r.event.msg) ELSE History(rs)
    <2>1. Told(rt, Q) = IF n + 1 \in Q THEN Append(Told(rs, P), r.event.msg) ELSE Told(rs, P)
      BY <1>1, <1>3, ToldMore
    <2>2. QED
      BY <1>3, <2>1 DEF History, P, Q, kinds
  <1>6. \A m : HistoryBefore(rt, m) = Told(rt, {i \in Q : Upto(rt, i) <= m})
               /\ HistoryBefore(rs, m) = Told(rs, {i \in P : Upto(rs, i) <= m})
    BY DEF HistoryBefore, Upto, P, Q, kinds
  <1>7. ASSUME NEW m \in Nat, m < c
        PROVE  HistoryBefore(rt, m) = HistoryBefore(rs, m)
    <2> DEFINE X == {i \in Q : Upto(rt, i) <= m}
               Y == {i \in P : Upto(rs, i) <= m}
    <2>1. (\A i \in 1..n : i \in X <=> i \in Y) /\ n + 1 \notin X
      BY <1>3, <1>4, <1>7
    <2> HIDE DEF X, Y
    <2>2. Told(rt, X) = Told(rs, Y)
      BY <1>1, <2>1, ToldMore
    <2>3. QED
      BY <1>6, <2>2 DEF X, Y
  <1>8. ASSUME r.event.kind = "step"
        PROVE  HistoryBefore(rt, c) = History(rs)
    <2> DEFINE X == {i \in Q : Upto(rt, i) <= c}
    <2>1. (\A i \in 1..n : i \in X <=> i \in P) /\ n + 1 \notin X
      BY <1>3, <1>4, <1>8
    <2> HIDE DEF X
    <2>2. Told(rt, X) = Told(rs, P)
      BY <1>1, <2>1, ToldMore
    <2>3. QED
      BY <1>6, <2>2 DEF X, History, P, kinds
  <1>9. History(rs) \in Histories
    BY <1>2, ToldTyped DEF History
  <1>10. QED
    BY <1>5, <1>7, <1>8, <1>9 DEF c, kinds

\* The answer to anything but a read is known.
LEMMA OneAnswer ==
  ASSUME NEW r, NEW m \in Messages, NEW n \in Messages, AnswerTo(r, m), AnswerTo(r, n), r.act # "read"
  PROVE  m = n
  BY DEF AnswerTo, Messages

-----------------------------------------------------------------------------
(* The turns of a session whose tape is its own *)

\* The record that is due.
Due(u) == Numbered(ses[u].seq, Pending(u))

\* Turns that leave the tape alone: a response is the cache's if that knows one.
Between(u) ==
  LET x == ses[u]  y == ses'[u]
  IN /\ y.hist = x.hist /\ y.logged = x.logged
     /\ \/ x.pc \in Taking /\ y.pc \in Taking \cup {"snapped"}
        \/ /\ x.pc = "ask" /\ y.pc = "asked"
           /\ x.hist \in DOMAIN x.cache => y.resp = x.cache[x.hist]
        \/ x.pc = "tool" /\ y.pc = "done" /\ y.resp = x.resp

Turn(u) ==
  LET x == ses[u]  y == ses'[u]  rs == Rs(ses[u].out)
  IN \/ /\ x.pc = "open" /\ y.pc \in {"start", "provenance"} /\ y.hist = x.hist
        /\ y.logged = 0 /\ rs' = <<>>
     \/ Sole(u) /\ rs' = rs /\ y = x
     \/ Sole(u) /\ rs' = rs /\ Between(u)
     \/ Sole(u) /\ rs' = rs /\ y.pc = "dead"
     \/ /\ Sole(u) /\ x.pc \in Appending /\ Longer(rs', rs, Due(u))
        /\ y.pc = "dead" \/ (Followed(u) /\ y.resp = x.resp)

LEMMA TurnIs ==
  ASSUME Typed, Filed, TapesTell, [Next]_vars, NEW u \in Sessions, Sole(u)'
  PROVE  /\ Turn(u) /\ ses[u].pc # "idle" /\ Rs(ses[u].out)' \in Seq(Stamped)
         /\ ses'[u].cmd = ses[u].cmd /\ ses'[u].src = ses[u].src /\ ses'[u].out = ses[u].out
         /\ ses'[u].cache = ses[u].cache /\ ses'[u].beside = ses[u].beside
  <1> DEFINE rs == Rs(ses[u].out)
  <1>1. SoleRecords(u)
    BY TapesTellStep
  <1>2. CASE Open(u) /\ ~ses[u].handle /\ rs' = <<>>
    <2>1. /\ Moves(u) /\ ses[u].pc = "open" /\ ses'[u].pc \in {"start", "provenance"}
          /\ ses'[u].hist = ses[u].hist /\ ses'[u].logged = ses[u].logged
      BY <1>2, OpenFacts DEF Open
    <2>2. ses[u].logged = 0
      BY <2>1 DEF Typed, SessionTyped, Early, Planning, Restoring
    <2>3. <<>> \in Seq(Stamped)
      OBVIOUS
    <2>4. QED
      BY <1>2, <2>1, <2>2, <2>3 DEF Turn, Moves, Fixed
  <1>3. ASSUME Sole(u)
        PROVE  /\ ses[u].pc \in Live \cup {"over", "dead"} /\ ses[u].pc # "idle"
               /\ rs \in Seq(Stamped)
    <2>1. ses[u].pc \in Live \cup {"over", "dead"}
      BY <1>3, SoleFacts DEF Filed
    <2>2. QED
      BY <1>3, <2>1, SoleLength DEF Live, Taking, Appending
  <1>4. CASE Sole(u) /\ ses'[u] = ses[u] /\ rs' = rs
    BY <1>3, <1>4 DEF Turn
  <1>5. CASE Sole(u) /\ Quiet(u) /\ rs' = rs
    <2>1. Moves(u) /\ ses'[u].hist = ses[u].hist /\ ses'[u].logged = ses[u].logged
      BY <1>5 DEF Quiet
    <2>2. ses'[u].pc = "dead" \/ Between(u)
      <3>1. ses[u].pc \notin Planning
        BY <1>3, <1>5 DEF Live, Taking, Appending, Planning, Restoring
      <3>2. ses[u].pc \in Live \ Appending /\ Silent(u)
        BY <1>5, <3>1 DEF Quiet
      <3>3. CASE Copies(u)
        <4>1. ses[u].pc \notin Restoring
          BY <3>1 DEF Planning
        <4>2. QED
          BY <2>1, <3>3, <4>1, MoveFacts DEF Ways, Between
      <3>4. QED
        BY <2>1, <3>2, <3>3, MoveFacts DEF Silent, Live, Taking, Appending, Between, Still
    <2>3. QED
      BY <1>3, <1>5, <2>1, <2>2 DEF Turn, Moves, Fixed
  <1>6. CASE Sole(u) /\ Dies(u) /\ rs' = rs
    <2>1. Moves(u) /\ ses'[u].pc = "dead"
      BY <1>6, MoverFacts
    <2>2. QED
      BY <1>3, <1>6, <2>1 DEF Turn, Moves, Fixed
  <1>7. CASE /\ Sole(u) /\ (Put(u) \/ Dies(u)) /\ ses[u].pc \in Appending /\ Due(u) \in Stamped
             /\ rs' = Append(rs, Due(u))
    <2>1. Longer(rs', rs, Due(u)) /\ rs' \in Seq(Stamped)
      <3> HIDE DEF rs
      <3>1. QED
        BY <1>3, <1>7 DEF Longer
    <2>2. Moves(u) /\ (ses'[u].pc = "dead" \/ (Followed(u) /\ ses'[u].resp = ses[u].resp))
      BY <1>7, MoverFacts, MoveFacts
    <2>3. QED
      BY <1>3, <1>7, <2>1, <2>2 DEF Turn, Moves, Fixed
  <1>8. QED
    BY <1>1, <1>2, <1>4, <1>5, <1>6, <1>7 DEF SoleRecords, Due

\* What is due says what the session is about to tell, or nothing.
LEMMA DueSays ==
  ASSUME NEW u \in Sessions, ses[u].pc \in Appending
  PROVE  /\ ses[u].pc = "log" => Due(u).event.kind = "message"
                                 /\ Due(u).event.msg = ses[u].hist[ses[u].logged + 1]
         /\ ses[u].pc = "results" => Due(u).event.kind = "message"
                                     /\ Due(u).event.msg = Last(ses[u].hist)
         /\ ses[u].pc = "asked" => /\ Due(u).event.kind = "step" /\ Due(u).event.msg = ses[u].resp
                                   /\ Due(u).event.key = ses[u].hist
         /\ ses[u].pc \notin {"log", "results", "asked"} => Due(u).event.kind \notin {"message", "step"}
  BY DEF Due, Numbered, Pending, Event, Appending

-----------------------------------------------------------------------------
(* The history on a tape is the history of its session *)

Hears(x, h) ==
  /\ x.pc \in {"provenance", "start"} => h = <<>>
  /\ x.pc = "log" => Len(h) = x.logged /\ \A i \in 1..x.logged : h[i] = x.hist[i]
  /\ x.pc \in Taking \cup {"snapped", "ask", "asked", "tool", "done"} => h = x.hist
  /\ x.pc = "results" => x.hist = Append(h, Last(x.hist))

Heard == \A u \in Sessions : Sole(u) => Hears(ses[u], History(Rs(ses[u].out)))

LEMMA HeardInit == Init => Heard
  BY DEF Init, Heard, Idle, Sole, Writers

LEMMA EmptyHistory == History(<<>>) = <<>>
  <1>1. [i \in 1..Len(<<>>) |-> <<>>[i].event.msg] = <<>>
    OBVIOUS
  <1>2. QED
    BY <1>1, OnlyEmpty DEF History, Told

LEMMA HeardNext ==
  ASSUME Typed, Filed, TapesTell, Heard, [Next]_vars
  PROVE  Heard'
  <1> SUFFICES ASSUME NEW u \in Sessions, Sole(u)'
               PROVE  Hears(ses'[u], History(Rs(ses[u].out)'))
    BY DEF Heard
  <1> DEFINE rs == Rs(ses[u].out)
             x == ses[u]
             y == ses'[u]
  <1>1. Turn(u)
    BY TurnIs
  <1>2. Sole(u) => Hears(x, History(rs))
    BY DEF Heard
  <1>3. /\ x.hist \in Histories /\ x.logged \in Nat /\ x.resp \in Messages
        /\ (x.pc = "log" => x.logged < Len(x.hist)) /\ (x.pc = "start" => x.logged = 0)
    BY DEF Typed, SessionTyped, Early
  <1>4. CASE y.pc \in {"start", "provenance"} /\ rs' = <<>>
    BY <1>4, EmptyHistory DEF Hears, Taking
  <1>5. CASE Sole(u) /\ rs' = rs /\ y = x
    BY <1>2, <1>5
  <1>6. CASE Sole(u) /\ rs' = rs /\ Between(u)
    BY <1>2, <1>6 DEF Hears, Between, Taking
  <1>7. CASE y.pc = "dead"
    BY <1>7 DEF Hears, Taking
  <1>8. CASE Sole(u) /\ x.pc \in Appending /\ Longer(rs', rs, Due(u)) /\ Followed(u) /\ y.resp = x.resp
    <2> DEFINE h == History(rs)
               g == History(rs')
               r == Due(u)
    <2> SUFFICES Hears(y, g)
      OBVIOUS
    <2>1. /\ h \in Histories
          /\ g = IF r.event.kind \in {"message", "step"} THEN Append(h, r.event.msg) ELSE h
      <3> HIDE DEF rs, r
      <3>1. QED
        BY <1>8, HistoryMore DEF r
    <2>2. Hears(x, h)
      BY <1>2, <1>8
    <2>3. /\ x.pc = "log" => g = Append(h, x.hist[x.logged + 1])
          /\ x.pc = "results" => g = Append(h, Last(x.hist))
          /\ x.pc = "asked" => g = Append(h, x.resp)
          /\ x.pc \notin {"log", "results", "asked"} => g = h
      BY <1>8, <2>1, DueSays
    <2> HIDE DEF g, h, r
    <2>4. CASE x.pc = "provenance"
      BY <1>8, <2>2, <2>3, <2>4 DEF Hears, Followed, Taking
    <2>5. CASE x.pc = "start"
      BY <1>3, <1>8, <2>2, <2>3, <2>5 DEF Hears, Followed, Begun, Carried, Taking
    <2>6. CASE x.pc = "log"
      <3>1. PICK m \in Messages : m = x.hist[x.logged + 1]
        BY <1>3, <2>6 DEF Histories
      <3>2. /\ Len(h) = x.logged /\ \A i \in 1..x.logged : h[i] = x.hist[i]
        BY <2>2, <2>6 DEF Hears, Taking
      <3>3. /\ g \in Histories /\ Len(g) = x.logged + 1 /\ g[x.logged + 1] = m
            /\ \A i \in 1..x.logged : g[i] = h[i]
        BY <1>3, <2>1, <2>3, <2>6, <3>1, <3>2 DEF Histories
      <3>4. \A i \in 1..x.logged + 1 : g[i] = x.hist[i]
        <4>1. \A i \in 1..x.logged + 1 : i \in 1..x.logged \/ i = x.logged + 1
          BY <1>3
        <4>2. QED
          BY <3>1, <3>2, <3>3, <4>1
      <3>5. y.logged = x.logged + 1 /\ y.hist = x.hist
        BY <1>8, <2>6 DEF Followed
      <3>6. CASE x.logged + 1 < Len(x.hist)
        <4>1. y.pc = "log"
          BY <1>8, <2>6, <3>6 DEF Followed
        <4>2. QED
          BY <3>3, <3>4, <3>5, <4>1 DEF Hears, Taking
      <3>7. CASE ~(x.logged + 1 < Len(x.hist))
        <4>1. y.pc \in {"end", "snap", "ask"}
          BY <1>8, <2>6, <3>7 DEF Followed, Begun
        <4>2. Len(x.hist) = x.logged + 1
          BY <1>3, <2>6, <3>7 DEF Histories
        <4>3. g = x.hist
          BY <1>3, <3>3, <3>4, <4>2, SeqEqual DEF Histories
        <4>4. QED
          BY <3>5, <4>1, <4>3 DEF Hears, Taking
      <3>8. QED
        BY <3>6, <3>7
    <2>7. CASE x.pc = "snapped"
      BY <1>8, <2>2, <2>3, <2>7 DEF Hears, Followed, Carried, Taking
    <2>8. CASE x.pc = "asked"
      <3>1. g = y.hist /\ y.pc \in {"end", "tool"}
        BY <1>8, <2>2, <2>3, <2>8 DEF Hears, Followed, Taking
      <3>2. QED
        BY <3>1 DEF Hears, Taking
    <2>9. CASE x.pc = "done"
      <3>1. y.pc = "results" /\ y.hist = Append(x.hist, Answer(u)) /\ g = x.hist
        BY <1>8, <2>2, <2>3, <2>9 DEF Hears, Followed, Taking
      <3>2. Last(y.hist) = Answer(u)
        BY <1>3, <3>1, AnswerIs DEF Last, Histories
      <3>3. QED
        BY <3>1, <3>2 DEF Hears, Taking
    <2>10. CASE x.pc = "results"
      <3>1. g = y.hist /\ y.pc \in {"end", "snap", "ask"}
        BY <1>8, <2>2, <2>3, <2>10 DEF Hears, Followed, Begun, Taking
      <3>2. QED
        BY <3>1 DEF Hears, Taking
    <2>11. CASE x.pc = "end"
      BY <1>8, <2>11 DEF Hears, Followed, Taking
    <2>12. QED
      BY <1>8, <2>4, <2>5, <2>6, <2>7, <2>8, <2>9, <2>10, <2>11 DEF Appending
  <1>9. QED
    BY <1>1, <1>4, <1>5, <1>6, <1>7, <1>8 DEF Turn

-----------------------------------------------------------------------------
(* Every request on a tape is the history before its step *)

Requests(rs) ==
  /\ Len(StepsOf(rs)) = Cardinality(Steps(rs))
  /\ \A n \in Nat : n < Len(StepsOf(rs)) => StepsOf(rs)[n + 1].event.key = HistoryBefore(rs, n)

Requested == \A u \in Sessions : Sole(u) => Requests(Rs(ses[u].out))

LEMMA RequestedInit == Init => Requested
  BY DEF Init, Requested, Idle, Sole, Writers

LEMMA EmptyStepsOf == StepsOf(<<>>) = <<>>
  BY OnlyEmpty DEF StepsOf

LEMMA RequestsMore ==
  ASSUME NEW rs, NEW r, NEW rt, Longer(rt, rs, r), Requests(rs),
         r.event.kind = "step" => r.event.key = History(rs)
  PROVE  Requests(rt)
  <1>1. PICK q : q = StepsOf(rs)
    OBVIOUS
  <1>2. PICK n : n = Len(rs)
    OBVIOUS
  <1>3. PICK c : c = Cardinality(Steps(rs))
    OBVIOUS
  <1>4. q \in Seq(Stamped) /\ StepsOf(rt) = IF r.event.kind = "step" THEN Append(q, r) ELSE q
    BY <1>1, StepsMore
  <1>5. c \in Nat /\ Cardinality(Steps(rt)) = IF r.event.kind = "step" THEN c + 1 ELSE c
    BY <1>2, <1>3, UptoMore
  <1>6. /\ \A m \in Nat : m < c => HistoryBefore(rt, m) = HistoryBefore(rs, m)
        /\ r.event.kind = "step" => HistoryBefore(rt, c) = History(rs)
    BY <1>3, HistoryMore
  <1>7. Len(q) = c /\ \A m \in Nat : m < c => q[m + 1].event.key = HistoryBefore(rs, m)
    BY <1>1, <1>3 DEF Requests
  <1>8. CASE r.event.kind # "step"
    BY <1>4, <1>5, <1>6, <1>7, <1>8 DEF Requests
  <1>9. CASE r.event.kind = "step"
    <2>1. PICK p : p = Append(q, r)
      OBVIOUS
    <2>2. r \in Stamped
      BY DEF Longer
    <2>3. Len(p) = c + 1 /\ p[c + 1] = r /\ \A i \in 1..c : p[i] = q[i]
      BY <1>4, <1>7, <2>1, <2>2, AppendProperties
    <2>4. ASSUME NEW m \in Nat, m < c + 1
          PROVE  p[m + 1].event.key = HistoryBefore(rt, m)
      <3>1. CASE m < c
        <4>1. m + 1 \in 1..c
          BY <1>5, <3>1
        <4>2. QED
          BY <1>6, <1>7, <2>3, <3>1, <4>1
      <3>2. CASE m = c
        BY <1>6, <1>9, <2>3, <3>2
      <3>3. QED
        BY <1>5, <2>4, <3>1, <3>2
    <2>5. StepsOf(rt) = p /\ Cardinality(Steps(rt)) = c + 1
      BY <1>4, <1>5, <1>9, <2>1
    <2>6. QED
      BY <2>3, <2>4, <2>5 DEF Requests
  <1>10. QED
    BY <1>8, <1>9

LEMMA RequestedNext ==
  ASSUME Typed, Filed, TapesTell, Heard, Requested, [Next]_vars
  PROVE  Requested'
  <1> SUFFICES ASSUME NEW u \in Sessions, Sole(u)'
               PROVE  Requests(Rs(ses[u].out)')
    BY DEF Requested, Requests, StepsOf, Steps, Places, HistoryBefore, Told
  <1> DEFINE rs == Rs(ses[u].out)
  <1>1. Turn(u)
    BY TurnIs
  <1>2. CASE rs' = <<>>
    <2>1. Len(<<>>) = 0
      OBVIOUS
    <2>2. QED
      BY <1>2, <2>1, EmptyStepsOf, EmptySteps DEF Requests
  <1>3. CASE Sole(u) /\ rs' = rs
    BY <1>3 DEF Requested
  <1>4. CASE Sole(u) /\ ses[u].pc \in Appending /\ Longer(rs', rs, Due(u))
    <2>1. Due(u).event.kind = "step" => Due(u).event.key = History(rs)
      <3>1. Due(u).event.kind = "step" => ses[u].pc = "asked" /\ Due(u).event.key = ses[u].hist
        BY <1>4, DueSays
      <3>2. QED
        BY <1>4, <3>1 DEF Heard, Hears, Taking
    <2>2. Requests(rs)
      BY <1>4 DEF Requested
    <2> HIDE DEF rs
    <2>3. QED
      BY <1>4, <2>1, <2>2, RequestsMore DEF rs
  <1>5. QED
    BY <1>1, <1>2, <1>3, <1>4 DEF Turn

-----------------------------------------------------------------------------
(* Every request goes on from the one before it *)

\* The history after a step: its request, its response and what the tool answered.
Linked(a, h) ==
  \E m \in Messages : /\ h = Append(Append(a.event.key, a.event.msg), m)
                      /\ AnswerTo(a.event.msg, m)

Chains(q) == \A i \in Nat : 1 <= i /\ i < Len(q) => Linked(q[i], q[i + 1].event.key)

GoesOn(x, q) ==
  /\ x.pc \in {"provenance", "start", "log"} => q = <<>>
  /\ x.pc \in {"tool", "done", "results"} => q # <<>>
  /\ x.pc \in {"tool", "done"} => /\ x.resp = Last(q).event.msg
                                  /\ x.hist = Append(Last(q).event.key, Last(q).event.msg)
  /\ x.pc \in Taking \cup {"results", "snapped", "ask", "asked"} /\ q # <<>> =>
       Linked(Last(q), x.hist)

Chained == \A u \in Sessions : Sole(u) =>
             GoesOn(ses[u], StepsOf(Rs(ses[u].out))) /\ Chains(StepsOf(Rs(ses[u].out)))

LEMMA ChainedInit == Init => Chained
  BY DEF Init, Chained, Idle, Sole, Writers

LEMMA ChainsMore ==
  ASSUME NEW q, NEW r, NEW p, Longer(p, q, r), Chains(q),
         q # <<>> => Linked(Last(q), r.event.key)
  PROVE  Chains(p) /\ p # <<>> /\ Last(p) = r
  <1>1. PICK n : n = Len(q)
    OBVIOUS
  <1>2. /\ q \in Seq(Stamped) /\ n \in Nat /\ p \in Seq(Stamped) /\ Len(p) = n + 1
        /\ p[n + 1] = r /\ \A i \in 1..n : p[i] = q[i]
    BY <1>1, RecordMore
  <1>3. p # <<>> /\ Last(p) = r
    BY <1>2 DEF Last
  <1>4. ASSUME NEW i \in Nat, 1 <= i, i < n + 1
        PROVE  Linked(p[i], p[i + 1].event.key)
    <2>1. i \in 1..n
      BY <1>2, <1>4
    <2>2. CASE i < n
      <3>1. i + 1 \in 1..n
        BY <1>2, <2>2
      <3>2. QED
        BY <1>1, <1>2, <1>4, <2>1, <2>2, <3>1 DEF Chains
    <2>3. CASE i = n
      <3>1. q # <<>> /\ Last(q) = q[i]
        BY <1>1, <1>2, <1>4, <2>3 DEF Last
      <3>2. QED
        BY <1>2, <2>1, <2>3, <3>1
    <2>4. QED
      BY <1>2, <1>4, <2>2, <2>3
  <1>5. QED
    BY <1>2, <1>3, <1>4 DEF Chains

LEMMA ChainedNext ==
  ASSUME Typed, Filed, TapesTell, Chained, [Next]_vars
  PROVE  Chained'
  <1> SUFFICES ASSUME NEW u \in Sessions, Sole(u)'
               PROVE  /\ GoesOn(ses'[u], StepsOf(Rs(ses[u].out)'))
                      /\ Chains(StepsOf(Rs(ses[u].out)'))
    BY DEF Chained, StepsOf, Steps, Places
  <1> DEFINE rs == Rs(ses[u].out)
             x == ses[u]
             y == ses'[u]
  <1>1. Turn(u)
    BY TurnIs
  <1>2. Sole(u) => GoesOn(x, StepsOf(rs)) /\ Chains(StepsOf(rs))
    BY DEF Chained
  <1>3. CASE y.pc \in {"start", "provenance"} /\ rs' = <<>>
    <2>1. Len(<<>>) = 0
      OBVIOUS
    <2>2. QED
      BY <1>3, <2>1, EmptyStepsOf DEF GoesOn, Chains, Taking
  <1>4. CASE Sole(u) /\ rs' = rs /\ y = x
    BY <1>2, <1>4
  <1>5. CASE Sole(u) /\ rs' = rs /\ Between(u)
    BY <1>2, <1>5 DEF GoesOn, Between, Taking
  <1>6. CASE Sole(u) /\ rs' = rs /\ y.pc = "dead"
    BY <1>2, <1>6 DEF GoesOn, Taking
  <1>7. CASE /\ Sole(u) /\ x.pc \in Appending /\ Longer(rs', rs, Due(u))
             /\ y.pc = "dead" \/ (Followed(u) /\ y.resp = x.resp)
    <2> DEFINE q == StepsOf(rs)
               p == StepsOf(rs')
               r == Due(u)
    <2> SUFFICES GoesOn(y, p) /\ Chains(p)
      OBVIOUS
    <2>1. /\ q \in Seq(Stamped) /\ r \in Stamped
          /\ p = IF r.event.kind = "step" THEN Append(q, r) ELSE q
      <3> HIDE DEF rs, r
      <3>1. QED
        BY <1>7, StepsMore DEF r, Longer
    <2>2. GoesOn(x, q) /\ Chains(q)
      BY <1>2, <1>7
    <2>3. /\ x.pc = "asked" => /\ r.event.kind = "step" /\ r.event.msg = x.resp
                               /\ r.event.key = x.hist
          /\ x.pc # "asked" => r.event.kind # "step"
      BY <1>7, DueSays
    <2>4. x.hist \in Histories
      BY DEF Typed, SessionTyped
    <2> HIDE DEF q, p, r
    <2>5. CASE x.pc = "asked"
      <3>1. q # <<>> => Linked(Last(q), r.event.key)
        BY <2>2, <2>3, <2>5 DEF GoesOn, Taking
      <3>2. Longer(p, q, r)
        BY <2>1, <2>3, <2>5 DEF Longer
      <3>3. Chains(p) /\ p # <<>> /\ Last(p) = r
        BY <2>2, <3>1, <3>2, ChainsMore
      <3>4. y.pc = "dead" \/ (/\ y.pc \in {"end", "tool"} /\ y.resp = x.resp
                              /\ y.hist = Append(x.hist, x.resp))
        BY <1>7, <2>5 DEF Followed
      <3>5. QED
        BY <2>3, <2>5, <3>3, <3>4 DEF GoesOn, Taking
    <2>6. CASE x.pc # "asked"
      <3>1. p = q
        BY <2>1, <2>3, <2>6
      <3>2. CASE y.pc = "dead"
        BY <2>2, <3>1, <3>2 DEF GoesOn, Taking
      <3>3. CASE Followed(u) /\ y.resp = x.resp
        <4>1. CASE x.pc \in {"provenance", "start", "log"}
          BY <2>2, <3>1, <3>3, <4>1 DEF GoesOn, Followed, Begun, Taking
        <4>2. CASE x.pc \in {"snapped", "results"}
          BY <2>2, <3>1, <3>3, <4>2 DEF GoesOn, Followed, Begun, Carried, Taking
        <4>3. CASE x.pc = "done"
          <5>1. y.pc = "results" /\ y.hist = Append(x.hist, Answer(u))
            BY <3>3, <4>3 DEF Followed
          <5>2. /\ x.hist = Append(Last(q).event.key, Last(q).event.msg)
                /\ x.resp = Last(q).event.msg
            BY <2>2, <4>3 DEF GoesOn, Taking
          <5>3. Linked(Last(q), y.hist)
            BY <5>1, <5>2, AnswerIs DEF Linked
          <5>4. QED
            BY <2>2, <3>1, <4>3, <5>1, <5>3 DEF GoesOn, Taking
        <4>4. CASE x.pc = "end"
          BY <2>2, <3>1, <3>3, <4>4 DEF GoesOn, Followed, Taking
        <4>5. QED
          BY <1>7, <2>6, <4>1, <4>2, <4>3, <4>4 DEF Appending
      <3>4. QED
        BY <1>7, <3>2, <3>3
    <2>7. QED
      BY <2>5, <2>6
  <1>8. QED
    BY <1>1, <1>3, <1>4, <1>5, <1>6, <1>7 DEF Turn

-----------------------------------------------------------------------------
(* No request is made twice, and a cached one is answered from the cache *)

Ascends(rs)  == \A i, j \in Steps(rs) : i < j => Len(rs[i].event.key) < Len(rs[j].event.key)
Below(rs, n) == \A i \in Steps(rs) : Len(rs[i].event.key) < n
Agrees(rs, c) == \A i \in Steps(rs) :
                   rs[i].event.key \in DOMAIN c => rs[i].event.msg = c[rs[i].event.key]

Grows(x, rs) ==
  /\ x.pc # "dead" => Below(rs, Len(x.hist))
  /\ x.pc = "asked" /\ x.hist \in DOMAIN x.cache => x.resp = x.cache[x.hist]

Keyed == \A u \in Sessions : Sole(u) =>
           LET rs == Rs(ses[u].out)
           IN Grows(ses[u], rs) /\ Ascends(rs) /\ Agrees(rs, ses[u].cache)

LEMMA KeyedInit == Init => Keyed
  BY DEF Init, Keyed, Idle, Sole, Writers

LEMMA StepsGrow ==
  ASSUME NEW rs, NEW r, NEW rt, Longer(rt, rs, r), NEW n, n = Len(rs)
  PROVE  /\ n \in Nat /\ Steps(rs) \subseteq 1..n /\ rt[n + 1] = r
         /\ \A i \in Steps(rs) : i \in Steps(rt) /\ rt[i] = rs[i]
         /\ \A i \in Steps(rt) : i \in Steps(rs) \/ (i = n + 1 /\ r.event.kind = "step")
  <1>1. /\ rs \in Seq(Stamped) /\ n \in Nat
        /\ Len(rt) = n + 1 /\ rt[n + 1] = r /\ \A i \in 1..n : rt[i] = rs[i]
    BY RecordMore
  <1>2. \A i : i \in 1..n + 1 <=> i \in 1..n \/ i = n + 1
    BY <1>1
  <1>3. QED
    BY <1>1, <1>2 DEF Steps, Places

LEMMA KeyedMore ==
  ASSUME NEW rs, NEW r, NEW rt, Longer(rt, rs, r), Ascends(rs),
         r.event.kind = "step" => Below(rs, Len(r.event.key))
  PROVE  /\ Ascends(rt)
         /\ \A n : Below(rs, n) /\ (r.event.kind = "step" => Len(r.event.key) < n) => Below(rt, n)
         /\ \A c : /\ Agrees(rs, c)
                   /\ r.event.kind = "step" /\ r.event.key \in DOMAIN c => r.event.msg = c[r.event.key]
                   => Agrees(rt, c)
  <1>1. PICK n : n = Len(rs)
    OBVIOUS
  <1>2. /\ n \in Nat /\ Steps(rs) \subseteq 1..n /\ rt[n + 1] = r
        /\ \A i \in Steps(rs) : i \in Steps(rt) /\ rt[i] = rs[i]
        /\ \A i \in Steps(rt) : i \in Steps(rs) \/ (i = n + 1 /\ r.event.kind = "step")
    BY <1>1, StepsGrow
  <1>3. Ascends(rt)
    <2> SUFFICES ASSUME NEW i \in Steps(rt), NEW j \in Steps(rt), i < j
                 PROVE  Len(rt[i].event.key) < Len(rt[j].event.key)
      BY DEF Ascends
    <2>1. i \in Steps(rs)
      <3>1. j \in Nat /\ j <= n + 1
        BY <1>2
      <3>2. n \in Nat /\ i < j
        BY <1>2
      <3>3. i # n + 1
        BY <3>1, <3>2
      <3>4. QED
        BY <1>2, <3>3
    <2>2. CASE j \in Steps(rs)
      BY <1>2, <2>1, <2>2 DEF Ascends
    <2>3. CASE j = n + 1 /\ r.event.kind = "step"
      BY <1>2, <2>1, <2>3 DEF Below
    <2>4. QED
      BY <1>2, <2>2, <2>3
  <1>4. ASSUME NEW k, Below(rs, k), r.event.kind = "step" => Len(r.event.key) < k
        PROVE  Below(rt, k)
    BY <1>2, <1>4 DEF Below
  <1>5. ASSUME NEW c, Agrees(rs, c),
               r.event.kind = "step" /\ r.event.key \in DOMAIN c => r.event.msg = c[r.event.key]
        PROVE  Agrees(rt, c)
    BY <1>2, <1>5 DEF Agrees
  <1>6. QED
    BY <1>3, <1>4, <1>5

LEMMA KeyedNext ==
  ASSUME Typed, Filed, TapesTell, Keyed, [Next]_vars
  PROVE  Keyed'
  <1> SUFFICES ASSUME NEW u \in Sessions, Sole(u)'
               PROVE  /\ Grows(ses'[u], Rs(ses[u].out)') /\ Ascends(Rs(ses[u].out)')
                      /\ Agrees(Rs(ses[u].out)', ses'[u].cache)
    BY DEF Keyed, Ascends, Agrees, Grows, Below, Steps, Places
  <1> DEFINE rs == Rs(ses[u].out)
             x == ses[u]
             y == ses'[u]
  <1>1. Turn(u) /\ y.cache = x.cache
    BY TurnIs
  <1>2. Sole(u) => Grows(x, rs) /\ Ascends(rs) /\ Agrees(rs, x.cache)
    BY DEF Keyed
  <1>3. CASE y.pc \in {"start", "provenance"} /\ rs' = <<>>
    <2>1. Steps(rs') = {}
      BY <1>3, EmptySteps
    <2> HIDE DEF rs
    <2>2. QED
      BY <1>3, <2>1 DEF Grows, Ascends, Below, Agrees, rs
  <1>4. CASE Sole(u) /\ rs' = rs /\ y = x
    BY <1>2, <1>4
  <1>5. CASE Sole(u) /\ rs' = rs /\ Between(u)
    BY <1>1, <1>2, <1>5 DEF Grows, Between, Taking
  <1>6. CASE Sole(u) /\ rs' = rs /\ y.pc = "dead"
    BY <1>1, <1>2, <1>6 DEF Grows
  <1>7. CASE /\ Sole(u) /\ x.pc \in Appending /\ Longer(rs', rs, Due(u))
             /\ y.pc = "dead" \/ (Followed(u) /\ y.resp = x.resp)
    <2> DEFINE rt == rs'
               r  == Due(u)
    <2> SUFFICES Grows(y, rt) /\ Ascends(rt) /\ Agrees(rt, x.cache)
      BY <1>1
    <2>1. Longer(rt, rs, r) /\ Grows(x, rs) /\ Ascends(rs) /\ Agrees(rs, x.cache)
      BY <1>2, <1>7
    <2>2. /\ x.pc = "asked" => /\ r.event.kind = "step" /\ r.event.msg = x.resp
                               /\ r.event.key = x.hist
          /\ x.pc # "asked" => r.event.kind # "step"
      BY <1>7, DueSays
    <2>3. Below(rs, Len(x.hist))
      BY <1>7, <2>1 DEF Grows, Appending
    <2>4. x.hist \in Histories /\ x.resp \in Messages
      BY DEF Typed, SessionTyped
    <2> HIDE DEF rs, rt, r
    <2>5. Ascends(rt) /\ Agrees(rt, x.cache)
      BY <2>1, <2>2, <2>3, KeyedMore DEF Grows
    <2>6. /\ \A n : Below(rs, n) /\ (r.event.kind = "step" => Len(r.event.key) < n) => Below(rt, n)
      BY <2>1, <2>2, <2>3, KeyedMore
    <2>7. ASSUME NEW m \in Messages, Below(rs, Len(x.hist))
          PROVE  Len(Append(x.hist, m)) = Len(x.hist) + 1 /\ Below(rs, Len(x.hist) + 1)
      <3>1. Len(Append(x.hist, m)) = Len(x.hist) + 1 /\ Len(x.hist) \in Nat
        BY <2>4, <2>7 DEF Histories
      <3>2. \A i \in Steps(rs) : Len(rs[i].event.key) \in Nat
        <4>1. rs \in Seq(Stamped)
          BY <2>1 DEF Longer
        <4>2. \A i \in Steps(rs) : rs[i].event.key \in Histories
          BY <4>1, StampedFacts DEF Steps, Places
        <4>3. QED
          BY <4>2 DEF Histories
      <3>3. QED
        BY <2>7, <3>1, <3>2 DEF Below
    <2>8. CASE y.pc = "dead"
      BY <2>5, <2>8 DEF Grows
    <2>9. CASE Followed(u) /\ y.resp = x.resp
      <3>1. CASE x.pc = "asked"
        <4>1. y.hist = Append(x.hist, x.resp) /\ y.pc \in {"end", "tool"}
          BY <2>9, <3>1 DEF Followed
        <4>2. Len(y.hist) = Len(x.hist) + 1 /\ Below(rs, Len(x.hist) + 1)
          BY <2>3, <2>4, <2>7, <4>1
        <4>3. Len(r.event.key) < Len(x.hist) + 1
          BY <2>2, <2>4, <3>1 DEF Histories
        <4>4. Below(rt, Len(x.hist) + 1)
          BY <2>6, <4>2, <4>3
        <4>5. QED
          BY <2>5, <4>1, <4>2, <4>4 DEF Grows
      <3>2. CASE x.pc = "done"
        <4>1. y.hist = Append(x.hist, Answer(u)) /\ y.pc = "results"
          BY <2>9, <3>2 DEF Followed
        <4>2. Len(y.hist) = Len(x.hist) + 1 /\ Below(rs, Len(x.hist) + 1)
          BY <2>3, <2>7, <4>1, AnswerIs
        <4>3. Below(rt, Len(x.hist) + 1)
          BY <2>2, <2>6, <3>2, <4>2
        <4>4. QED
          BY <2>5, <4>1, <4>2, <4>3 DEF Grows
      <3>3. CASE x.pc \notin {"asked", "done"}
        <4>1. y.hist = x.hist /\ y.pc # "asked"
          BY <1>7, <2>9, <3>3 DEF Followed, Carried, Begun, Appending
        <4>2. Below(rt, Len(x.hist))
          BY <2>2, <2>3, <2>6, <3>3
        <4>3. QED
          BY <2>5, <4>1, <4>2 DEF Grows
      <3>4. QED
        BY <3>1, <3>2, <3>3
    <2>10. QED
      BY <1>7, <2>8, <2>9
  <1>8. QED
    BY <1>1, <1>3, <1>4, <1>5, <1>6, <1>7 DEF Turn

-----------------------------------------------------------------------------
(* A fork with nothing changed starts from the history before its step *)

\* t wrote the tape that s forks, and was through when s was planned.
Forks(s, t) ==
  /\ ses[s].cmd.kind = "fork" /\ ses[s].cmd.edit = "none" /\ ses[s].pc \notin {"idle", "refused"}
  /\ Sole(t) /\ ses[t].out = ses[s].src /\ t \notin ses[s].beside

Starting == Taking \cup {"provenance", "start", "log", "snapped", "ask", "asked"}

\* Its first request is that history.
Heads(x, q, h) == IF q = <<>> THEN x.pc \in Starting => x.hist = h ELSE q[1].event.key = h

ForkedFrom(s, rt) ==
  LET x == ses[s]  h == HistoryBefore(rt, ses[s].cmd.at)
  IN /\ x.cache = CacheOf(rt)
     /\ x.pc \in Planning => x.hist = h
     /\ Sole(s) => Heads(x, StepsOf(Rs(x.out)), h)

Forked == \A s, t \in Sessions : Forks(s, t) =>
            ses[t].pc \in Ended /\ ForkedFrom(s, Rs(ses[t].out))

LEMMA ForkedInit == Init => Forked
  BY DEF Init, Forked, Forks, Idle

\* A plan's history stays what it is until the tape is opened.
LEMMA PlansStay ==
  ASSUME Typed, [Next]_vars, NEW s \in Sessions, ses[s].pc # "idle", ses'[s].pc \in Planning
  PROVE  ses[s].pc \in Planning /\ ses'[s].hist = ses[s].hist
  <1>1. CASE UNCHANGED vars
    BY <1>1 DEF vars
  <1>2. ASSUME NEW u \in Sessions,
               \/ Started(u) \/ Copies(u) \/ Decide(u) \/ Open(u) \/ Put(u)
               \/ Ask(u) \/ Tool(u) \/ Crash(u)
        PROVE  ses[s].pc \in Planning /\ ses'[s].hist = ses[s].hist
    <2>1. CASE u = s
      <3>1. ~Started(s)
        BY StartedAs DEF Birth
      <3>2. ~Put(s)
        BY MoverFacts DEF Live, Taking, Appending, Planning, Restoring
      <3>3. CASE Copies(s)
        <4>1. Still(s) /\ Ways(s)
          BY <3>3, MoveFacts
        <4>2. ses[s].pc \in Restoring
          BY <4>1 DEF Ways, Taking, Planning, Restoring
        <4>3. QED
          BY <4>1, <4>2 DEF Planning, Still
      <3>4. QED
        BY <1>2, <2>1, <3>1, <3>2, <3>3, MoveFacts DEF Planning, Restoring, Still
    <2>2. CASE u # s
      <3>1. Others(u)
        BY <1>2, MoveFacts, StartedAs DEF Birth, NewBorn, Moves
      <3>2. QED
        BY <2>2, <3>1 DEF Others
    <2>3. QED
      BY <2>1, <2>2
  <1>3. QED
    BY <1>1, <1>2, NextActions

\* The tape of a process that is through does not change.
LEMMA EndedTape ==
  ASSUME Typed, Filed, TapesTell, [Next]_vars, NEW t \in Sessions, Sole(t)', ses[t].pc \in Ended
  PROVE  ses'[t] = ses[t] /\ Rs(ses[t].out)' = Rs(ses[t].out)
  <1>1. Turn(t)
    BY TurnIs
  <1>2. ses'[t] = ses[t]
    BY GivenStays
  <1>3. QED
    BY <1>1, <1>2 DEF Turn, Ended, Appending

LEMMA HeadsNext ==
  ASSUME Typed, Filed, TapesTell, Chained, [Next]_vars, NEW s \in Sessions, Sole(s)',
         NEW h, ses[s].pc \in Planning => ses[s].hist = h,
         Sole(s) => Heads(ses[s], StepsOf(Rs(ses[s].out)), h)
  PROVE  Heads(ses'[s], StepsOf(Rs(ses[s].out)'), h)
  <1> DEFINE rs == Rs(ses[s].out)
             x == ses[s]
             y == ses'[s]
  <1>1. Turn(s)
    BY TurnIs
  <1>2. CASE x.pc = "open" /\ y.hist = x.hist /\ rs' = <<>>
    BY <1>2, EmptyStepsOf DEF Heads, Planning, Restoring
  <1>3. CASE Sole(s) /\ rs' = rs /\ y = x
    BY <1>3
  <1>4. CASE Sole(s) /\ rs' = rs /\ Between(s)
    BY <1>4 DEF Heads, Between, Starting, Taking
  <1>5. CASE Sole(s) /\ rs' = rs /\ y.pc = "dead"
    BY <1>5 DEF Heads, Starting, Taking
  <1>6. CASE /\ Sole(s) /\ x.pc \in Appending /\ Longer(rs', rs, Due(s))
             /\ y.pc = "dead" \/ (Followed(s) /\ y.resp = x.resp)
    <2> DEFINE q == StepsOf(rs)
               p == StepsOf(rs')
               r == Due(s)
    <2> SUFFICES Heads(y, p, h)
      OBVIOUS
    <2>1. /\ q \in Seq(Stamped) /\ r \in Stamped
          /\ p = IF r.event.kind = "step" THEN Append(q, r) ELSE q
      <3> HIDE DEF rs, r
      <3>1. QED
        BY <1>6, StepsMore DEF r, Longer
    <2>2. Heads(x, q, h) /\ GoesOn(x, q)
      BY <1>6 DEF Chained
    <2>3. /\ x.pc = "asked" => r.event.kind = "step" /\ r.event.key = x.hist
          /\ x.pc # "asked" => r.event.kind # "step"
      BY <1>6, DueSays
    <2> HIDE DEF q, p, r
    <2>4. CASE x.pc = "asked"
      <3>1. p = Append(q, r)
        BY <2>1, <2>3, <2>4
      <3>2. CASE q = <<>>
        <4>1. p # <<>> /\ p[1] = r
          BY <2>1, <3>1, <3>2
        <4>2. QED
          BY <2>2, <2>3, <2>4, <3>2, <4>1 DEF Heads, Starting, Taking
      <3>3. CASE q # <<>>
        <4>1. p # <<>> /\ p[1] = q[1]
          <5>1. PICK n : n = Len(q)
            OBVIOUS
          <5>2. n \in Nat /\ n # 0
            BY <2>1, <3>3, <5>1, EmptySeq
          <5>3. Longer(p, q, r)
            BY <2>1, <3>1 DEF Longer
          <5>4. Len(p) = n + 1 /\ \A i \in 1..n : p[i] = q[i]
            BY <5>1, <5>3, RecordMore
          <5>5. QED
            BY <5>2, <5>4
        <4>2. QED
          BY <2>2, <3>3, <4>1 DEF Heads
      <3>4. QED
        BY <3>2, <3>3
    <2>5. CASE x.pc # "asked"
      <3>1. p = q
        BY <2>1, <2>3, <2>5
      <3>2. CASE y.pc = "dead"
        BY <2>2, <3>1, <3>2 DEF Heads, Starting, Taking
      <3>3. CASE Followed(s) /\ y.resp = x.resp
        <4>1. CASE x.pc \in {"provenance", "start", "log", "snapped"}
          <5>1. y.hist = x.hist /\ x.pc \in Starting
            BY <3>3, <4>1 DEF Followed, Carried, Starting, Taking
          <5>2. QED
            BY <2>2, <3>1, <5>1 DEF Heads
        <4>2. CASE x.pc \in {"done", "results"}
          BY <2>2, <3>1, <4>2 DEF Heads, GoesOn, Taking
        <4>3. CASE x.pc = "end"
          BY <2>2, <3>1, <3>3, <4>3 DEF Heads, Followed, Starting, Taking
        <4>4. QED
          BY <1>6, <2>5, <4>1, <4>2, <4>3 DEF Appending
      <3>4. QED
        BY <1>6, <3>2, <3>3
    <2>6. QED
      BY <2>4, <2>5
  <1>7. QED
    BY <1>1, <1>2, <1>3, <1>4, <1>5, <1>6 DEF Turn

LEMMA ForkedNext ==
  ASSUME Typed, Filed, Naming, TapesTell, Chained, Forked, [Next]_vars
  PROVE  Forked'
  <1> SUFFICES ASSUME NEW s \in Sessions, NEW t \in Sessions, Forks(s, t)'
               PROVE  ses'[t].pc \in Ended /\ ForkedFrom(s, Rs(ses[t].out))'
    BY DEF Forked
  <1>1. /\ ses'[s].cmd.kind = "fork" /\ ses'[s].cmd.edit = "none"
        /\ ses'[s].pc \notin {"idle", "refused"} /\ Sole(t)' /\ ses'[t].out = ses'[s].src
        /\ t \notin ses'[s].beside
    BY DEF Forks
  <1>2. SoleStep(t) /\ ses'[t].out = ses[t].out
    BY <1>1, SoleSteps
  <1> DEFINE rt == Rs(ses[t].out)
  <1>3. SUFFICES /\ ses'[t].pc \in Ended
                 /\ ses'[s].cache = CacheOf(rt')
                 /\ ses'[s].pc \in Planning => ses'[s].hist = HistoryBefore(rt', ses'[s].cmd.at)
                 /\ Sole(s)' => Heads(ses'[s], StepsOf(Rs(ses[s].out)'),
                                      HistoryBefore(rt', ses'[s].cmd.at))
    BY DEF ForkedFrom, Heads, HistoryBefore, Told, StepsOf, Steps, Places, CacheOf
  <1>4. CASE ses[s].pc # "idle"
    <2>1. /\ ses[s].cmd = ses'[s].cmd /\ ses[s].src = ses'[s].src /\ ses[s].cache = ses'[s].cache
          /\ ses[s].beside = ses'[s].beside /\ ses[s].out = ses'[s].out /\ ses[s].pc # "refused"
      BY <1>1, <1>4, GivenStays DEF Ended
    <2>2. Sole(t)
      BY <1>1, <1>4, <2>1, SourceStays
    <2>3. Forks(s, t)
      BY <1>1, <1>2, <1>4, <2>1, <2>2 DEF Forks
    <2>4. ses[t].pc \in Ended /\ ForkedFrom(s, rt)
      BY <2>3 DEF Forked
    <2>5. ses'[t] = ses[t] /\ rt' = rt
      BY <1>1, <2>4, EndedTape
    <2>6. PICK h : h = HistoryBefore(rt, ses[s].cmd.at)
      OBVIOUS
    <2>7. /\ ses[s].cache = CacheOf(rt) /\ (ses[s].pc \in Planning => ses[s].hist = h)
          /\ Sole(s) => Heads(ses[s], StepsOf(Rs(ses[s].out)), h)
      BY <2>4, <2>6 DEF ForkedFrom
    <2>8. Sole(s)' => Heads(ses'[s], StepsOf(Rs(ses[s].out)'), h)
      BY <2>7, HeadsNext
    <2>9. ses'[s].pc \in Planning => ses'[s].hist = h
      BY <1>4, <2>7, PlansStay
    <2> HIDE DEF rt
    <2>10. QED
      BY <2>1, <2>4, <2>5, <2>6, <2>7, <2>8, <2>9
  <1>5. CASE ses[s].pc = "idle"
    <2>1. Started(s)
      BY <1>1, <1>5, GivenStays
    <2>2. NewBorn(s) /\ Others(s) /\ files' = files
      BY <2>1, StartedAs DEF Birth, NewBorn
    <2>3. PICK c \in Commands[s], src \in DOMAIN files : c.kind = "fork" /\ ForkPlanned(s, c, src)
      <3>1. ASSUME NEW c \in Commands[s], Run(s, c)
            PROVE  FALSE
        BY <1>1, <3>1, RunFacts DEF Run
      <3>2. ASSUME NEW c \in Commands[s], NEW src \in DOMAIN files, c.kind = "resume", ResumePlanned(s, c, src)
            PROVE  FALSE
        BY <1>1, <3>2 DEF ResumePlanned
      <3>3. QED
        BY <1>1, <2>1, <3>1, <3>2, StartedAs
    <2>4. t # s /\ ~Sole(s)'
      <3>1. ses'[t].handle
        BY <1>1, SoleFacts
      <3>2. ~ses'[s].handle
        BY <2>2 DEF NewBorn
      <3>3. QED
        BY <3>1, <3>2, SoleFacts
    <2>5. ses'[t] = ses[t] /\ Sole(t)
      <3>1. ses'[t] = ses[t]
        BY <2>2, <2>4 DEF Others
      <3>2. ~Open(t)
        <4>1. Open(t) => ses'[t].pc # ses[t].pc
          BY MoverFacts
        <4>2. QED
          BY <3>1, <4>1
      <3>3. QED
        BY <1>2, <3>1, <3>2 DEF SoleStep
    <2>6. ses'[t].pc \in Ended
      <3>1. t \notin Running
        BY <1>1, <2>2 DEF NewBorn
      <3>2. ses[t].pc \in Live \cup {"over", "dead"}
        BY <2>5, SoleFacts DEF Filed
      <3>3. QED
        BY <2>5, <3>1, <3>2 DEF Running, Live, Taking, Appending
    <2>7. rt' = rt
      BY <2>2, <2>5 DEF Rs, FileOf
    <2>8. /\ src = ses[t].out /\ ses'[s].cmd = c /\ ses'[s].cache = CacheOf(rt)
          /\ ses'[s].hist = Edited(s, c, HistoryBefore(rt, c.at))
      BY <1>1, <1>2, <2>3 DEF ForkPlanned
    <2>9. Edited(s, c, HistoryBefore(rt, c.at)) = HistoryBefore(rt, c.at)
      BY <1>1, <2>8 DEF Edited
    <2> HIDE DEF rt
    <2>10. QED
      BY <2>4, <2>6, <2>7, <2>8, <2>9
  <1>6. QED
    BY <1>4, <1>5

-----------------------------------------------------------------------------
(* The rest of a tape, and where two of them part *)

\* A step on a tape is one of its records.
LEMMA StepsAre ==
  ASSUME NEW rs \in Seq(Stamped), NEW i \in 1..Len(StepsOf(rs))
  PROVE  \E j \in Steps(rs) : StepsOf(rs)[i] = rs[j]
  <1> DEFINE U == {rs[j] : j \in Steps(rs)}
  <1>1. Len(rs) \in Nat /\ \A j \in 1..Len(rs) : j \in Steps(rs) => rs[j] \in U
    OBVIOUS
  <1> HIDE DEF U
  <1>2. StepsOf(rs) \in Seq(U)
    BY <1>1, OnlyTyped DEF StepsOf
  <1>3. StepsOf(rs)[i] \in U
    BY <1>2
  <1>4. QED
    BY <1>3 DEF U

LEMMA StepsOfTyped ==
  ASSUME NEW rs \in Seq(Stamped)
  PROVE  StepsOf(rs) \in Seq(Stamped)
  <1>1. Len(rs) \in Nat /\ \A j \in 1..Len(rs) : rs[j] \in Stamped
    OBVIOUS
  <1>2. QED
    BY <1>1, OnlyTyped DEF StepsOf

LEMMA RestOf ==
  ASSUME NEW all \in Seq(Stamped), NEW at \in Nat, NEW b, b = SubSeq(all, at + 1, Len(all))
  PROVE  /\ b \in Seq(Stamped)
         /\ \A i \in Nat : i < Len(b) => at + i < Len(all) /\ b[i + 1] = all[at + i + 1]
  <1>1. PICK n \in Nat : n = Len(all)
    OBVIOUS
  <1>2. CASE at < n
    <2>1. b = [i \in 1..n - at |-> all[at + i]]
      BY <1>1, <1>2
    <2>2. \A i \in 1..n - at : all[at + i] \in Stamped
      BY <1>1, <1>2
    <2>3. n - at \in Nat
      BY <1>1, <1>2
    <2>4. b \in Seq(Stamped) /\ Len(b) = n - at
      BY <2>1, <2>2, <2>3
    <2>5. QED
      BY <1>1, <1>2, <2>1, <2>4
  <1>3. CASE ~(at < n)
    <2>1. b = <<>>
      BY <1>1, <1>3
    <2>2. QED
      BY <2>1
  <1>4. QED
    BY <1>2, <1>3

\* The first request in which they differ, or after which one has ended.
LEMMA DivergedIs ==
  ASSUME NEW a \in Seq(Stamped), NEW b \in Seq(Stamped), NEW d, d = Diverged(a, b)
  PROVE  /\ d \in Nat \cup {None}
         /\ \A i \in Nat : i < (IF d = None THEN Len(a) ELSE d) =>
              i < Len(a) /\ i < Len(b) /\ a[i + 1].event.key = b[i + 1].event.key
         /\ d # None /\ d < Len(a) /\ d < Len(b) => a[d + 1].event.key # b[d + 1].event.key
  <1> DEFINE D == {i \in Nat : i >= Len(a) \/ i >= Len(b) \/ a[i + 1].event.key # b[i + 1].event.key}
             ends == {i \in 0..Max({Len(a), Len(b)}) - 1 :
                        i >= Len(a) \/ i >= Len(b) \/ a[i + 1].event.key # b[i + 1].event.key}
  <1>1. Len(a) \in Nat /\ Len(b) \in Nat
    OBVIOUS
  <1>2. PICK m : m = Max({Len(a), Len(b)})
    OBVIOUS
  <1>3. m \in Nat /\ m >= Len(a) /\ m >= Len(b)
    <2>1. \E x \in {Len(a), Len(b)} : \A y \in {Len(a), Len(b)} : x >= y
      BY <1>1
    <2>2. m \in {Len(a), Len(b)} /\ \A y \in {Len(a), Len(b)} : m >= y
      BY <1>2, <2>1 DEF Max
    <2>3. QED
      BY <1>1, <2>2
  <1>4. d = IF ends = {} THEN None ELSE Min(ends)
    BY DEF Diverged
  <1>5. ends = {i \in 0..m - 1 : i \in D}
    BY <1>2, <1>3
  <1>6. \A i \in Nat : i \notin D => i < Len(a) /\ i < Len(b) /\ a[i + 1].event.key = b[i + 1].event.key
    BY <1>1
  <1>7. \A i \in D : i < Len(a) /\ i < Len(b) => a[i + 1].event.key # b[i + 1].event.key
    BY <1>1
  <1> HIDE DEF D, ends
  <1>8. ends \subseteq Nat /\ \A i \in Nat : i \in ends <=> i < m /\ i \in D
    BY <1>3, <1>5
  <1>9. CASE ends = {}
    <2>1. d = None
      BY <1>4, <1>9
    <2>2. ASSUME NEW i \in Nat, i < Len(a)
          PROVE  i \notin D
      BY <1>1, <1>3, <1>8, <1>9, <2>2
    <2>3. QED
      BY <1>6, <2>1, <2>2
  <1>10. CASE ends # {}
    <2>1. PICK e \in ends : \A k \in ends : e <= k
      BY <1>8, <1>10, LeastNumber
    <2>2. \E x \in ends : \A y \in ends : x <= y
      BY <2>1
    <2>3. d \in ends /\ \A k \in ends : d <= k
      BY <1>4, <1>10, <2>2 DEF Min
    <2>4. d \in Nat /\ d \in D /\ d < m
      BY <1>8, <2>3
    <2>5. ASSUME NEW i \in Nat, i < d
          PROVE  i \notin D
      <3>1. i \notin ends
        BY <2>3, <2>4, <2>5
      <3>2. i < m
        BY <1>3, <2>4, <2>5
      <3>3. QED
        BY <1>8, <3>1, <3>2
    <2>6. d # None
      BY <2>4 DEF None
    <2>7. QED
      BY <1>6, <1>7, <2>4, <2>5, <2>6
  <1>11. QED
    BY <1>9, <1>10

\* Two steps that ask for the same get the same, if one is cached from the other's tape.
LEMMA SameAnswer ==
  ASSUME NEW rs \in Seq(Stamped), NEW rt \in Seq(Stamped), Ascends(rt), Agrees(rs, CacheOf(rt)),
         NEW i \in 1..Len(StepsOf(rs)), NEW j \in 1..Len(StepsOf(rt)),
         StepsOf(rs)[i].event.key = StepsOf(rt)[j].event.key
  PROVE  StepsOf(rs)[i].event.msg = StepsOf(rt)[j].event.msg
  <1>1. PICK m \in Steps(rs) : StepsOf(rs)[i] = rs[m]
    BY StepsAre
  <1>2. PICK n \in Steps(rt) : StepsOf(rt)[j] = rt[n]
    BY StepsAre
  <1>3. PICK k : k = rt[n].event.key
    OBVIOUS
  <1>4. k \in DOMAIN CacheOf(rt)
    BY <1>2, <1>3, CacheHolds
  <1>5. PICK l \in Steps(rt) : rt[l].event.key = k /\ CacheOf(rt)[k] = rt[l].event.msg
    BY <1>4, CacheHolds DEF LastOf
  <1>6. l = n
    <2>1. l \in Nat /\ n \in Nat
      BY DEF Steps, Places
    <2>2. Len(k) \in Nat
      <3>1. rt[n].event.key \in Histories
        BY StampedFacts DEF Steps, Places
      <3>2. QED
        BY <1>3, <3>1 DEF Histories
    <2>3. ~(l < n) /\ ~(n < l)
      BY <1>3, <1>5, <2>2 DEF Ascends
    <2>4. QED
      BY <2>1, <2>3
  <1>7. rs[m].event.msg = CacheOf(rt)[k]
    BY <1>1, <1>2, <1>3, <1>4 DEF Agrees
  <1>8. QED
    BY <1>1, <1>2, <1>5, <1>6, <1>7

\* Two that go on from the same step ask for the same, unless a tool read.
LEMMA SameRequest ==
  ASSUME NEW x \in Stamped, NEW y \in Stamped, NEW h, NEW g, Linked(x, h), Linked(y, g),
         x.event.key = y.event.key, x.event.msg = y.event.msg, x.event.msg.act # "read"
  PROVE  h = g
  <1>1. PICK m \in Messages : /\ h = Append(Append(x.event.key, x.event.msg), m)
                              /\ AnswerTo(x.event.msg, m)
    BY DEF Linked
  <1>2. PICK n \in Messages : /\ g = Append(Append(y.event.key, y.event.msg), n)
                              /\ AnswerTo(y.event.msg, n)
    BY DEF Linked
  <1>3. PICK r : r = x.event.msg
    OBVIOUS
  <1>4. m = n
    BY <1>1, <1>2, <1>3, OneAnswer
  <1>5. QED
    BY <1>1, <1>2, <1>4

LEMMA RepeatsFrom ==
  ASSUME Typed, Filed, TapesTell, Requested, Chained, Keyed, Forked
  PROVE  ForkRepeatsRest
  <1> SUFFICES ASSUME NEW s \in Sessions, NEW t \in Sessions,
                      ses[s].cmd.kind = "fork", ses[s].cmd.edit = "none", Sole(s), Sole(t),
                      ses[s].src = ses[t].out, t \notin ses[s].beside
               PROVE  LET a == StepsOf(Rs(ses[s].out))
                          all == StepsOf(Rs(ses[t].out))
                          b == SubSeq(all, ses[s].cmd.at + 1, Len(all))
                          d == Diverged(a, b)
                          to == IF d = None THEN Len(a) ELSE d
                      IN /\ \A i \in 1..to : a[i].event.msg = b[i].event.msg
                         /\ d # None /\ d < Len(a) /\ d < Len(b) =>
                              \E i \in 1..d : a[i].event.msg.act = "read"
    BY DEF ForkRepeatsRest
  <1>1. PICK rs : rs = Rs(ses[s].out)
    OBVIOUS
  <1>2. PICK rt : rt = Rs(ses[t].out)
    OBVIOUS
  <1>3. PICK at : at = ses[s].cmd.at
    OBVIOUS
  <1> DEFINE a   == StepsOf(rs)
             all == StepsOf(rt)
             b   == SubSeq(all, at + 1, Len(all))
             d   == Diverged(a, b)
             h   == HistoryBefore(rt, at)
  <1>4. rs \in Seq(Stamped) /\ rt \in Seq(Stamped)
    BY <1>1, <1>2, SoleLength
  <1>5. ses[s].pc \in Live \cup {"over", "dead"}
    BY SoleFacts DEF Filed
  <1>6. at \in Nat
    <2>1. ses[s].cmd \in Commands[s]
      BY <1>5 DEF Live, Taking, Appending, Typed, SessionTyped
    <2>2. QED
      BY <1>3, <2>1, LineageAssumption
  <1>7. ForkedFrom(s, rt)
    <2>1. Forks(s, t)
      BY <1>5 DEF Forks, Live, Taking, Appending
    <2>2. QED
      BY <1>2, <2>1 DEF Forked
  <1>8. ses[s].cache = CacheOf(rt) /\ (a # <<>> => a[1].event.key = h)
    BY <1>1, <1>3, <1>7 DEF ForkedFrom, Heads
  <1>9. Agrees(rs, CacheOf(rt)) /\ Ascends(rt)
    BY <1>1, <1>2, <1>8 DEF Keyed
  <1>10. Chains(a) /\ Chains(all)
    BY <1>1, <1>2 DEF Chained
  <1>11. \A n \in Nat : n < Len(all) => all[n + 1].event.key = HistoryBefore(rt, n)
    BY <1>2 DEF Requested, Requests
  <1>12. a \in Seq(Stamped) /\ all \in Seq(Stamped)
    BY <1>4, StepsOfTyped
  <1>13. \A i \in 1..Len(a), j \in 1..Len(all) :
           a[i].event.key = all[j].event.key => a[i].event.msg = all[j].event.msg
    BY <1>4, <1>9, SameAnswer
  <1> HIDE DEF a, all, h
  <1>14. /\ b \in Seq(Stamped)
         /\ \A i \in Nat : i < Len(b) => at + i < Len(all) /\ b[i + 1] = all[at + i + 1]
    BY <1>6, <1>12, RestOf
  <1> HIDE DEF b, d
  <1>15. /\ d \in Nat \cup {None}
         /\ \A i \in Nat : i < (IF d = None THEN Len(a) ELSE d) =>
              i < Len(a) /\ i < Len(b) /\ a[i + 1].event.key = b[i + 1].event.key
         /\ d # None /\ d < Len(a) /\ d < Len(b) => a[d + 1].event.key # b[d + 1].event.key
    BY <1>12, <1>14, DivergedIs DEF d
  <1>16. Len(a) \in Nat /\ Len(b) \in Nat /\ Len(all) \in Nat
    BY <1>12, <1>14
  <1> DEFINE to == IF d = None THEN Len(a) ELSE d
  <1>17. to \in Nat
    BY <1>15, <1>16
  <1>18. ASSUME NEW i \in 1..to
         PROVE  /\ i \in 1..Len(a) /\ i \in 1..Len(b) /\ at + i \in 1..Len(all) /\ b[i] = all[at + i]
                /\ a[i].event.key = b[i].event.key /\ a[i].event.msg = b[i].event.msg
    <2>1. PICK n \in Nat : i = n + 1 /\ n < to
      <3>1. i - 1 \in Nat /\ i = (i - 1) + 1 /\ i - 1 < to
        BY <1>17
      <3>2. QED
        BY <3>1
    <2>2. n < Len(a) /\ n < Len(b) /\ a[n + 1].event.key = b[n + 1].event.key
      BY <1>15, <2>1
    <2>3. at + n < Len(all) /\ b[n + 1] = all[at + n + 1]
      BY <1>14, <2>1, <2>2
    <2>4. i \in 1..Len(a) /\ i \in 1..Len(b) /\ at + i \in 1..Len(all) /\ at + n + 1 = at + i
      BY <1>6, <1>16, <2>1, <2>2, <2>3
    <2>5. b[i] = all[at + i] /\ a[i].event.key = b[i].event.key
      BY <2>1, <2>2, <2>3, <2>4
    <2>6. a[i].event.msg = b[i].event.msg
      BY <1>13, <2>4, <2>5
    <2>7. QED
      BY <2>4, <2>5, <2>6
  <1>19. ASSUME d # None, d < Len(a), d < Len(b), \A i \in 1..d : a[i].event.msg.act # "read"
         PROVE  FALSE
    <2>1. d \in Nat /\ to = d /\ a[d + 1].event.key # b[d + 1].event.key
      BY <1>15, <1>19
    <2>2. at + d < Len(all) /\ b[d + 1] = all[at + d + 1]
      BY <1>14, <1>19, <2>1
    <2>3. CASE d = 0
      <3>1. a # <<>> /\ a[1].event.key = h
        BY <1>8, <1>19, <2>3
      <3>2. b[1].event.key = h
        BY <1>6, <1>11, <2>2, <2>3 DEF h
      <3>3. QED
        BY <2>1, <2>3, <3>1, <3>2
    <2>4. CASE d # 0
      <3>1. d \in 1..to
        BY <2>1, <2>4
      <3>2. Linked(a[d], a[d + 1].event.key)
        BY <1>10, <1>19, <2>1, <2>4 DEF Chains
      <3>3. Linked(b[d], b[d + 1].event.key)
        <4>1. Linked(all[at + d], all[at + d + 1].event.key)
          BY <1>6, <1>10, <2>1, <2>2, <2>4 DEF Chains
        <4>2. b[d] = all[at + d]
          BY <1>18, <3>1
        <4>3. QED
          BY <2>2, <4>1, <4>2
      <3>4. /\ a[d].event.key = b[d].event.key /\ a[d].event.msg = b[d].event.msg
            /\ a[d] \in Stamped /\ b[d] \in Stamped
        BY <1>12, <1>14, <1>18, <3>1
      <3>5. a[d].event.msg.act # "read"
        BY <1>19, <2>1, <2>4
      <3>6. QED
        BY <2>1, <3>2, <3>3, <3>4, <3>5, SameRequest
    <2>5. QED
      BY <2>3, <2>4
  <1>20. /\ \A i \in 1..to : a[i].event.msg = b[i].event.msg
         /\ d # None /\ d < Len(a) /\ d < Len(b) => \E i \in 1..d : a[i].event.msg.act = "read"
    BY <1>18, <1>19
  <1>21. QED
    BY <1>1, <1>2, <1>3, <1>20 DEF a, all, b, d

-----------------------------------------------------------------------------
(* Which of them are a session's own, and when it took its snapshots *)

OwnWritesDated(t) == \A i \in OwnWrites(t) :
  Rs(ses[t].out)[i].event.msg.id = <<t, Rs(ses[t].out)[i].event.step>>

SnapsDated(t) == \A i \in Places(Rs(ses[t].out), {"snapshot"}) :
  /\ Rs(ses[t].out)[i].event.step <= ses[t].step
  /\ ses[t].pc \in Taking \cup {"snapped"} => Rs(ses[t].out)[i].event.step < ses[t].step
  /\ ses[t].pc \notin {"provenance", "start", "log"}

Dated ==
  \A t \in Sessions :
    /\ \A k \in DOMAIN ses[t].cache : ses[t].cache[k].id[1] # t
    /\ ses[t].pc \in {"asked", "tool", "done"} /\ ses[t].resp.id[1] = t =>
         ses[t].resp.id = <<t, ses[t].step>>
    /\ Sole(t) => OwnWritesDated(t) /\ SnapsDated(t)

LEMMA DatedInit == Init => Dated
  BY IdleFacts DEF Init, Dated, Sole, Writers

\* What is cached when a session starts is not its own.
LEMMA BornForeign ==
  ASSUME Typed, Filed, Fresh, NEW s \in Sessions, Started(s)
  PROVE  \A k \in DOMAIN ses'[s].cache : ses'[s].cache[k].id[1] # s
  <1>1. ses[s].pc = "idle" /\ ses[s] = Idle
    BY StartedAs, MoverFacts DEF Birth
  <1>2. \A j \in Nat : ~Past(s, j)
    BY <1>1, IdleFacts DEF Past, Answering, Ended
  <1>3. \A id \in Asked : id[1] # s
    BY <1>2 DEF Asked, Ids
  <1>4. ASSUME NEW c \in Commands[s], NEW src \in DOMAIN files, ForkPlanned(s, c, src)
        PROVE  \A k \in DOMAIN ses'[s].cache : ses'[s].cache[k].id[1] # s
    <2>1. PICK f : f = files[src]
      OBVIOUS
    <2>2. f \in Seq(Lines) /\ f \in Seq(LinesOf(Asked))
      BY <2>1 DEF Typed, Fresh
    <2>3. ses'[s].cache = CacheOf(Records(f))
      BY <1>4, <2>1 DEF ForkPlanned, Rs, FileOf
    <2>4. QED
      BY <1>3, <2>2, <2>3, CacheIn
  <1>5. ses'[s].cache = NoCache \/ \E c \in Commands[s], src \in DOMAIN files : ForkPlanned(s, c, src)
    <2>1. \A c \in Commands[s] : Run(s, c) => ses'[s].cache = NoCache
      BY RunFacts
    <2>2. \A c \in Commands[s], src \in DOMAIN files : ResumePlanned(s, c, src) => ses'[s].cache = NoCache
      BY DEF ResumePlanned
    <2>3. \A c \in Commands[s], src \in DOMAIN files : Fails(s, c, src) => ses'[s].cache = NoCache
      BY <1>1, FailsFacts
    <2>4. QED
      BY <2>1, <2>2, <2>3, StartedAs
  <1>6. QED
    BY <1>4, <1>5, IdleFacts

LEMMA RespDated ==
  ASSUME Typed, Filed, Fresh, Dated, [Next]_vars, NEW t \in Sessions
  PROVE  /\ \A k \in DOMAIN ses'[t].cache : ses'[t].cache[k].id[1] # t
         /\ ses'[t].pc \in {"asked", "tool", "done"} /\ ses'[t].resp.id[1] = t =>
              ses'[t].resp.id = <<t, ses'[t].step>>
  <1> DEFINE Done == /\ \A k \in DOMAIN ses'[t].cache : ses'[t].cache[k].id[1] # t
                     /\ ses'[t].pc \in {"asked", "tool", "done"} /\ ses'[t].resp.id[1] = t =>
                          ses'[t].resp.id = <<t, ses'[t].step>>
  <1>1. ses'[t] = ses[t] => Done
    BY DEF Dated
  <1>2. CASE UNCHANGED vars
    BY <1>1, <1>2 DEF vars
  <1>3. ASSUME NEW s \in Sessions,
               \/ Started(s) \/ Copies(s) \/ Decide(s) \/ Open(s) \/ Put(s)
               \/ Ask(s) \/ Tool(s) \/ Crash(s)
        PROVE  Done
    <2>1. CASE t # s
      BY <1>1, <1>3, <2>1, MoveFacts, StartedAs DEF Birth, NewBorn, Moves, Others
    <2>2. CASE t = s
      <3>1. CASE Started(s)
        <4>1. ses'[s].pc \in {"open", "refused", "decide", "wipe"}
          BY <3>1, StartedAs DEF Birth
        <4>2. QED
          BY <2>2, <3>1, <4>1, BornForeign
      <3>2. CASE ~Started(s)
        <4>1. Moves(s)
          BY <1>3, <3>2, MoveFacts
        <4>2. \A k \in DOMAIN ses'[t].cache : ses'[t].cache[k].id[1] # t
          BY <2>2, <4>1 DEF Moves, Fixed, Dated
        <4>3. CASE Ask(s)
          <5>1. \A a : Msg("model", <<s, ses[s].step>>, a, {}).id = <<s, ses[s].step>>
            BY DEF Msg
          <5>2. QED
            BY <2>2, <4>2, <4>3, <5>1, MoveFacts DEF Dated
        <4>4. CASE Put(s)
          <5>1. ses'[s].pc \in {"asked", "tool", "done"} =>
                  ses'[s].step = ses[s].step /\ ses[s].pc = "asked" /\ ses'[s].resp = ses[s].resp
            BY <4>4, MoveFacts DEF Followed, Carried, Begun, Appending
          <5>2. QED
            BY <2>2, <4>2, <5>1 DEF Dated
        <4>5. CASE ~Ask(s) /\ ~Put(s)
          <5>1. ses'[s].pc \in {"asked", "tool", "done"} => Tool(s)
            BY <1>3, <3>2, <4>5, MoveFacts DEF Ways, Taking, Restoring
          <5>2. Tool(s) => ses'[s].step = ses[s].step /\ ses[s].pc = "tool" /\ ses'[s].resp = ses[s].resp
            BY MoveFacts DEF Still
          <5>3. QED
            BY <2>2, <4>2, <5>1, <5>2 DEF Dated
        <4>6. QED
          BY <4>3, <4>4, <4>5
      <3>3. QED
        BY <3>1, <3>2
    <2>3. QED
      BY <2>1, <2>2
  <1>4. QED
    BY <1>2, <1>3, NextActions

\* The snapshots on the tape are older than the step s is at.
LEMMA SnapsDatedNext ==
  ASSUME Typed, Filed, TapesTell, Spoken, Dated, [Next]_vars, NEW t \in Sessions, Sole(t)'
  PROVE  SnapsDated(t)'
  <1> DEFINE rs == Rs(ses[t].out)
             r  == Numbered(ses[t].seq, Pending(t))
             x  == ses[t]
             y  == ses'[t]
  <1>1. SoleRecords(t) /\ Rs(ses[t].out)' = rs'
    BY TapesTellStep
  <1>2. SUFFICES ASSUME NEW i \in Places(rs', {"snapshot"})
                 PROVE  /\ rs'[i].event.step <= y.step
                        /\ y.pc \in Taking \cup {"snapped"} => rs'[i].event.step < y.step
                        /\ y.pc \notin {"provenance", "start", "log"}
    BY DEF SnapsDated, Places
  <1>3. x.step \in Nat
    BY DEF Typed, SessionTyped
  <1>4. CASE Open(t) /\ rs' = <<>>
    BY <1>4 DEF Places
  <1>5. ASSUME Sole(t), NEW j \in Places(rs, {"snapshot"})
        PROVE  /\ rs[j].event.step \in Nat
               /\ rs[j].event.step <= x.step
               /\ x.pc \in Taking \cup {"snapped"} => rs[j].event.step < x.step
               /\ x.pc \notin {"provenance", "start", "log"}
    <2>1. rs \in Seq(Stamped)
      BY <1>5, SoleLength
    <2>2. j \in 1..Len(rs)
      BY DEF Places
    <2>3. rs[j].event.step \in Nat
      BY <2>1, <2>2, StampedFacts
    <2>4. QED
      BY <1>5, <2>3 DEF Dated, SnapsDated
  <1>6. Sole(t) => x.pc \in Live \cup {"over", "dead"}
    BY SoleFacts DEF Filed
  <1>7. ASSUME Sole(t), NEW j \in Places(rs, {"snapshot"}), \/ ses'[t] = ses[t] \/ Quiet(t) \/ Dies(t) \/ Put(t)
        PROVE  /\ rs[j].event.step <= y.step
               /\ y.pc \in Taking \cup {"snapped"} => rs[j].event.step < y.step
               /\ y.pc \notin {"provenance", "start", "log"}
    <2>1. CASE ses'[t] = ses[t]
      BY <1>5, <1>7, <2>1
    <2>2. CASE Quiet(t)
      <3>1. y.step = x.step /\ x.pc \in Live \ Appending /\ y.pc \in Onward
        BY <1>6, <1>7, <2>2 DEF Quiet, Planning, Restoring, Live, Taking, Appending
      <3>2. y.pc \in Taking \cup {"snapped"} => x.pc \in Taking \cup {"snapped"}
        <4>1. CASE Copies(t)
          BY <3>1, <4>1, MoveFacts DEF Ways, Live, Taking, Appending, Restoring
        <4>2. QED
          BY <2>2, <3>1, <4>1, MoveFacts DEF Quiet, Silent, Onward, Taking
      <3>3. QED
        BY <1>5, <1>7, <3>1, <3>2 DEF Onward, Taking
    <2>3. CASE Dies(t)
      BY <1>5, <1>7, <2>3, MoverFacts DEF Still, Taking
    <2>4. CASE Put(t)
      <3>1. x.pc \notin {"provenance", "start", "log"}
        BY <1>5, <1>7
      <3>2. \/ y.step = x.step /\ y.pc \notin Taking \cup {"snapped", "provenance", "start", "log"}
            \/ y.step = x.step + 1 /\ y.pc \in {"snap", "ask"}
        BY <2>4, <3>1, MoveFacts DEF Followed, Carried, Begun, Appending, Taking
      <3>3. rs[j].event.step \in Nat /\ rs[j].event.step <= x.step
        BY <1>5, <1>7
      <3> HIDE DEF rs, x, y
      <3>4. QED
        BY <1>3, <3>2, <3>3 DEF Taking
    <2>5. QED
      BY <1>7, <2>1, <2>2, <2>3, <2>4
  <1>8. CASE Sole(t) /\ (ses'[t] = ses[t] \/ Quiet(t) \/ Dies(t)) /\ rs' = rs
    BY <1>2, <1>7, <1>8
  <1>9. CASE Sole(t) /\ (Put(t) \/ Dies(t)) /\ x.pc \in Appending /\ r \in Stamped /\ rs' = Append(rs, r)
    <2>1. PICK n : n = Len(rs)
      OBVIOUS
    <2>2. Longer(rs', rs, r)
      BY <1>9, SoleLength DEF Longer
    <2>3. /\ Places(rs', {"snapshot"}) = Places(rs, {"snapshot"})
                                           \cup (IF r.event.kind \in {"snapshot"} THEN {n + 1} ELSE {})
          /\ rs'[n + 1] = r /\ \A j \in 1..n : rs'[j] = rs[j]
      <3> HIDE DEF rs, r
      <3>1. /\ n \in Nat /\ Len(rs') = n + 1 /\ rs'[n + 1] = r /\ \A j \in 1..n : rs'[j] = rs[j]
        BY <2>1, <2>2, RecordMore
      <3>2. \A j : j \in 1..n + 1 <=> j \in 1..n \/ j = n + 1
        BY <3>1
      <3>3. QED
        BY <2>1, <3>1, <3>2 DEF Places
    <2>4. Places(rs, {"snapshot"}) \subseteq 1..n
      BY <2>1 DEF Places
    <2>5. CASE i \in Places(rs, {"snapshot"})
      BY <1>7, <1>9, <2>3, <2>4, <2>5
    <2>6. CASE i = n + 1 /\ r.event.kind = "snapshot"
      <3>1. r.event = Pending(t)
        BY DEF Numbered
      <3>2. x.pc = "snapped"
        BY <1>9, <2>6, <3>1, PendingKind DEF Appending
      <3>3. rs'[i].event.step = x.step
        BY <2>3, <2>6, <3>1, <3>2 DEF Pending, Event
      <3>4. y.step = x.step /\ y.pc \in {"ask", "dead"}
        <4>1. Put(t) => y.step = x.step /\ y.pc = "ask"
          BY <3>2, MoveFacts DEF Followed, Carried
        <4>2. Dies(t) => y.step = x.step /\ y.pc = "dead"
          BY MoverFacts DEF Still
        <4>3. QED
          BY <1>9, <4>1, <4>2
      <3>5. QED
        BY <1>3, <3>3, <3>4 DEF Taking
    <2>7. QED
      BY <1>2, <2>3, <2>5, <2>6
  <1>10. QED
    BY <1>1, <1>4, <1>8, <1>9 DEF SoleRecords

\* A write a session asked for itself is of the step it asked in.
LEMMA OwnWritesNext ==
  ASSUME Typed, Filed, TapesTell, Dated, [Next]_vars, NEW t \in Sessions, Sole(t)'
  PROVE  OwnWritesDated(t)'
  <1> DEFINE rs == Rs(ses[t].out)
             r  == Numbered(ses[t].seq, Pending(t))
             Own(q) == \A i \in Writes(q) : q[i].event.msg.id[1] = t =>
                         q[i].event.msg.id = <<t, q[i].event.step>>
  <1>1. SoleRecords(t) /\ Rs(ses[t].out)' = rs'
    BY TapesTellStep
  <1>2. SUFFICES Own(rs')
    BY DEF OwnWritesDated, OwnWrites, Writes, Places
  <1>3. Sole(t) => Own(rs)
    BY DEF Dated, OwnWritesDated, OwnWrites
  <1>4. CASE Open(t) /\ rs' = <<>>
    BY <1>4 DEF Writes, Places
  <1>5. CASE Sole(t) /\ rs' = rs
    BY <1>3, <1>5
  <1>6. CASE Sole(t) /\ ses[t].pc \in Appending /\ r \in Stamped /\ rs' = Append(rs, r)
    <2>1. PICK n : n = Len(rs)
      OBVIOUS
    <2>2. Longer(rs', rs, r)
      BY <1>6, SoleLength DEF Longer
    <2>3. /\ Writes(rs) \subseteq 1..n
          /\ Writes(rs') = Writes(rs) \cup (IF r.event.kind = "tool_result" /\ r.event.msg.act = "write"
                                              THEN {n + 1} ELSE {})
          /\ rs'[n + 1] = r /\ \A j \in 1..n : rs'[j] = rs[j]
      <3> HIDE DEF rs, r
      <3>1. QED
        BY <2>1, <2>2, WritesMore, RecordMore
    <2>4. r.event.kind = "tool_result" /\ r.event.msg.id[1] = t => r.event.msg.id = <<t, r.event.step>>
      <3>1. r.event = Pending(t)
        BY DEF Numbered
      <3>2. r.event.kind = "tool_result" => ses[t].pc = "done"
        BY <1>6, <3>1, PendingKind DEF Appending
      <3>3. ses[t].pc = "done" => r.event.msg = ses[t].resp /\ r.event.step = ses[t].step
        BY <3>1 DEF Pending, Event
      <3>4. QED
        BY <3>2, <3>3 DEF Dated
    <2> HIDE DEF r, rs
    <2>5. ASSUME NEW i \in Writes(rs'), rs'[i].event.msg.id[1] = t
          PROVE  rs'[i].event.msg.id = <<t, rs'[i].event.step>>
      <3>1. CASE i \in Writes(rs)
        BY <1>3, <1>6, <2>3, <2>5, <3>1
      <3>2. CASE i \notin Writes(rs)
        <4>1. i = n + 1 /\ r.event.kind = "tool_result"
          BY <2>3, <3>2
        <4>2. QED
          BY <2>3, <2>4, <2>5, <4>1
      <3>3. QED
        BY <3>1, <3>2
    <2>6. QED
      BY <2>5
  <1>7. QED
    BY <1>1, <1>4, <1>5, <1>6 DEF SoleRecords

LEMMA DatedNext ==
  ASSUME Typed, Filed, TapesTell, Spoken, Fresh, Dated, [Next]_vars
  PROVE  Dated'
  BY RespDated, SnapsDatedNext, OwnWritesNext DEF Dated

-----------------------------------------------------------------------------
(* Copies: what a snapshot holds of the writes of the session that took it *)

Copying == {"copying", "snapcopying"}

\* Where a copy begins, goes on and ends, and that it never touches what it copies from.
LEMMA CopyingFacts ==
  ASSUME Typed, NEW s \in Sessions, Copies(s)
  PROVE  /\ ses'[s].pc \in Copying =>
              \/ /\ ses[s].pc \notin Copying /\ ses'[s].todo = Holds(From(s)) /\ ses'[s].got = {}
                 /\ trees' = Filled(Into(s), {})
              \/ /\ ses[s].pc = ses'[s].pc /\ ses'[s].whole = ses[s].whole
                 /\ \E x \in Holds(From(s)) :
                      /\ ses'[s].todo = ses[s].todo \ {x} /\ ses'[s].got = ses[s].got \cup {x}
                      /\ trees' = Filled(Into(s), Holds(Into(s)) \cup {x})
              \/ /\ ses[s].pc = ses'[s].pc /\ ses'[s].whole = FALSE
                 /\ ses'[s].got = ses[s].got /\ trees' = trees
         /\ ses'[s].pc \in {"decide", "snapped"} =>
              /\ ses[s].pc \in Copying /\ ses[s].todo = {} /\ ses[s].whole
              /\ {From(s), Into(s)} \subseteq DOMAIN trees /\ trees' = trees
  <1>1. ASSUME NEW p, Goes(s, [pc |-> p])
        PROVE  ses'[s].pc = p
    BY <1>1, PcFacts
  <1>2. ASSUME NEW p, NEW t, Goes(s, [pc |-> p, todo |-> t])
        PROVE  ses'[s].pc = p
    <2> DEFINE know == [pc |-> p, todo |-> t]
    <2>1. DOMAIN know = {"pc", "todo"} /\ know.pc = p /\ Goes(s, know)
      BY <1>2
    <2> HIDE DEF know
    <2>2. QED
      BY <2>1, HandsFacts
  <1>3. CASE Clear(s)
    <2>1. ses'[s].pc \in {"dead", On(s, "wiping", "snapwiping"), On(s, "copy", "snapcopy")}
      BY <1>1, <1>2, <1>3 DEF Clear
    <2>2. QED
      BY <2>1 DEF On, Copying
  <1>4. CASE Unlink(s)
    <2>1. ses'[s].pc \in {ses[s].pc, "dead"} /\ ses[s].pc \in {"wiping", "snapwiping"}
      <3>1. ASSUME NEW x, Goes(s, [todo |-> ses[s].todo \ {x}])
            PROVE  ses'[s].pc = ses[s].pc
        <4> DEFINE know == [todo |-> ses[s].todo \ {x}]
        <4>1. DOMAIN know = {"todo"} /\ Goes(s, know)
          BY <3>1
        <4> HIDE DEF know
        <4>2. QED
          BY <4>1, HandsFacts
      <3>2. QED
        BY <1>2, <1>4, <3>1 DEF Unlink
    <2>2. QED
      BY <2>1 DEF Copying
  <1>5. CASE Rmdir(s)
    <2>1. ses'[s].pc \in {"dead", On(s, "copy", "snapcopy")}
      BY <1>1, <1>5 DEF Rmdir
    <2>2. QED
      BY <2>1 DEF On, Copying
  <1>6. CASE Mkdir(s)
    <2>1. ses[s].pc \in {"copy", "snapcopy"}
      BY <1>6 DEF Mkdir
    <2>2. CASE /\ From(s) \in DOMAIN trees /\ trees' = Filled(Into(s), {})
               /\ Goes(s, [pc |-> On(s, "copying", "snapcopying"), todo |-> trees[From(s)],
                           got |-> {}, whole |-> TRUE])
      <3> DEFINE know == [pc |-> On(s, "copying", "snapcopying"), todo |-> trees[From(s)],
                          got |-> {}, whole |-> TRUE]
      <3>1. /\ DOMAIN know = {"pc", "todo", "got", "whole"} /\ know.todo = trees[From(s)]
            /\ know.got = {} /\ Goes(s, know) /\ know.pc = On(s, "copying", "snapcopying")
        BY <2>2
      <3> HIDE DEF know
      <3>2. /\ ses'[s].pc = On(s, "copying", "snapcopying")
            /\ ses'[s].todo = trees[From(s)] /\ ses'[s].got = {}
        BY <3>1, HandsFacts
      <3>3. trees[From(s)] = Holds(From(s))
        BY <2>2 DEF Holds
      <3>4. QED
        BY <2>1, <2>2, <3>2, <3>3 DEF On, Copying
    <2>3. CASE Goes(s, [pc |-> "dead"])
      BY <1>1, <2>3 DEF Copying
    <2>4. QED
      BY <1>6, <2>2, <2>3 DEF Mkdir
  <1>7. CASE CopyOne(s)
    <2>1. PICK x \in ses[s].todo \cup (Holds(From(s)) \ ses[s].got) :
            IF x \in Holds(From(s)) /\ Into(s) \in DOMAIN trees
              THEN /\ trees' = Filled(Into(s), Holds(Into(s)) \cup {x})
                   /\ Goes(s, [todo |-> ses[s].todo \ {x}, got |-> ses[s].got \cup {x}])
              ELSE Goes(s, [todo |-> ses[s].todo \ {x}, whole |-> FALSE]) /\ UNCHANGED trees
      BY <1>7 DEF CopyOne
    <2>2. CASE x \in Holds(From(s)) /\ Into(s) \in DOMAIN trees
      <3> DEFINE know == [todo |-> ses[s].todo \ {x}, got |-> ses[s].got \cup {x}]
      <3>1. /\ DOMAIN know = {"todo", "got"} /\ know.todo = ses[s].todo \ {x}
            /\ know.got = ses[s].got \cup {x} /\ Goes(s, know)
        BY <2>1, <2>2
      <3> HIDE DEF know
      <3>2. /\ ses'[s].pc = ses[s].pc /\ ses'[s].whole = ses[s].whole
            /\ ses'[s].todo = ses[s].todo \ {x} /\ ses'[s].got = ses[s].got \cup {x}
        BY <3>1, HandsFacts
      <3>3. trees' = Filled(Into(s), Holds(Into(s)) \cup {x})
        BY <2>1, <2>2
      <3>4. ses'[s].pc \notin {"decide", "snapped"}
        BY <1>7, <3>2 DEF CopyOne
      <3>5. QED
        BY <2>2, <3>2, <3>3, <3>4
    <2>3. CASE ~(x \in Holds(From(s)) /\ Into(s) \in DOMAIN trees)
      <3> DEFINE know == [todo |-> ses[s].todo \ {x}, whole |-> FALSE]
      <3>1. DOMAIN know = {"todo", "whole"} /\ know.whole = FALSE /\ Goes(s, know)
        BY <2>1, <2>3
      <3> HIDE DEF know
      <3>2. ses'[s].pc = ses[s].pc /\ ses'[s].whole = FALSE /\ ses'[s].got = ses[s].got
        BY <3>1, HandsFacts
      <3>3. trees' = trees
        BY <2>1, <2>3
      <3>4. ses'[s].pc \notin {"decide", "snapped"}
        BY <1>7, <3>2 DEF CopyOne
      <3>5. QED
        BY <3>2, <3>3, <3>4
    <2>4. QED
      BY <2>2, <2>3
  <1>8. CASE Copied(s)
    <2>1. /\ ses[s].pc \in Copying /\ ses[s].todo = {} /\ trees' = trees
          /\ ses'[s].pc = IF ses[s].whole /\ {From(s), Into(s)} \subseteq DOMAIN trees
                            THEN On(s, "decide", "snapped") ELSE "dead"
      BY <1>1, <1>8 DEF Copied, Copying
    <2>2. QED
      BY <2>1 DEF On, Copying
  <1>9. QED
    BY <1>3, <1>4, <1>5, <1>6, <1>7, <1>8 DEF Copies

\* s may restore what t took, and nobody else has to do with snapshots; once it is about
\* to, t was through before.
Apart(s, t) ==
  /\ s # t /\ Sole(t)
  /\ ses[s].pc \in {"idle"} \cup Restoring
  /\ ses[s].pc # "idle" => ses[t].out = ses[s].src /\ t \notin ses[s].beside
  /\ \A u \in Sessions \ {s, t} : ses[u].pc # "idle" => ~ses[u].cmd.snaps

\* The snapshots t has recorded or is about to record.
Held(t, k) ==
  \/ \E i \in Places(Rs(ses[t].out), {"snapshot"}) : Rs(ses[t].out)[i].event.step = k
  \/ ses[t].pc = "snapped" /\ k = ses[t].step

\* The workspace has every write of t.
InWorld(t) ==
  /\ \A i \in OwnWrites(t) : Rs(ses[t].out)[i].event.msg.id \in Holds(Home)
  /\ ses[t].pc = "done" /\ ses[t].resp.act = "write" => ses[t].resp.id \in Holds(Home)

\* The copy t is making of it misses none, but for those it has yet to come to.
Takes(t) ==
  ses[t].pc = "snapcopying" =>
    /\ ses[t].got \subseteq Holds(ses[t].step)
    /\ ses[t].whole => \A i \in OwnWrites(t) :
                         Rs(ses[t].out)[i].event.msg.id \in ses[t].got \cup ses[t].todo

\* A snapshot has those before its step, and no others.
SnapHas(t, k) ==
  /\ \A j \in Nat : <<t, j>> \in Holds(k) => j < k
  /\ \A i \in OwnWrites(t) : Rs(ses[t].out)[i].event.step < k => Rs(ses[t].out)[i].event.msg.id \in Holds(k)

\* The copy s is making of a snapshot.
Restores(s) ==
  ses[s].pc = "copying" /\ ses[s].whole =>
    /\ ses[s].got \subseteq Holds(ses[s].restored)
    /\ Holds(ses[s].restored) \subseteq ses[s].got \cup ses[s].todo

Exact ==
  \A s, t \in Sessions : Apart(s, t) =>
    /\ IF ses[s].pc = "idle" THEN InWorld(t) /\ Takes(t) ELSE ses[t].pc \in Ended
    /\ \A k \in Nat : Held(t, k) => SnapHas(t, k)
    /\ Restores(s)

LEMMA ExactInit == Init => Exact
  BY IdleFacts DEF Init, Exact, Apart, Sole, Writers

\* What a step may be while s and t are apart, and what it leaves alone.
LEMMA ApartSteps ==
  ASSUME Typed, Filed, Spoken, [Next]_vars, NEW s \in Sessions, NEW t \in Sessions, Apart(s, t)',
         Sole(t)
  PROVE  /\ Apart(s, t) /\ ses[t].pc \notin {"idle"} \cup Restoring
         /\ \/ /\ ses'[s] = ses[s] /\ ses'[t] = ses[t] /\ Holds(Home) \subseteq Holds(Home)'
               /\ \A k \in Nat : Holds(k)' = Holds(k)
            \/ /\ Started(s) /\ trees' = trees /\ ses'[t] = ses[t]
               /\ ses[s].pc = "idle" /\ ses'[s].pc = "wipe"
            \/ Copies(s) /\ ses[s].pc \in Restoring /\ ses'[t] = ses[t]
            \/ /\ ses'[s] = ses[s] /\ trees' = trees
               /\ Moves(t) /\ (Open(t) \/ Put(t) \/ Ask(t) \/ Crash(t))
               /\ ses'[t].pc \notin {"snapped", "snapcopying"}
            \/ ses'[s] = ses[s] /\ Tool(t)
            \/ ses'[s] = ses[s] /\ Copies(t) /\ ses[t].pc \in Taking
  <1> DEFINE Goal ==
         /\ Apart(s, t) /\ ses[t].pc \notin {"idle"} \cup Restoring
         /\ \/ /\ ses'[s] = ses[s] /\ ses'[t] = ses[t] /\ Holds(Home) \subseteq Holds(Home)'
               /\ \A k \in Nat : Holds(k)' = Holds(k)
            \/ /\ Started(s) /\ trees' = trees /\ ses'[t] = ses[t]
               /\ ses[s].pc = "idle" /\ ses'[s].pc = "wipe"
            \/ Copies(s) /\ ses[s].pc \in Restoring /\ ses'[t] = ses[t]
            \/ /\ ses'[s] = ses[s] /\ trees' = trees
               /\ Moves(t) /\ (Open(t) \/ Put(t) \/ Ask(t) \/ Crash(t))
               /\ ses'[t].pc \notin {"snapped", "snapcopying"}
            \/ ses'[s] = ses[s] /\ Tool(t)
            \/ ses'[s] = ses[s] /\ Copies(t) /\ ses[t].pc \in Taking
  <1>1. /\ s # t /\ ses'[s].pc \in {"idle"} \cup Restoring
        /\ ses'[s].pc # "idle" => ses'[t].out = ses'[s].src /\ t \notin ses'[s].beside
        /\ \A u \in Sessions \ {s, t} : ses'[u].pc # "idle" => ~ses'[u].cmd.snaps
    BY DEF Apart
  <1>2. \A u \in Sessions \ {s, t} : ses[u].pc # "idle" => ~ses[u].cmd.snaps
    BY <1>1, GivenStays
  <1>3. ses[t].handle /\ ses[t].pc \in Live \cup {"over", "dead"}
    BY SoleFacts DEF Filed
  <1>4. ses[t].pc \notin {"idle"} \cup Restoring
    BY <1>3 DEF Live, Taking, Appending, Restoring
  <1>5. ses'[t].out = ses[t].out
    BY <1>4, GivenStays
  <1>6. ASSUME ses'[s].pc = ses[s].pc \/ (ses[s].pc \in Restoring /\ ses'[s].pc \in Restoring) \/ ses[s].pc = "idle",
               ses'[s].pc # "idle" /\ ses[s].pc # "idle" => ses'[s].src = ses[s].src /\ ses'[s].beside = ses[s].beside
        PROVE  Apart(s, t)
    BY <1>1, <1>2, <1>5, <1>6 DEF Apart, Restoring
  <1>7. trees' = trees => Holds(Home) \subseteq Holds(Home)' /\ \A k \in Nat : Holds(k)' = Holds(k)
    BY DEF Holds
  <1>8. CASE UNCHANGED vars
    <2>1. /\ ses'[s] = ses[s] /\ ses'[t] = ses[t] /\ trees' = trees
      BY <1>8 DEF vars
    <2>2. QED
      BY <1>4, <1>6, <1>7, <2>1
  <1>9. ASSUME NEW u \in Sessions,
               \/ Started(u) \/ Copies(u) \/ Decide(u) \/ Open(u) \/ Put(u)
               \/ Ask(u) \/ Tool(u) \/ Crash(u)
        PROVE  Goal
    <2>1. Others(u)
      BY <1>9, MoveFacts, StartedAs DEF Birth, NewBorn, Moves
    <2>2. CASE u \notin {s, t}
      <3>1. ses'[s] = ses[s] /\ ses'[t] = ses[t]
        BY <2>1, <2>2 DEF Others
      <3>2. ~Copies(u)
        <4>1. Copies(u) => ses[u].pc \in Restoring \cup Taking
          BY MoveFacts DEF Ways
        <4>2. ses[u].pc \in Restoring \cup Taking => ses[u].pc # "idle"
          BY DEF Restoring, Taking
        <4>3. QED
          BY <1>2, <2>2, <4>1, <4>2 DEF Spoken, Speaks
      <3>3. Holds(Home) \subseteq Holds(Home)' /\ \A k \in Nat : Holds(k)' = Holds(k)
        <4>1. CASE Tool(u)
          <5>1. trees' = trees \/ trees' = Filled(Home, Holds(Home) \cup {ses[u].resp.id})
            BY <4>1 DEF Tool
          <5>2. Home \notin Nat
            BY DEF Home
          <5>3. QED
            BY <1>7, <5>1, <5>2 DEF Filled, Holds
        <4>2. CASE ~Tool(u)
          <5>1. trees' = trees
            BY <1>9, <3>2, <4>2, StartedAs DEF Birth, Decide, Open, Put, Ask, Crash
          <5>2. QED
            BY <1>7, <5>1
        <4>3. QED
          BY <4>1, <4>2
      <3>4. QED
        BY <1>4, <1>6, <3>1, <3>3
    <2>3. CASE u = s
      <3>1. ses'[t] = ses[t]
        BY <1>1, <2>1, <2>3 DEF Others
      <3>2. CASE Started(s)
        <4>1. ses[s].pc = "idle" /\ trees' = trees /\ ses'[s].pc \in {"open", "refused", "decide", "wipe"}
          BY <3>2, StartedAs DEF Birth
        <4>2. ses'[s].pc = "wipe"
          BY <1>1, <4>1 DEF Restoring
        <4>3. QED
          BY <1>4, <1>6, <3>1, <3>2, <4>1, <4>2
      <3>3. CASE Copies(s)
        <4>1. Moves(s) /\ Ways(s)
          BY <3>3, MoveFacts
        <4>2. ses[s].pc \in Restoring /\ ses'[s].pc \in Restoring
          BY <1>1, <4>1 DEF Ways, Taking, Restoring
        <4>3. QED
          BY <1>4, <1>6, <3>1, <3>3, <4>1, <4>2 DEF Moves, Fixed
      <3>4. Started(s) \/ Copies(s)
        BY <1>1, <1>9, <2>3, MoveFacts DEF Followed, Carried, Begun, Appending, Restoring
      <3>5. QED
        BY <3>2, <3>3, <3>4
    <2>4. CASE u = t
      <3>1. ses'[s] = ses[s]
        BY <1>1, <2>1, <2>4 DEF Others
      <3>2. Apart(s, t)
        BY <1>6, <3>1
      <3>3. ~Started(t) /\ ~Decide(t)
        BY <1>3, StartedAs, MoveFacts DEF Birth, Live, Taking, Appending
      <3>4. CASE Open(t) \/ Put(t) \/ Ask(t) \/ Crash(t)
        <4>1. trees' = trees
          BY <3>4 DEF Open, Put, Ask, Crash
        <4>2. Moves(t) /\ ses'[t].pc \notin {"snapped", "snapcopying"}
          BY <3>4, MoveFacts DEF Followed, Begun, Appending
        <4>3. QED
          BY <1>4, <3>1, <3>2, <3>4, <4>1, <4>2
      <3>5. CASE Copies(t)
        <4>1. ses[t].pc \in Taking
          BY <1>4, <3>5, MoveFacts DEF Ways
        <4>2. QED
          BY <1>4, <3>1, <3>2, <3>5, <4>1
      <3>6. CASE Tool(t)
        BY <1>4, <3>1, <3>2, <3>6
      <3>7. QED
        BY <1>9, <2>4, <3>3, <3>4, <3>5, <3>6
    <2>5. QED
      BY <2>2, <2>3, <2>4
  <1>10. QED
    BY <1>8, <1>9, NextActions

\* What a step adds to the tape of t, of its writes and its snapshots.
LEMMA OwnMore ==
  ASSUME Typed, Filed, TapesTell, [Next]_vars, NEW t \in Sessions, Sole(t), Sole(t)'
  PROVE  LET x == ses[t]  rs == Rs(x.out)  rt == Rs(x.out)'
         IN /\ ses'[t].out = x.out
            /\ \A i \in Writes(rt) :
                 \/ i \in Writes(rs) /\ rt[i] = rs[i]
                 \/ /\ x.pc = "done" /\ x.resp.act = "write" /\ rt[i].event.msg = x.resp
                    /\ rt[i].event.step = x.step
            /\ \A i \in Places(rt, {"snapshot"}) :
                 \/ i \in Places(rs, {"snapshot"}) /\ rt[i] = rs[i]
                 \/ x.pc = "snapped" /\ rt[i].event.step = x.step
  <1> DEFINE rs == Rs(ses[t].out)
             rt == Rs(ses[t].out)'
             r  == Numbered(ses[t].seq, Pending(t))
  <1>1. SoleRecords(t) /\ ses'[t].out = ses[t].out
    BY TapesTellStep
  <1>2. CASE Open(t) /\ ~ses[t].handle
    BY <1>2, SoleFacts
  <1>3. CASE rt = rs
    BY <1>1, <1>3
  <1>4. CASE ses[t].pc \in Appending /\ r \in Stamped /\ rt = Append(rs, r)
    <2>1. PICK n : n = Len(rs)
      OBVIOUS
    <2>2. Longer(rt, rs, r)
      BY <1>4, SoleLength DEF Longer
    <2>3. r.event = Pending(t)
      BY DEF Numbered
    <2>4. /\ r.event.kind = "tool_result" => ses[t].pc = "done"
          /\ r.event.kind = "snapshot" => ses[t].pc = "snapped"
      BY <1>4, <2>3, PendingKind DEF Appending
    <2>5. /\ ses[t].pc = "done" => r.event.msg = ses[t].resp /\ r.event.step = ses[t].step
          /\ ses[t].pc = "snapped" => r.event.step = ses[t].step
      BY <2>3 DEF Pending, Event
    <2> HIDE DEF rs, rt, r
    <2>6. /\ n \in Nat /\ Len(rt) = n + 1 /\ rt[n + 1] = r /\ \A j \in 1..n : rt[j] = rs[j]
      BY <2>1, <2>2, RecordMore
    <2>7. \A j : j \in 1..n + 1 <=> j \in 1..n \/ j = n + 1
      BY <2>6
    <2>8. ASSUME NEW i \in Writes(rt)
          PROVE  \/ i \in Writes(rs) /\ rt[i] = rs[i]
                 \/ /\ ses[t].pc = "done" /\ ses[t].resp.act = "write" /\ rt[i].event.msg = ses[t].resp
                    /\ rt[i].event.step = ses[t].step
      <3>1. i \in 1..n + 1 /\ rt[i].event.kind = "tool_result" /\ rt[i].event.msg.act = "write"
        BY <2>6 DEF Writes, Places
      <3>2. CASE i \in 1..n
        BY <2>1, <2>6, <3>1, <3>2 DEF Writes, Places
      <3>3. CASE i = n + 1
        BY <2>4, <2>5, <2>6, <3>1, <3>3
      <3>4. QED
        BY <2>7, <3>1, <3>2, <3>3
    <2>9. ASSUME NEW i \in Places(rt, {"snapshot"})
          PROVE  \/ i \in Places(rs, {"snapshot"}) /\ rt[i] = rs[i]
                 \/ ses[t].pc = "snapped" /\ rt[i].event.step = ses[t].step
      <3>1. i \in 1..n + 1 /\ rt[i].event.kind = "snapshot"
        BY <2>6 DEF Places
      <3>2. CASE i \in 1..n
        BY <2>1, <2>6, <3>1, <3>2 DEF Places
      <3>3. CASE i = n + 1
        BY <2>4, <2>5, <2>6, <3>1, <3>3
      <3>4. QED
        BY <2>7, <3>1, <3>2, <3>3
    <2>10. QED
      BY <1>1, <2>8, <2>9 DEF rs, rt
  <1>5. QED
    BY <1>1, <1>2, <1>3, <1>4 DEF SoleRecords

LEMMA ExactNext ==
  ASSUME Typed, Filed, Naming, TapesTell, Spoken, Fresh, Dated, Exact, [Next]_vars
  PROVE  Exact'
  <1> SUFFICES ASSUME NEW s \in Sessions, NEW t \in Sessions, Apart(s, t)'
               PROVE  /\ IF ses'[s].pc = "idle" THEN InWorld(t)' /\ Takes(t)' ELSE ses'[t].pc \in Ended
                      /\ \A k \in Nat : Held(t, k)' => SnapHas(t, k)'
                      /\ Restores(s)'
    BY DEF Exact
  <1> DEFINE x  == ses[t]
             y  == ses'[t]
             rs == Rs(ses[t].out)
             rt == Rs(ses[t].out)'
  <1>1. Sole(t)' /\ SoleStep(t) /\ SoleRecords(t) /\ y.out = x.out
    BY SoleSteps, TapesTellStep DEF Apart
  <1>2. CASE ~Sole(t)
    <2>1. Open(t) /\ rt = <<>>
      BY <1>1, <1>2 DEF SoleRecords
    <2>2. y.pc \in {"start", "provenance"} /\ Others(t)
      BY <2>1, MoverFacts DEF Moves
    <2>3. OwnWrites(t)' = {} /\ \A k : ~Held(t, k)'
      BY <1>1, <2>1, <2>2 DEF OwnWrites, Held, Writes, Places
    <2>4. ses'[s] = ses[s]
      BY <2>2 DEF Apart, Others
    <2>5. ses'[s].pc = "idle"
      <3>1. SUFFICES ASSUME ses[s].pc \in Restoring
                     PROVE  FALSE
        BY <2>4 DEF Apart
      <3>2. ses[s].pc \notin {"idle", "refused"} /\ ses[s].cmd.kind # "run" /\ ses'[t].out = ses[s].src
        BY <2>4, <3>1 DEF Apart, Restoring, Spoken, Speaks
      <3>3. QED
        BY <1>1, <1>2, <3>2, SourceStays
    <2>6. QED
      BY <2>2, <2>3, <2>5 DEF InWorld, Takes, Restores
  <1>3. CASE Sole(t)
    <2>1. /\ Apart(s, t) /\ x.pc \notin {"idle"} \cup Restoring
          /\ \/ /\ ses'[s] = ses[s] /\ y = x /\ Holds(Home) \subseteq Holds(Home)'
                /\ \A k \in Nat : Holds(k)' = Holds(k)
             \/ /\ Started(s) /\ trees' = trees /\ y = x
                /\ ses[s].pc = "idle" /\ ses'[s].pc = "wipe"
             \/ Copies(s) /\ ses[s].pc \in Restoring /\ y = x
             \/ /\ ses'[s] = ses[s] /\ trees' = trees
                /\ Moves(t) /\ (Open(t) \/ Put(t) \/ Ask(t) \/ Crash(t))
                /\ y.pc \notin {"snapped", "snapcopying"}
             \/ ses'[s] = ses[s] /\ Tool(t)
             \/ ses'[s] = ses[s] /\ Copies(t) /\ x.pc \in Taking
      BY <1>3, ApartSteps
    <2>2. /\ IF ses[s].pc = "idle" THEN InWorld(t) /\ Takes(t) ELSE x.pc \in Ended
          /\ \A k \in Nat : Held(t, k) => SnapHas(t, k)
          /\ Restores(s)
      BY <2>1 DEF Exact
    <2>3. /\ \A i \in Writes(rt) :
               \/ i \in Writes(rs) /\ rt[i] = rs[i]
               \/ /\ x.pc = "done" /\ x.resp.act = "write" /\ rt[i].event.msg = x.resp
                  /\ rt[i].event.step = x.step
          /\ \A i \in Places(rt, {"snapshot"}) :
               \/ i \in Places(rs, {"snapshot"}) /\ rt[i] = rs[i]
               \/ x.pc = "snapped" /\ rt[i].event.step = x.step
      BY <1>1, <1>3, OwnMore
    <2>4. x.step \in Nat /\ Home \notin Nat /\ (ses[s].pc \in Restoring => ses[s].restored \in Nat)
      BY DEF Typed, SessionTyped, Home
    <2>5. /\ OwnWrites(t)' = {i \in Writes(rt) : rt[i].event.msg.id[1] = t}
          /\ OwnWrites(t) = {i \in Writes(rs) : rs[i].event.msg.id[1] = t}
          /\ Rs(ses[t].out)' = rt
      BY <1>1 DEF OwnWrites, Writes, Places, Rs, FileOf
    <2>6. ASSUME InWorld(t)
          PROVE  \A i \in OwnWrites(t)' : rt[i].event.msg.id \in Holds(Home)
      BY <2>3, <2>5, <2>6 DEF InWorld
    <2>7. ASSUME NEW k, \E i \in Places(rt, {"snapshot"}) : rt[i].event.step = k
          PROVE  Held(t, k)
      BY <2>3, <2>7 DEF Held
    <2>8. \A k : Held(t, k) => k <= x.step
      BY <1>3, <2>4 DEF Held, Dated, SnapsDated
    <2>9. ASSUME NEW k \in Nat, Held(t, k), Holds(k)' = Holds(k)
          PROVE  SnapHas(t, k)'
      <3>1. SnapHas(t, k) /\ k <= x.step
        BY <2>2, <2>8, <2>9
      <3>2. ASSUME NEW i \in OwnWrites(t)', rt[i].event.step < k
            PROVE  rt[i].event.msg.id \in Holds(k)
        <4>1. ~(rt[i].event.step = x.step)
          BY <2>4, <3>1, <3>2
        <4>2. i \in Writes(rs) /\ rt[i] = rs[i] /\ rt[i].event.msg.id[1] = t
          BY <2>3, <2>5, <4>1
        <4>3. QED
          BY <2>5, <3>1, <3>2, <4>2 DEF SnapHas
      <3>3. QED
        BY <2>5, <2>9, <3>1, <3>2 DEF SnapHas
    <2>10. ASSUME \A k \in Nat : Held(t, k) => Holds(k)' = Holds(k),
                  y.pc = "snapped" => x.pc = "snapped" /\ y.step = x.step
           PROVE  \A k \in Nat : Held(t, k)' => SnapHas(t, k)'
      <3>1. SUFFICES ASSUME NEW k \in Nat, Held(t, k)'
                     PROVE  SnapHas(t, k)'
        OBVIOUS
      <3>2. Held(t, k)
        BY <2>5, <2>7, <2>10, <3>1 DEF Held
      <3>3. QED
        BY <2>9, <2>10, <3>1, <3>2
    <2>11. ASSUME Holds(Home) \subseteq Holds(Home)', InWorld(t),
                  y.pc = "done" /\ y.resp.act = "write" => y.resp.id \in Holds(Home)'
           PROVE  InWorld(t)'
      BY <2>5, <2>6, <2>11 DEF InWorld
    <2>12. trees' = trees => \A d : Holds(d)' = Holds(d)
      BY DEF Holds
    <2>13. ASSUME ses'[s] = ses[s], ses[s].pc # "idle" => \A k \in Nat : Holds(k)' = Holds(k)
           PROVE  Restores(s)'
      BY <2>1, <2>2, <2>4, <2>13 DEF Restores, Restoring
    <2>14. ASSUME y = x, \A k \in Nat : Holds(k)' = Holds(k), Takes(t)
           PROVE  Takes(t)'
      <3>1. ASSUME x.pc = "snapcopying", x.whole, NEW i \in OwnWrites(t)'
            PROVE  rt[i].event.msg.id \in x.got \cup x.todo
        <4>1. i \in Writes(rs) /\ rt[i] = rs[i] /\ rt[i].event.msg.id[1] = t
          BY <2>3, <2>5, <3>1
        <4>2. QED
          BY <2>5, <2>14, <3>1, <4>1 DEF Takes
      <3>2. QED
        BY <2>4, <2>5, <2>14, <3>1 DEF Takes
    <2>15. CASE /\ ses'[s] = ses[s] /\ y = x /\ Holds(Home) \subseteq Holds(Home)'
                /\ \A k \in Nat : Holds(k)' = Holds(k)
      <3>1. ses[s].pc = "idle" => InWorld(t)' /\ Takes(t)'
        BY <2>2, <2>11, <2>14, <2>15 DEF InWorld
      <3>2. QED
        BY <2>2, <2>10, <2>13, <2>15, <3>1
    <2>16. CASE /\ Started(s) /\ trees' = trees /\ y = x
                /\ ses[s].pc = "idle" /\ ses'[s].pc = "wipe"
      <3>1. ses'[s].beside = Running
        BY <2>16, StartedAs DEF Birth, NewBorn
      <3>2. t \notin Running
        BY <2>16, <3>1 DEF Apart
      <3>3. y.pc \in Ended
        BY <2>1, <2>16, <3>2 DEF Running
      <3>4. QED
        BY <2>10, <2>12, <2>16, <3>3 DEF Restores
    <2>17. CASE Copies(s) /\ ses[s].pc \in Restoring /\ y = x
      <3>1. Into(s) = Home /\ From(s) = ses[s].restored /\ ses[s].restored \in Nat
        BY <2>4, <2>17 DEF Into, From
      <3>2. \A k \in Nat : Holds(k)' = Holds(k)
        BY <2>4, <2>17, <3>1, CopiesFacts DEF Apiece
      <3>3. ses'[s].pc # "idle" /\ ses'[s].restored = ses[s].restored /\ ses[s].pc # "idle"
        BY <2>17, MoveFacts DEF Ways, Moves, Fixed, Restoring, Taking
      <3>4. Restores(s)'
        <4>1. SUFFICES ASSUME ses'[s].pc = "copying", ses'[s].whole
                       PROVE  /\ ses'[s].got \subseteq Holds(ses[s].restored)
                              /\ Holds(ses[s].restored) \subseteq ses'[s].got \cup ses'[s].todo
          BY <3>1, <3>2, <3>3 DEF Restores
        <4>2. CASE ses'[s].todo = Holds(From(s)) /\ ses'[s].got = {}
          BY <3>1, <4>2
        <4>3. ASSUME ses[s].pc = ses'[s].pc, ses[s].whole,
                     NEW z \in Holds(From(s)),
                     ses'[s].todo = ses[s].todo \ {z} /\ ses'[s].got = ses[s].got \cup {z}
              PROVE  /\ ses'[s].got \subseteq Holds(ses[s].restored)
                     /\ Holds(ses[s].restored) \subseteq ses'[s].got \cup ses'[s].todo
          BY <2>2, <3>1, <4>1, <4>3 DEF Restores
        <4>4. QED
          BY <2>17, <4>1, <4>2, <4>3, CopyingFacts DEF Copying
      <3>5. QED
        BY <2>2, <2>10, <2>17, <3>2, <3>3, <3>4
    <2>18. CASE /\ ses'[s] = ses[s] /\ trees' = trees
                /\ Moves(t) /\ (Open(t) \/ Put(t) \/ Ask(t) \/ Crash(t))
                /\ y.pc \notin {"snapped", "snapcopying"}
      <3>1. y.pc # "done"
        BY <2>18, MoveFacts DEF Followed, Begun, Appending
      <3>2. ses[s].pc # "idle" => y.pc \in Ended
        <4>1. x.pc \in Ended => y = x
          BY GivenStays
        <4>2. QED
          BY <2>2, <4>1
      <3>3. ses[s].pc = "idle" => InWorld(t)' /\ Takes(t)'
        BY <2>2, <2>11, <2>12, <2>18, <3>1 DEF Takes
      <3>4. QED
        BY <2>10, <2>12, <2>13, <2>18, <3>2, <3>3
    <2>19. CASE ses'[s] = ses[s] /\ Tool(t)
      <3>1. y.pc = "done" /\ y.resp = x.resp /\ x.pc = "tool"
        BY <2>19, MoveFacts DEF Still
      <3>2. /\ Holds(Home) \subseteq Holds(Home)'
            /\ x.resp.act = "write" => x.resp.id \in Holds(Home)'
            /\ \A k \in Nat : Holds(k)' = Holds(k)
        <4>1. CASE trees' = trees /\ x.resp.act # "write"
          BY <2>12, <4>1
        <4>2. CASE trees' = Filled(Home, Holds(Home) \cup {x.resp.id})
          BY <2>4, <4>2 DEF Filled, Holds
        <4>3. QED
          BY <2>19, <4>1, <4>2 DEF Tool
      <3>3. ses[s].pc = "idle"
        BY <2>2, <3>1 DEF Ended
      <3>4. InWorld(t)' /\ Takes(t)'
        BY <2>2, <2>11, <3>1, <3>2, <3>3 DEF Takes
      <3>5. QED
        BY <2>10, <2>13, <2>19, <3>1, <3>2, <3>3, <3>4
    <2>20. CASE ses'[s] = ses[s] /\ Copies(t) /\ x.pc \in Taking
      <3>1. Into(t) = x.step /\ From(t) = Home
        BY <2>20 DEF Into, From, Restoring, Taking
      <3>2. Holds(Home)' = Holds(Home) /\ \A k \in Nat : k # x.step => Holds(k)' = Holds(k)
        BY <2>4, <2>20, <3>1, CopiesFacts DEF Apiece
      <3>3. /\ y.step = x.step /\ y.resp = x.resp
            /\ y.pc \in (Taking \ {"snap"}) \cup {"snapped", "dead"}
        BY <2>20, MoveFacts DEF Still, Ways, Restoring, Taking
      <3>4. ses[s].pc = "idle"
        BY <2>2, <2>20 DEF Taking, Ended
      <3>5. InWorld(t) /\ Takes(t)
        BY <2>2, <3>4
      <3>6. InWorld(t)'
        BY <2>11, <3>2, <3>3, <3>5 DEF Taking
      <3>7. x.pc \notin Appending
        BY <2>20 DEF Taking, Appending
      <3>8. \A i \in OwnWrites(t)' : i \in OwnWrites(t) /\ rt[i] = rs[i]
        BY <2>3, <2>5, <3>7 DEF Appending
      <3>9. Takes(t)'
        <4>1. SUFFICES ASSUME y.pc = "snapcopying"
                       PROVE  /\ y.got \subseteq Holds(x.step)'
                              /\ y.whole => \A i \in OwnWrites(t)' : rt[i].event.msg.id \in y.got \cup y.todo
          BY <2>5, <3>3 DEF Takes
        <4>2. CASE /\ y.todo = Holds(From(t)) /\ y.got = {}
          <5>1. \A i \in OwnWrites(t)' : rt[i].event.msg.id \in Holds(Home)
            BY <2>6, <3>5
          <5>2. QED
            BY <3>1, <4>2, <5>1
        <4>3. ASSUME x.pc = y.pc, y.whole = x.whole, NEW z \in Holds(From(t)),
                     y.todo = x.todo \ {z}, y.got = x.got \cup {z},
                     trees' = Filled(Into(t), Holds(Into(t)) \cup {z})
              PROVE  /\ y.got \subseteq Holds(x.step)'
                     /\ y.whole => \A i \in OwnWrites(t)' : rt[i].event.msg.id \in y.got \cup y.todo
          <5>1. Holds(x.step)' = Holds(x.step) \cup {z}
            BY <3>1, <3>3, <4>3 DEF Filled, Holds
          <5>2. y.got \subseteq Holds(x.step)'
            BY <3>5, <4>1, <4>3, <5>1 DEF Takes
          <5>3. ASSUME y.whole, NEW i \in OwnWrites(t)'
                PROVE  rt[i].event.msg.id \in y.got \cup y.todo
            <6>1. rt[i].event.msg.id \in x.got \cup x.todo
              BY <3>5, <3>8, <4>1, <4>3, <5>3 DEF Takes
            <6>2. QED
              BY <4>3, <6>1
          <5>4. QED
            BY <5>2, <5>3
        <4>4. CASE x.pc = y.pc /\ y.whole = FALSE /\ y.got = x.got /\ trees' = trees
          BY <2>12, <3>3, <3>5, <4>1, <4>4 DEF Takes
        <4>5. QED
          BY <2>20, <4>1, <4>2, <4>3, <4>4, CopyingFacts DEF Copying
      <3>10. \A k : Held(t, k) => k # x.step
        BY <1>3, <2>4, <2>20 DEF Held, Dated, SnapsDated, Taking
      <3>11. ASSUME NEW k \in Nat, Held(t, k)'
             PROVE  SnapHas(t, k)'
        <4>1. CASE Held(t, k)
          BY <2>9, <3>2, <3>10, <4>1
        <4>2. CASE y.pc = "snapped" /\ k = x.step
          <5>1. x.pc = "snapcopying" /\ x.todo = {} /\ x.whole /\ trees' = trees
            BY <2>20, <4>2, CopyingFacts DEF Copying, Taking
          <5>2. \A i \in OwnWrites(t)' : rt[i].event.msg.id \in Holds(k)'
            BY <2>12, <3>5, <3>8, <4>2, <5>1 DEF Takes
          <5>3. ASSUME NEW j \in Nat, <<t, j>> \in Holds(k)
                PROVE  j < k
            <6>1. <<t, j>> \in Asked
              BY <5>3 DEF Fresh
            <6>2. Past(t, j)
              BY <6>1 DEF Asked
            <6>3. QED
              BY <4>2, <5>1, <6>2 DEF Past, Answering, Ended
          <5>4. QED
            BY <2>5, <2>12, <5>1, <5>2, <5>3 DEF SnapHas
        <4>3. QED
          BY <2>5, <2>7, <3>3, <3>11, <4>1, <4>2 DEF Held
      <3>12. Restores(s)'
        BY <2>13, <2>20, <3>4
      <3>13. QED
        BY <2>20, <3>4, <3>6, <3>9, <3>11, <3>12
    <2>21. QED
      BY <2>1, <2>15, <2>16, <2>17, <2>18, <2>19, <2>20
  <1>4. QED
    BY <1>2, <1>3


-----------------------------------------------------------------------------
(* Restores: which snapshot, and a command that is alone *)

\* The snapshot is not newer than the step that was asked for.
Sooner == \A s \in Sessions : ses[s].restored # None => ses[s].restored <= ses[s].cmd.at

LEMMA SoonerInit == Init => Sooner
  BY DEF Init, Sooner, Idle

LEMMA SoonerNext ==
  ASSUME Typed, Sooner, [Next]_vars
  PROVE  Sooner'
  <1>1. CASE UNCHANGED vars
    BY <1>1 DEF vars, Sooner
  <1>2. ASSUME NEW u \in Sessions,
               \/ Started(u) \/ Copies(u) \/ Decide(u) \/ Open(u) \/ Put(u)
               \/ Ask(u) \/ Tool(u) \/ Crash(u)
        PROVE  Sooner'
    <2>1. Others(u)
      BY <1>2, MoveFacts, StartedAs DEF Birth, NewBorn, Moves
    <2>2. SUFFICES ses'[u].restored # None => ses'[u].restored <= ses'[u].cmd.at
      BY <2>1 DEF Sooner, Others
    <2>3. CASE ~Started(u)
      BY <1>2, <2>3, MoveFacts DEF Moves, Fixed, Sooner
    <2>4. CASE Started(u)
      <3>1. \A c \in Commands[u] : c.at \in Nat
        BY LineageAssumption
      <3>2. ASSUME NEW c \in Commands[u], Run(u, c)
            PROVE  ses'[u].restored = None
        BY <3>2, RunFacts
      <3>3. ASSUME NEW c \in Commands[u], NEW src \in DOMAIN files, Fails(u, c, src)
            PROVE  ses'[u].restored = None
        BY <2>4, <3>3, StartedAs, FailsFacts, MoverFacts DEF Birth, Idle
      <3>4. ASSUME NEW c \in Commands[u], NEW src \in DOMAIN files,
                   ForkPlanned(u, c, src) \/ ResumePlanned(u, c, src)
            PROVE  ses'[u].restored # None => ses'[u].restored <= ses'[u].cmd.at
        <4>1. ses'[u].cmd = c /\ ses'[u].restored \in {None, LatestBefore(c.at)}
          BY <3>4 DEF ForkPlanned, ResumePlanned
        <4>2. QED
          BY <3>1, <4>1, LatestTyped
      <3>5. QED
        BY <2>4, <3>2, <3>3, <3>4, StartedAs
    <2>5. QED
      BY <2>3, <2>4
  <1>3. QED
    BY <1>1, <1>2, NextActions

\* A command that may run beside no other is alone from its start to its end, and
\* what it restores is all there is in the workspace.
Alone ==
  \A s \in Running : ses[s].cmd.with = {} =>
    Running \subseteq {s} /\ (ses[s].pc = "copying" => Holds(Home) = ses[s].got)

LEMMA AloneInit == Init => Alone
  BY IdleFacts DEF Init, Alone, Running

\* Who starts finds nobody at work that does not admit it.
LEMMA StartedBeside ==
  ASSUME Typed, NEW s \in Sessions, Started(s)
  PROVE  \A u \in Running : u \in ses'[s].cmd.with /\ s \in ses[u].cmd.with
  <1>1. ASSUME NEW c \in Commands[s], Run(s, c)
        PROVE  ses'[s].cmd = c /\ Startable(s, c)
    BY <1>1, RunFacts DEF Run
  <1>2. ASSUME NEW c \in Commands[s], NEW src \in DOMAIN files, Fork(s, c, src)
        PROVE  ses'[s].cmd = c /\ Startable(s, c)
    BY <1>2, ForkFacts, FailsFacts DEF Fork, ForkPlanned, Startable
  <1>3. ASSUME NEW c \in Commands[s], NEW src \in DOMAIN files, Resume(s, c, src)
        PROVE  ses'[s].cmd = c /\ Startable(s, c)
    BY <1>3, ResumeFacts, FailsFacts DEF Resume, ResumePlanned, Startable
  <1>4. PICK c \in Commands[s] : ses'[s].cmd = c /\ Startable(s, c)
    BY <1>1, <1>2, <1>3 DEF Started
  <1>5. QED
    BY <1>4 DEF Startable

LEMMA AloneNext ==
  ASSUME Typed, Alone, [Next]_vars
  PROVE  Alone'
  <1>1. CASE UNCHANGED vars
    BY <1>1 DEF vars, Alone, Running, Holds
  <1>2. ASSUME NEW u \in Sessions,
               \/ Started(u) \/ Copies(u) \/ Decide(u) \/ Open(u) \/ Put(u)
               \/ Ask(u) \/ Tool(u) \/ Crash(u)
        PROVE  Alone'
    <2>1. Others(u)
      BY <1>2, MoveFacts, StartedAs DEF Birth, NewBorn, Moves
    <2>2. SUFFICES ASSUME NEW s \in Running', ses'[s].cmd.with = {}
                   PROVE  /\ \A t \in Running' : t = s
                          /\ ses'[s].pc = "copying" => Holds(Home)' = ses'[s].got
      BY DEF Alone
    <2>3. s \in Sessions /\ ses'[s].pc \notin Ended \cup {"idle"}
      BY DEF Running
    <2>4. CASE Started(u)
      <3>1. \A t \in Running : t \in ses'[u].cmd.with /\ u \in ses[t].cmd.with
        BY <2>4, StartedBeside
      <3>2. s = u
        BY <2>1, <2>2, <2>3, <3>1 DEF Running, Others
      <3>3. Running = {}
        BY <2>2, <3>1, <3>2
      <3>4. \A t \in Running' : t = s
        BY <2>1, <3>2, <3>3 DEF Running, Others
      <3>5. ses'[u].pc # "copying"
        BY <2>4, StartedAs DEF Birth
      <3>6. QED
        BY <3>2, <3>4, <3>5
    <2>5. CASE ~Started(u)
      <3>1. u \in Running /\ Moves(u)
        BY <1>2, <2>5, MoveFacts DEF Ways, Restoring, Taking, Appending, Ended, Running
      <3>2. s \in Running /\ ses'[s].cmd = ses[s].cmd
        BY <2>1, <2>3, <3>1 DEF Running, Others, Moves, Fixed
      <3>3. Running \subseteq {s} /\ (ses[s].pc = "copying" => Holds(Home) = ses[s].got)
        BY <2>2, <3>2 DEF Alone
      <3>4. u = s
        BY <3>1, <3>3
      <3>5. \A t \in Running' : t = s
        BY <2>1, <3>3, <3>4 DEF Running, Others
      <3>6. ASSUME ses'[s].pc = "copying"
            PROVE  Holds(Home)' = ses'[s].got
        <4>1. Copies(s) /\ Ways(s)
          BY <1>2, <2>5, <3>4, <3>6, MoveFacts DEF Followed, Carried, Begun, Appending
        <4>2. ses[s].pc \in Restoring
          BY <3>6, <4>1 DEF Ways, Taking
        <4>3. Into(s) = Home
          BY <4>2 DEF Into
        <4>4. ASSUME NEW w, trees' = Filled(Into(s), w)
              PROVE  Holds(Home)' = w
          BY <4>3, <4>4 DEF Filled, Holds
        <4>5. trees' = trees => Holds(Home)' = Holds(Home)
          BY DEF Holds
        <4>6. CASE ses'[s].got = {} /\ trees' = Filled(Into(s), {})
          BY <4>4, <4>6
        <4>7. ASSUME ses[s].pc = ses'[s].pc, NEW x \in Holds(From(s)),
                     ses'[s].got = ses[s].got \cup {x},
                     trees' = Filled(Into(s), Holds(Into(s)) \cup {x})
              PROVE  Holds(Home)' = ses'[s].got
          BY <3>3, <3>6, <4>3, <4>4, <4>7
        <4>8. CASE ses[s].pc = ses'[s].pc /\ ses'[s].got = ses[s].got /\ trees' = trees
          BY <3>3, <3>6, <4>5, <4>8
        <4>9. QED
          BY <2>3, <3>6, <4>1, <4>6, <4>7, <4>8, CopyingFacts DEF Copying
      <3>7. QED
        BY <3>5, <3>6
    <2>6. QED
      BY <2>4, <2>5
  <1>3. QED
    BY <1>1, <1>2, NextActions

-----------------------------------------------------------------------------
(* Theorems *)

\* Every session, tape, snapshot and message stays what it is declared to be.
THEOREM LineageTyped == Spec => [](Typed /\ Filed)
  <1>1. Init => Typed /\ Filed
    BY TypedInit, FiledInit
  <1>2. Typed /\ Filed /\ [Next]_vars => (Typed /\ Filed)'
    BY TypedNext, FiledNext
  <1>3. QED
    BY <1>1, <1>2, PTL DEF Spec

\* JsonlStore: what an append returned for is read back, in order and without a gap,
\* from any tape that one process writes and that can be read; only a death in a write
\* makes one that cannot (see CrashCostsNoStep).
THEOREM TapesReadBack == Spec => []ReadsBack
  <1> DEFINE Inv == Typed /\ Filed /\ TapesTell
  <1>1. Init => Inv
    BY TypedInit, FiledInit, TapesTellInit
  <1>2. Inv /\ [Next]_vars => Inv'
    BY TypedNext, FiledNext, TapesTellNext
  <1>3. Inv => ReadsBack
    BY ReadsBackFrom
  <1>4. QED
    BY <1>1, <1>2, <1>3, PTL DEF Spec

\* cmd_run, plan_fork and plan_resume: two runs share a tape only if --tape told one of
\* them to write there, or the same fork or resume was asked for twice, or both chose
\* their number while both were at work.
THEOREM SharedTapesAreNamesakes == Spec => []TwoRunsAreNamesakes
  <1> DEFINE Inv == Typed /\ Filed /\ TapesTell /\ Naming /\ Counted /\ StartsOnce
  <1>1. Init => Inv
    BY TypedInit, FiledInit, TapesTellInit, NamingInit, CountedInit
  <1>2. Inv /\ [Next]_vars => Inv'
    BY TypedNext, FiledNext, TapesTellNext, NamingNext, CountedNext, StartsOnceNext
  <1>3. Inv => TwoRunsAreNamesakes
    BY TwoRunsFrom
  <1>4. QED
    BY <1>1, <1>2, <1>3, PTL DEF Spec

\* plan_fork: a fork of a run's own tape that is called faithful without a restore tells
\* its model of no write, and a command that refuses has restored nothing. (That no
\* write ran at all is false of forks of forks; see FaithfulHasNoWrites.)
THEOREM ForksOwnUp == Spec => []ForkOwnsUp
  <1> DEFINE IInv == /\ Typed /\ Filed /\ Naming /\ TapesTell /\ Spoken /\ Paced /\ Accounted
                     /\ Owns
  <1>1. Init => IInv
    BY TypedInit, FiledInit, NamingInit, TapesTellInit, SpokenInit, PacedInit, AccountedInit, OwnsInit
  <1>2. IInv /\ [Next]_vars => IInv'
    BY TypedNext, FiledNext, NamingNext, TapesTellNext, SpokenNext, PacedNext, AccountedNext, OwnsNext
  <1>3. IInv => ForkOwnsUp
    BY OwnsUpFrom
  <1>4. QED
    BY <1>1, <1>2, <1>3, PTL DEF Spec

\* plan_fork and cmd_fork: a fork with nothing changed makes the requests of its source
\* from the fork step on and gets the responses on its tape, one by one, until one of the
\* two has ended or a read has shown it another workspace.
THEOREM ForksRepeatTheRest == Spec => []ForkRepeatsRest
  <1> DEFINE IInv == /\ Typed /\ Filed /\ Naming /\ TapesTell
                     /\ Heard /\ Requested /\ Chained /\ Keyed /\ Forked
  <1>1. Init => IInv
    BY TypedInit, FiledInit, NamingInit, TapesTellInit, HeardInit, RequestedInit, ChainedInit,
       KeyedInit, ForkedInit
  <1>2. IInv /\ [Next]_vars => IInv'
    BY TypedNext, FiledNext, NamingNext, TapesTellNext, HeardNext, RequestedNext, ChainedNext,
       KeyedNext, ForkedNext
  <1>3. IInv => ForkRepeatsRest
    BY RepeatsFrom
  <1>4. QED
    BY <1>1, <1>2, <1>3, PTL DEF Spec

\* SnapshotStore.take and restore: a restore that returns has copied, of the writes the
\* run of that tape asked for, none of the step asked for or later, and of the earlier
\* ones all but those made since the snapshot - though copies are made entry by entry,
\* other processes write between any two of them, and the one that took the snapshot may
\* have died in the next copy; and unless other commands may be at work, the workspace
\* holds that copy and nothing else.
THEOREM RestoresAreExact == Spec => RestoreIsExact
  <1> DEFINE IInv == /\ Typed /\ Filed /\ Naming /\ TapesTell /\ Spoken /\ Fresh /\ Dated
                     /\ Exact /\ Sooner /\ Alone
             Exactly == \A s, t \in Sessions :
               ses[s].pc = "copying" /\ ses'[s].pc = "decide"
                 /\ Sole(t) /\ ses[t].out = ses[s].src /\ t \notin ses[s].beside
                 /\ (\A u \in Sessions \ {s, t} : ses[u].pc # "idle" => ~ses[u].cmd.snaps)
                 /\ (\E i \in Places(Rs(ses[t].out), {"snapshot"}) :
                       Rs(ses[t].out)[i].event.step = ses[s].restored)
               => LET rs   == Rs(ses[t].out)
                      due  == OwnWrites(t) \cap WritesBefore(rs, ses[s].cmd.at)
                      late == {i \in due : rs[i].event.step >= ses[s].restored}
                  IN  /\ WriteIds(rs, OwnWrites(t)) \cap ses[s].got = WriteIds(rs, due \ late)
                      /\ ses[s].cmd.with = {} => trees[Home] = ses[s].got
  <1>1. Init => IInv
    BY TypedInit, FiledInit, NamingInit, TapesTellInit, SpokenInit, FreshInit, DatedInit,
       ExactInit, SoonerInit, AloneInit
  <1>2. IInv /\ [Next]_vars => IInv'
    BY TypedNext, FiledNext, NamingNext, TapesTellNext, SpokenNext, FreshNext, DatedNext,
       ExactNext, SoonerNext, AloneNext
  <1>3. IInv /\ [Next]_vars => [Exactly]_vars
    <2> SUFFICES ASSUME IInv, [Next]_vars, NEW s \in Sessions, NEW t \in Sessions,
                        ses[s].pc = "copying", ses'[s].pc = "decide", Sole(t),
                        ses[t].out = ses[s].src, t \notin ses[s].beside,
                        \A u \in Sessions \ {s, t} : ses[u].pc # "idle" => ~ses[u].cmd.snaps,
                        \E i \in Places(Rs(ses[t].out), {"snapshot"}) :
                          Rs(ses[t].out)[i].event.step = ses[s].restored
                 PROVE  LET rs   == Rs(ses[t].out)
                            due  == OwnWrites(t) \cap WritesBefore(rs, ses[s].cmd.at)
                            late == {i \in due : rs[i].event.step >= ses[s].restored}
                        IN  /\ WriteIds(rs, OwnWrites(t)) \cap ses[s].got = WriteIds(rs, due \ late)
                            /\ ses[s].cmd.with = {} => trees[Home] = ses[s].got
      OBVIOUS
    <2> DEFINE rs   == Rs(ses[t].out)
               k    == ses[s].restored
               due  == OwnWrites(t) \cap WritesBefore(rs, ses[s].cmd.at)
               late == {i \in due : rs[i].event.step >= k}
    <2>1. Copies(s)
      <3>1. PICK u \in Sessions :
              \/ Started(u) \/ Copies(u) \/ Decide(u) \/ Open(u) \/ Put(u)
              \/ Ask(u) \/ Tool(u) \/ Crash(u)
        BY NextActions DEF vars
      <3>2. u = s
        BY <3>1, MoveFacts, StartedAs DEF Birth, NewBorn, Moves, Others
      <3>3. ~Started(s) /\ ~Put(s)
        BY StartedAs, MoverFacts DEF Birth, Appending
      <3>4. QED
        BY <3>1, <3>2, <3>3, MoveFacts
    <2>2. /\ ses[s].todo = {} /\ ses[s].whole /\ Into(s) = Home /\ Home \in DOMAIN trees
          /\ k \in Nat /\ ses[s].cmd.at \in Nat /\ k <= ses[s].cmd.at
      <3>1. k \in Nat /\ Into(s) = Home
        BY DEF Typed, SessionTyped, Into, Restoring
      <3>2. ses[s].cmd \in Commands[s]
        BY DEF Typed, SessionTyped
      <3>3. ses[s].cmd.at \in Nat
        BY <3>2, LineageAssumption
      <3>4. k # None
        BY <3>1 DEF None
      <3>5. QED
        BY <2>1, <3>1, <3>3, <3>4, CopyingFacts DEF Sooner
    <2>3. Apart(s, t)
      <3>1. ses[t].pc \in Live \cup {"over", "dead"}
        BY SoleFacts DEF Filed
      <3>2. s # t
        BY <3>1 DEF Live, Taking, Appending
      <3>3. QED
        BY <3>2 DEF Apart, Restoring
    <2>4. SnapHas(t, k) /\ Restores(s)
      BY <2>2, <2>3 DEF Exact, Held
    <2>5. ses[s].got = Holds(k)
      BY <2>2, <2>4 DEF Restores
    <2>6. ASSUME NEW i \in OwnWrites(t)
          PROVE  /\ rs[i].event.msg.id \in ses[s].got <=> rs[i].event.step < k
                 /\ i \in due \ late <=> rs[i].event.step < k
      <3>1. rs[i].event.msg.id = <<t, rs[i].event.step>>
        BY DEF Dated, OwnWritesDated
      <3>2. rs \in Seq(Stamped) /\ i \in 1..Len(rs) /\ i \in Writes(rs)
        BY SoleLength DEF OwnWrites, Writes, Places
      <3>3. rs[i].event.step \in Nat
        BY <3>2, StampedFacts
      <3>4. rs[i].event.msg.id \in ses[s].got <=> rs[i].event.step < k
        BY <2>4, <2>5, <3>1, <3>3 DEF SnapHas
      <3>5. i \in due <=> rs[i].event.step < ses[s].cmd.at
        BY <3>2 DEF WritesBefore
      <3> HIDE DEF due, rs, k
      <3>6. i \in due \ late <=> rs[i].event.step < k
        BY <2>2, <3>3, <3>5 DEF k
      <3>7. QED
        BY <3>4, <3>6
    <2>7. WriteIds(rs, OwnWrites(t)) \cap ses[s].got = WriteIds(rs, due \ late)
      <3>1. due \ late \subseteq OwnWrites(t)
        OBVIOUS
      <3> HIDE DEF due, late, rs
      <3>2. QED
        BY <2>6, <3>1 DEF WriteIds
    <2>8. ses[s].cmd.with = {} => trees[Home] = ses[s].got
      BY <2>2 DEF Alone, Running, Ended, Holds
    <2>9. QED
      BY <2>7, <2>8
  <1>4. RestoreIsExact <=> [][Exactly]_vars
    BY DEF RestoreIsExact
  <1> HIDE DEF Exactly
  <1>5. QED
    BY <1>1, <1>2, <1>3, <1>4, PTL DEF Spec

=============================================================================
