---------------------------- MODULE ToolGateProofs ----------------------------
(***************************************************************************)
(* Proofs about ToolGate: what the rule file denies never runs, and what   *)
(* is a question runs only after somebody agreed to it, for every file,    *)
(* every set of tools and any number of calls; and a call gets its own     *)
(* answer.                                                                 *)
(***************************************************************************)
EXTENDS ToolGate, WellFoundedInduction, SequenceTheorems, TLAPS

-----------------------------------------------------------------------------
(* The rules of a file: deny entries come first, so that one that matches decides. *)

LEMMA LeastIndex ==
  ASSUME NEW T, T \subseteq Nat, T # {}
  PROVE  \E x \in T : \A y \in T : x <= y
<1>. DEFINE R == OpToRel(<, Nat)
<1>1. IsWellFoundedOn(R, Nat)
  BY NatLessThanWellFounded
<1>2. \E x \in T : \A y \in T : ~(<<y, x>> \in R)
  <2>. HIDE DEF R
  <2>. QED  BY <1>1, WFMin
<1>3. R = {ss \in Nat \X Nat : ss[1] < ss[2]}
  BY DEF OpToRel
<1>4. \A x, y \in Nat : y < x => <<y, x>> \in R
  <2>. HIDE DEF R
  <2>. QED  BY <1>3
<1>. HIDE DEF R
<1>5. PICK x \in T : \A y \in T : ~(<<y, x>> \in R)
  BY <1>2
<1>6. ASSUME NEW y \in T PROVE x <= y
  <2>1. ~(<<y, x>> \in R) /\ x \in Nat /\ y \in Nat
    BY <1>5
  <2>2. ~(y < x)
    BY <1>4, <2>1
  <2>. QED  BY <2>1, <2>2
<1>. QED  BY <1>6

RuleSet == [tool : STRING, words : Seq(STRING), open : BOOLEAN,
            verdict : {"deny", "allow", "ask"}]

LEMMA EntriesTyped ==
  ASSUME NEW f \in Tables, NEW v \in {"deny", "allow", "ask"}
  PROVE  /\ Entries(f, v) \in Seq(RuleSet) /\ DOMAIN Entries(f, v) = DOMAIN f[v]
         /\ \A i \in DOMAIN f[v] :
              Entries(f, v)[i] = [tool |-> f[v][i].tool, words |-> f[v][i].words,
                                  open |-> f[v][i].open, verdict |-> v]
<1>1. f[v] \in Seq(Entry)
  BY DEF Tables
<1>2. DOMAIN f[v] = 1..Len(f[v]) /\ Len(f[v]) \in Nat /\ \A i \in DOMAIN f[v] : f[v][i] \in Entry
  BY <1>1
<1>3. \A i \in DOMAIN f[v] : Entries(f, v)[i] \in RuleSet
  BY <1>2 DEF Entries, Entry, RuleSet
<1>4. Entries(f, v) \in [1..Len(f[v]) -> RuleSet]
  BY <1>2, <1>3 DEF Entries
<1>5. Entries(f, v) \in Seq(RuleSet)
  BY <1>2, <1>4, SeqDef
<1>. QED  BY <1>5 DEF Entries

LEMMA LoadedRules ==
  ASSUME NEW f \in Tables
  PROVE  /\ Loaded(f) \in Seq(RuleSet)
         /\ \A i \in DOMAIN f["deny"] :
              /\ i \in DOMAIN Loaded(f)
              /\ \A j \in 1..i : Loaded(f)[j].verdict = "deny"
              /\ \A tool, rendered :
                   Matches(Loaded(f)[i], tool, rendered) <=> Matches(f["deny"][i], tool, rendered)
<1>. DEFINE a == Entries(f, "deny")  b == Entries(f, "allow")  c == Entries(f, "ask")
<1>1. a \in Seq(RuleSet) /\ b \in Seq(RuleSet) /\ c \in Seq(RuleSet)
  BY EntriesTyped
<1>2. DOMAIN a = 1..Len(a) /\ Len(a) \in Nat /\ DOMAIN a = DOMAIN f["deny"]
  BY <1>1, EntriesTyped
<1>3. Loaded(f) = a \o b \o c
  BY DEF Loaded
<1>0. ASSUME NEW i \in DOMAIN f["deny"]
      PROVE  /\ a[i].verdict = "deny" /\ a[i].tool = f["deny"][i].tool
             /\ a[i].words = f["deny"][i].words /\ a[i].open = f["deny"][i].open
  <2>1. a[i] = [tool |-> f["deny"][i].tool, words |-> f["deny"][i].words,
                open |-> f["deny"][i].open, verdict |-> "deny"]
    BY EntriesTyped, Zenon
  <2>. HIDE DEF a
  <2>. QED  BY <2>1
<1>4. \A i \in DOMAIN f["deny"] : a[i].verdict = "deny"
  BY <1>0
<1>5. ASSUME NEW i \in DOMAIN f["deny"], NEW tool, NEW rendered
      PROVE  Matches(a[i], tool, rendered) <=> Matches(f["deny"][i], tool, rendered)
  <2>. HIDE DEF a
  <2>. QED  BY <1>0 DEF Matches
<1>. HIDE DEF a, b, c
<1>6. /\ a \o b \o c \in Seq(RuleSet)
      /\ \A i \in 1..Len(a) : i \in DOMAIN (a \o b \o c) /\ (a \o b \o c)[i] = a[i]
  BY <1>1
<1>7. ASSUME NEW i \in DOMAIN f["deny"], NEW j \in 1..i
      PROVE  j \in DOMAIN f["deny"]
  BY <1>2
<1>. QED  BY <1>2, <1>3, <1>4, <1>5, <1>6, <1>7

LEMMA DenyDecides ==
  ASSUME NEW f \in Tables,
         NEW p, p.rules = Loaded(f), NEW tool, NEW rendered, NEW effect,
         NEW i \in DOMAIN f["deny"], Matches(f["deny"][i], tool, rendered)
  PROVE  Decided(p, tool, rendered, effect) = "deny"
<1>. DEFINE M == {k \in DOMAIN Loaded(f) : Matches(Loaded(f)[k], tool, rendered)}
<1>1. DOMAIN Loaded(f) = 1..Len(Loaded(f)) /\ Len(Loaded(f)) \in Nat
  BY LoadedRules
<1>2. i \in M /\ i \in Nat
  <2>1. i \in DOMAIN Loaded(f)
    BY LoadedRules
  <2>2. Matches(Loaded(f)[i], tool, rendered)
    BY LoadedRules, Zenon
  <2>. QED  BY <1>1, <2>1, <2>2
<1>3. PICK k \in M : \A y \in M : k <= y
  <2>1. M \subseteq Nat /\ M # {}
    BY <1>1, <1>2
  <2>. HIDE DEF M
  <2>. QED  BY <2>1, LeastIndex
<1>4. k \in Deciding(Loaded(f), tool, rendered)
  BY <1>1, <1>3 DEF Deciding
<1>5. ASSUME NEW m \in Deciding(Loaded(f), tool, rendered)
      PROVE  Loaded(f)[m].verdict = "deny"
  <2>1. m \in 1..Len(Loaded(f)) /\ \A j \in 1..(m - 1) : j \notin M
    BY <1>1 DEF Deciding
  <2>2. m <= i
    BY <1>1, <1>2, <2>1
  <2>. QED  BY <2>1, <2>2, <1>2, LoadedRules
<1>. QED  BY <1>4, <1>5 DEF Decided

-----------------------------------------------------------------------------
(* The inductive invariant: whatever has run, is about to run or is on its way to the *)
(* server has been cleared by the policy, and nothing moves before the tools are known. *)

Denied(c) == \E i \in DOMAIN policy.file["deny"] :
               Matches(policy.file["deny"][i], c.tool, Rendered(c.args))
Agreed(c) == \/ Verdict(c) = "allow"
             \/ \E d \in said : d.tool = c.tool /\ Rendered(d.args) = Rendered(c.args)
Cleared(c) == ~Denied(c) /\ Agreed(c)

Requests == [id : Nat, method : {"initialize", "notifications/initialized", "tools/list", "tools/call"},
             call : Calls \cup {None}]
Shaking == {"start", "hello", "listing"}

Shaped == /\ next_id \in Nat /\ toServer \in Seq(Requests) /\ call \in Calls \cup {None}
          /\ policy.file \in Files /\ policy.rules = Loaded(policy.file)
GrantsSaid == \A g \in grants : \E d \in said : g = Grant(d.tool, Rendered(d.args))
Quiet == pc \in Shaking => ran = {} /\ \A i \in 1..Len(toServer) : toServer[i].method # "tools/call"
Carried == \A i \in 1..Len(toServer) : toServer[i].method = "tools/call" => Cleared(toServer[i].call)
Held == pc \in {"allowed", "calling"} => Cleared(call)
Ran == \A c \in ran : Cleared(c)
GateInv == Shaped /\ GrantsSaid /\ Quiet /\ Carried /\ Held /\ Ran

LEMMA GateInit == Init => GateInv
<1>. SUFFICES ASSUME Init PROVE GateInv
  OBVIOUS
<1>1. PICK file \in Files, strict \in BOOLEAN, attended \in BOOLEAN :
        policy = [rules |-> Loaded(file), strict |-> strict, attended |-> attended, file |-> file]
  BY DEF Init
<1>2. policy.file \in Files /\ policy.rules = Loaded(policy.file)
  BY <1>1
<1>3. toServer = <<>> /\ toServer \in Seq(Requests) /\ Len(toServer) = 0
  <2>1. toServer = <<>>
    BY DEF Init
  <2>. QED  BY <2>1, EmptySeq
<1>4. pc = "start" /\ grants = {} /\ ran = {} /\ next_id = 1 /\ call = None
  BY DEF Init
<1>. QED  BY <1>2, <1>3, <1>4 DEF GateInv, Shaped, GrantsSaid, Quiet, Carried, Held, Ran, Shaking

\* A call whose verdict is not deny is not denied by the file.
LEMMA NotDenied ==
  ASSUME Shaped, NEW c, Verdict(c) # "deny"
  PROVE  ~Denied(c)
<1>1. policy.file \in Tables
  BY ToolGateAssumption DEF Shaped
<1>2. SUFFICES ASSUME NEW i \in DOMAIN policy.file["deny"],
                      Matches(policy.file["deny"][i], c.tool, Rendered(c.args))
               PROVE  FALSE
  BY DEF Denied
<1>3. Decided(policy, c.tool, Rendered(c.args), Effect(c.tool)) = "deny"
  BY <1>1, <1>2, DenyDecides DEF Shaped
<1>. QED  BY <1>3 DEF Verdict

\* What is cleared stays cleared while policy and registry are the same.
LEMMA ClearedStays ==
  ASSUME policy' = policy, registry' = registry, said \subseteq said', NEW c, Cleared(c)
  PROVE  Cleared(c)'
BY DEF Cleared, Denied, Agreed, Verdict, Effect

LEMMA SendsShape ==
  ASSUME Shaped, NEW lines \in Seq(Requests), NEW what \in Calls \cup {None},
         NEW method \in {"initialize", "tools/list", "tools/call"}, Sends(lines, method, what)
  PROVE  /\ next_id' \in Nat /\ toServer' \in Seq(Requests)
         /\ \A i \in 1..Len(toServer') :
              \/ i \in 1..Len(toServer) /\ toServer'[i] = toServer[i]
              \/ \E j \in 1..Len(lines) : toServer'[i] = lines[j]
              \/ toServer'[i] = Request(next_id, method, what)
<1>. DEFINE r == Request(next_id, method, what)
<1>1. r \in Requests /\ toServer \in Seq(Requests) /\ next_id \in Nat
  BY DEF Shaped, Request, Requests
<1>2. toServer' = toServer \o lines \o <<r>> /\ next_id' = next_id + 1
  BY DEF Sends
<1>. HIDE DEF r, Requests
<1>. QED  BY <1>1, <1>2 DEF r

-----------------------------------------------------------------------------
(* One lemma for the steps of the handshake, one for those of a call, one for the server. *)

LEMMA HandshakeSteps ==
  ASSUME GateInv, Start \/ Greeted \/ Import \/ Fail
  PROVE  GateInv'
<1>. USE DEF GateInv
<1>1. CASE Start
  <2>1. None \in Calls \cup {None} /\ <<>> \in Seq(Requests) /\ Sends(<<>>, "initialize", None)
    BY <1>1 DEF Start
  <2>3. /\ next_id' \in Nat /\ toServer' \in Seq(Requests)
        /\ \A i \in 1..Len(toServer') :
             \/ i \in 1..Len(toServer) /\ toServer'[i] = toServer[i]
             \/ \E j \in 1..Len(<<>>) : toServer'[i] = <<>>[j]
             \/ toServer'[i] = Request(next_id, "initialize", None)
    BY <2>1, SendsShape, Zenon
  <2>2. toServer' \in Seq(Requests) /\ next_id' \in Nat
        /\ \A i \in 1..Len(toServer') : toServer'[i].method # "tools/call"
    BY <2>3, <1>1 DEF Start, Quiet, Shaking, Request
  <2>. QED  BY <1>1, <2>2 DEF Start, host, Shaped, GrantsSaid, Quiet, Carried, Held, Ran, Shaking
<1>2. CASE Greeted
  <2>. DEFINE note == Request(0, "notifications/initialized", None)
  <2>1. note \in Requests /\ note.method # "tools/call"
    BY DEF Request, Requests
  <2>2. <<note>> \in Seq(Requests) /\ Sends(<<note>>, "tools/list", None) /\ None \in Calls \cup {None}
        /\ \A j \in 1..Len(<<note>>) : <<note>>[j] = note
    BY <1>2, <2>1 DEF Greeted
  <2>. HIDE DEF note
  <2>4. /\ next_id' \in Nat /\ toServer' \in Seq(Requests)
        /\ \A i \in 1..Len(toServer') :
             \/ i \in 1..Len(toServer) /\ toServer'[i] = toServer[i]
             \/ \E j \in 1..Len(<<note>>) : toServer'[i] = <<note>>[j]
             \/ toServer'[i] = Request(next_id, "tools/list", None)
    BY <2>2, SendsShape, Zenon
  <2>3. toServer' \in Seq(Requests) /\ next_id' \in Nat
        /\ \A i \in 1..Len(toServer') : toServer'[i].method # "tools/call"
    BY <2>1, <2>2, <2>4, <1>2 DEF Greeted, Quiet, Shaking, Request
  <2>. QED  BY <1>2, <2>3 DEF Greeted, host, Shaped, GrantsSaid, Quiet, Carried, Held, Ran, Shaking
<1>3. CASE Import
  <2>1. pc = "listing" /\ pc' \in {"loop", "failed"}
    BY <1>3 DEF Import
  <2>. QED
    BY <1>3, <2>1 DEF Import, Shaped, GrantsSaid, Quiet, Carried, Held, Ran, Shaking
<1>4. CASE Fail
  <2>1. pc \in Shaking /\ pc' = "failed"
    BY <1>4 DEF Fail, Shaking
  <2>. QED
    BY <1>4, <2>1 DEF Fail, host, Shaped, GrantsSaid, Quiet, Carried, Held, Ran, Shaking
<1>. QED  BY <1>1, <1>2, <1>3, <1>4

LEMMA DecideStep ==
  ASSUME GateInv, Decide
  PROVE  GateInv'
<1>. USE DEF GateInv
<1>1. /\ pc = "loop" /\ policy' = policy /\ registry' = registry /\ next_id' = next_id
      /\ toServer' = toServer /\ ran' = ran
  BY DEF Decide
<1>2. PICK c \in Calls :
        /\ call' = c
        /\ \/ Verdict(c) = "ask" /\ Ask(c)
           \/ Verdict(c) = "allow" /\ pc' = "allowed" /\ UNCHANGED <<grants, said>>
           \/ Verdict(c) = "deny" /\ pc' = "loop" /\ UNCHANGED <<grants, said>>
  BY DEF Decide
<1>3. said \subseteq said' /\ pc' \in {"loop", "allowed"}
  BY <1>2 DEF Ask
<1>4. GrantsSaid'
  BY <1>2 DEF Ask, GrantsSaid
<1>5. Held'
  <2>. SUFFICES ASSUME pc' = "allowed" PROVE Cleared(c)'
    BY <1>2, <1>3 DEF Held
  <2>1. ~Denied(c)
    BY <1>2, NotDenied
  <2>2. ~Denied(c)'
    BY <2>1, <1>1 DEF Denied
  <2>3. CASE Verdict(c) = "ask" /\ Granted(c)
    <3>1. said' = said
      BY <2>3, <1>2 DEF Ask
    <3>2. PICK d \in said : Grant(c.tool, Rendered(c.args)) = Grant(d.tool, Rendered(d.args))
      BY <2>3 DEF Granted, GrantsSaid
    <3>. QED  BY <3>1, <3>2, <2>2 DEF Cleared, Agreed, Grant
  <2>4. CASE Verdict(c) = "ask" /\ ~Granted(c)
    <3>1. c \in said'
      BY <2>4, <1>2 DEF Ask
    <3>. QED  BY <3>1, <2>2 DEF Cleared, Agreed
  <2>5. CASE Verdict(c) = "allow"
    <3>1. Verdict(c)' = "allow"
      BY <2>5, <1>1 DEF Verdict, Effect
    <3>. QED  BY <3>1, <2>2 DEF Cleared, Agreed
  <2>. QED  BY <1>2, <2>3, <2>4, <2>5
<1>6. Carried' /\ Ran'
  BY <1>1, <1>3, ClearedStays DEF Carried, Ran
<1>. QED  BY <1>1, <1>2, <1>3, <1>4, <1>5, <1>6 DEF Shaped, Quiet, Shaking

LEMMA CallSteps ==
  ASSUME GateInv, Dispatch \/ Invoke \/ Return \/ Broken
  PROVE  GateInv'
<1>. USE DEF GateInv
<1>1. policy' = policy /\ registry' = registry /\ said' = said /\ grants' = grants /\ call' = call
  BY DEF Dispatch, Invoke, Return, Broken, host
<1>2. \A c : Cleared(c) => Cleared(c)'
  BY <1>1, ClearedStays
<1>3. CASE Dispatch
  BY <1>1, <1>2, <1>3 DEF Dispatch, Shaped, GrantsSaid, Quiet, Carried, Held, Ran, Shaking
<1>4. CASE Invoke
  <2>1. <<>> \in Seq(Requests) /\ Sends(<<>>, "tools/call", call) /\ call \in Calls \cup {None}
        /\ Cleared(call) /\ pc' = "calling" /\ ran' = ran
    BY <1>4 DEF Invoke, Shaped, Held
  <2>2. /\ next_id' \in Nat /\ toServer' \in Seq(Requests)
        /\ \A i \in 1..Len(toServer') :
             \/ i \in 1..Len(toServer) /\ toServer'[i] = toServer[i]
             \/ \E j \in 1..Len(<<>>) : toServer'[i] = <<>>[j]
             \/ toServer'[i] = Request(next_id, "tools/call", call)
    BY <2>1, SendsShape, Zenon
  <2>3. Carried'
    BY <1>2, <2>1, <2>2 DEF Carried, Request
  <2>. QED  BY <1>1, <1>2, <2>1, <2>2, <2>3 DEF Shaped, GrantsSaid, Quiet, Held, Ran, Shaking
<1>5. CASE Return
  BY <1>1, <1>2, <1>5 DEF Return, Shaped, GrantsSaid, Quiet, Carried, Held, Ran, Shaking
<1>6. CASE Broken
  BY <1>1, <1>2, <1>6 DEF Broken, Shaped, GrantsSaid, Quiet, Carried, Held, Ran, Shaking
<1>. QED  BY <1>3, <1>4, <1>5, <1>6

LEMMA ServerSteps ==
  ASSUME GateInv, Serve \/ Chatter \/ Die
  PROVE  GateInv'
<1>. USE DEF GateInv
<1>1. /\ policy' = policy /\ registry' = registry /\ said' = said /\ grants' = grants
      /\ call' = call /\ pc' = pc /\ next_id' = next_id
  BY DEF Serve, Chatter, Die, host
<1>2. \A c : Cleared(c) => Cleared(c)'
  BY <1>1, ClearedStays
<1>3. CASE Serve
  <2>1. /\ toServer # <<>> /\ toServer' = Tail(toServer)
        /\ ran' = IF Head(toServer).method = "tools/call" THEN ran \cup {Head(toServer).call} ELSE ran
    BY <1>3 DEF Serve
  <2>2. toServer \in Seq(Requests)
    BY DEF Shaped
  <2>3. /\ toServer' \in Seq(Requests) /\ 1 \in 1..Len(toServer) /\ Head(toServer) = toServer[1]
        /\ \A i \in 1..Len(toServer') : i + 1 \in 1..Len(toServer) /\ toServer'[i] = toServer[i + 1]
    <3>. HIDE DEF Requests
    <3>. QED  BY <2>1, <2>2
  <2>4. Carried' /\ Ran'
    BY <1>2, <2>1, <2>3 DEF Carried, Ran
  <2>5. Quiet'
    BY <1>1, <2>1, <2>3 DEF Quiet
  <2>. QED  BY <1>1, <1>2, <2>3, <2>4, <2>5 DEF Shaped, GrantsSaid, Held
<1>4. CASE Chatter
  BY <1>1, <1>2, <1>4 DEF Chatter, Shaped, GrantsSaid, Quiet, Carried, Held, Ran
<1>5. CASE Die
  <2>1. toServer' = <<>> /\ toServer' \in Seq(Requests) /\ Len(toServer') = 0 /\ ran' = ran
    BY <1>5 DEF Die
  <2>. QED  BY <1>1, <1>2, <2>1 DEF Shaped, GrantsSaid, Quiet, Carried, Held, Ran
<1>. QED  BY <1>3, <1>4, <1>5

LEMMA GateNext == GateInv /\ [Next]_vars => GateInv'
<1>. SUFFICES ASSUME GateInv, [Next]_vars PROVE GateInv'
  OBVIOUS
<1>1. CASE UNCHANGED vars
  <2>1. \A c : Cleared(c) => Cleared(c)'
    BY <1>1, ClearedStays DEF vars
  <2>. QED  BY <1>1, <2>1 DEF vars, GateInv, Shaped, GrantsSaid, Quiet, Carried, Held, Ran
<1>. QED  BY <1>1, HandshakeSteps, DecideStep, CallSteps, ServerSteps DEF Next

-----------------------------------------------------------------------------

\* No tool runs on a call that a deny entry of the rule file matches, local or remote,
\* with any grants (permissions.py:87-108).
THEOREM DeniedNeverRunsHolds == Spec => []DeniedNeverRuns
<1>1. GateInv => DeniedNeverRuns
  BY DEF GateInv, Ran, Cleared, Denied, DeniedNeverRuns
<1>. QED  BY GateInit, GateNext, <1>1, PTL DEF Spec

\* A tool that runs on a question was agreed to, by a human, for its rendered arguments
\* (permissions.py:110-123, client.py:135-157).
THEOREM AskedRunsAgreedHolds == Spec => []AskedRunsAgreed
<1>1. GateInv => AskedRunsAgreed
  BY DEF GateInv, Ran, Cleared, Agreed, AskedRunsAgreed
<1>. QED  BY GateInit, GateNext, <1>1, PTL DEF Spec

-----------------------------------------------------------------------------
(* Whose answer a call gets, for any registry, any number of calls and any *)
(* number of lines nobody asked for.                                       *)
(*                                                                         *)
(* The two pipes are one queue, answers in front of requests.  A line that *)
(* nobody asked for, and a notification, has id 0; the other ids in the    *)
(* queue are lo, lo + 1, ... in this order.                                *)


Has(c, s, j) == \/ \E i \in 1..Len(c) : c[i].id = j
                \/ \E i \in 1..Len(s) : s[i].id = j

Rising(q) == \A i, k \in 1..Len(q) : i < k /\ q[i].id # 0 /\ q[k].id # 0 => q[i].id < q[k].id

Ids(q) == Len(q) \in Nat /\ \A i \in 1..Len(q) : q[i].id \in Nat

\* Answers c and requests s: from lo on, without a gap, in order.
Chain(c, s, lo) ==
  /\ Ids(c) /\ Ids(s) /\ Rising(c) /\ Rising(s)
  /\ \A i \in 1..Len(c), k \in 1..Len(s) :
       c[i].id # 0 /\ s[k].id # 0 => c[i].id < s[k].id
  /\ \A j \in Nat \ {0} : Has(c, s, j) => lo <= j /\ \A h \in lo..j : Has(c, s, h)

\* The next answer is the one to lo.
LEMMA FirstIsLo ==
  ASSUME NEW c, NEW s, NEW lo \in Nat \ {0}, Chain(c, s, lo), Len(c) # 0, c[1].id # 0
  PROVE  c[1].id = lo
<1>1. Len(c) \in Nat /\ 1 \in 1..Len(c) /\ c[1].id \in Nat \ {0}
  BY DEF Chain, Ids
<1>2. Has(c, s, c[1].id)
  BY <1>1 DEF Has
<1>3. lo <= c[1].id /\ Has(c, s, lo)
  BY <1>1, <1>2 DEF Chain
<1>4. CASE \E i \in 1..Len(c) : c[i].id = lo
  <2>1. PICK i \in 1..Len(c) : c[i].id = lo
    BY <1>4
  <2>2. i # 1 => c[1].id < c[i].id
    BY <1>1, <2>1 DEF Chain, Rising
  <2> QED
    BY <1>1, <1>3, <2>1, <2>2
<1>5. CASE \E i \in 1..Len(s) : s[i].id = lo
  BY <1>1, <1>3, <1>5 DEF Chain
<1> QED
  BY <1>3, <1>4, <1>5 DEF Has

\* It is read.
LEMMA ReadFirst ==
  ASSUME NEW c, NEW c2, NEW s, NEW lo \in Nat \ {0}, Chain(c, s, lo), Len(c) # 0,
         Len(c2) = Len(c) - 1, \A i \in 1..Len(c2) : c2[i] = c[i + 1]
  PROVE  /\ Chain(c2, s, IF c[1].id = 0 THEN lo ELSE lo + 1)
         /\ \A j \in Nat \ {0} : Has(c2, s, j) <=> Has(c, s, j) /\ j # c[1].id
<1> DEFINE to == IF c[1].id = 0 THEN lo ELSE lo + 1
<1>1. /\ Len(c) \in Nat /\ Len(c2) \in Nat /\ to \in Nat \ {0} /\ 1 \in 1..Len(c)
      /\ \A i \in 1..Len(c2) : i + 1 \in 1..Len(c) /\ c2[i] = c[i + 1]
      /\ c[1].id \in Nat
  BY DEF Chain, Ids
<1>2. /\ Ids(c2) /\ Ids(s) /\ Rising(c2) /\ Rising(s)
      /\ \A i \in 1..Len(c2), k \in 1..Len(s) :
           c2[i].id # 0 /\ s[k].id # 0 => c2[i].id < s[k].id
  <2>1. Ids(c2) /\ Ids(s) /\ Rising(s)
    BY <1>1 DEF Chain, Ids
  <2>2. Rising(c2)
    <3> SUFFICES ASSUME NEW i \in 1..Len(c2), NEW k \in 1..Len(c2), i < k,
                        c2[i].id # 0, c2[k].id # 0
                 PROVE  c2[i].id < c2[k].id
      BY DEF Rising
    <3>1. /\ i + 1 \in 1..Len(c) /\ k + 1 \in 1..Len(c) /\ i + 1 < k + 1
          /\ c2[i] = c[i + 1] /\ c2[k] = c[k + 1]
      BY <1>1
    <3> QED
      BY <3>1 DEF Chain, Rising
  <2>3. ASSUME NEW i \in 1..Len(c2), NEW k \in 1..Len(s), c2[i].id # 0, s[k].id # 0
        PROVE  c2[i].id < s[k].id
    BY <1>1, <2>3 DEF Chain
  <2> QED
    BY <2>1, <2>2, <2>3
<1>3. ASSUME NEW j \in Nat \ {0}
      PROVE  Has(c2, s, j) <=> Has(c, s, j) /\ j # c[1].id
  <2>1. Has(c2, s, j) => Has(c, s, j)
    <3>1. CASE \E i \in 1..Len(c2) : c2[i].id = j
      <4>1. PICK i \in 1..Len(c2) : c2[i].id = j
        BY <3>1
      <4>2. i + 1 \in 1..Len(c) /\ c[i + 1].id = j
        BY <1>1, <4>1
      <4> QED
        BY <4>2 DEF Has
    <3>2. CASE \E i \in 1..Len(s) : s[i].id = j
      BY <3>2 DEF Has
    <3> QED
      BY <3>1, <3>2 DEF Has
  <2>2. ASSUME Has(c2, s, j) PROVE j # c[1].id
    <3>1. CASE \E i \in 1..Len(c2) : c2[i].id = j
      <4>1. PICK i \in 1..Len(c2) : c2[i].id = j
        BY <3>1
      <4>2. i + 1 \in 1..Len(c) /\ 1 < i + 1 /\ c[i + 1].id = j
        BY <1>1, <4>1
      <4>3. c[1].id # 0 => c[1].id < j
        BY <1>1, <4>2 DEF Chain, Rising
      <4> QED
        BY <1>1, <4>3
    <3>2. CASE \E i \in 1..Len(s) : s[i].id = j
      BY <1>1, <3>2 DEF Chain
    <3> QED
      BY <2>2, <3>1, <3>2 DEF Has
  <2>3. ASSUME Has(c, s, j), j # c[1].id PROVE Has(c2, s, j)
    <3>1. CASE \E i \in 1..Len(c) : c[i].id = j
      <4>1. PICK i \in 1..Len(c) : c[i].id = j
        BY <3>1
      <4>2. i # 1 /\ i - 1 \in 1..Len(c2) /\ c2[i - 1] = c[i]
        BY <1>1, <2>3, <4>1
      <4> QED
        BY <4>1, <4>2 DEF Has
    <3> QED
      BY <2>3, <3>1 DEF Has
  <2> QED
    BY <2>1, <2>2, <2>3
<1>4. ASSUME NEW j \in Nat \ {0}, Has(c2, s, j)
      PROVE  to <= j /\ \A h \in to..j : Has(c2, s, h)
  <2>1. Has(c, s, j) /\ j # c[1].id /\ lo <= j /\ \A h \in lo..j : Has(c, s, h)
    BY <1>3, <1>4 DEF Chain
  <2>2. c[1].id # 0 => c[1].id = lo
    BY FirstIsLo
  <2>3. to <= j /\ \A h \in to..j : h \in lo..j /\ h \in Nat \ {0} /\ h # c[1].id
    BY <1>1, <2>1, <2>2
  <2> QED
    BY <1>3, <2>1, <2>3
<1> QED
  BY <1>2, <1>3, <1>4 DEF Chain

\* A queue that has grown by one line.
LEMMA Grown ==
  ASSUME NEW q, NEW q2, Ids(q), Len(q2) = Len(q) + 1, \A i \in 1..Len(q) : q2[i] = q[i]
  PROVE  /\ Len(q) \in Nat /\ Len(q2) \in Nat /\ Len(q2) \in 1..Len(q2)
         /\ \A i \in 1..Len(q2) : i = Len(q2) \/ (i \in 1..Len(q) /\ q2[i] = q[i])
         /\ \A i \in 1..Len(q) : i \in 1..Len(q2) /\ i < Len(q2) /\ q2[i] = q[i]
<1>1. Len(q) \in Nat
  BY DEF Ids
<1>2. \A i \in 1..Len(q2) : i = Len(q2) \/ i \in 1..Len(q)
  BY <1>1
<1>3. Len(q2) \in Nat /\ Len(q2) \in 1..Len(q2) /\ \A i \in 1..Len(q) : i \in 1..Len(q2) /\ i < Len(q2)
  BY <1>1
<1> QED
  BY <1>1, <1>2, <1>3

\* A line is added to the requests: a notification, or the next request.
LEMMA PushRequest ==
  ASSUME NEW c, NEW s, NEW s2, NEW lo \in Nat \ {0}, NEW n \in Nat \ {0}, Chain(c, s, lo),
         \A j \in Nat \ {0} : Has(c, s, j) => j < n,
         \A j \in lo..n - 1 : Has(c, s, j),
         Len(s2) = Len(s) + 1, \A i \in 1..Len(s) : s2[i] = s[i],
         s2[Len(s2)].id \in {0, n}, lo <= n
  PROVE  /\ Chain(c, s2, lo)
         /\ \A j \in Nat \ {0} : Has(c, s2, j) <=> Has(c, s, j) \/ j = s2[Len(s2)].id
<1>1. /\ Len(c) \in Nat /\ Len(s) \in Nat /\ Len(s2) \in Nat /\ Len(s2) \in 1..Len(s2)
      /\ \A i \in 1..Len(s2) : i = Len(s2) \/ (i \in 1..Len(s) /\ s2[i] = s[i])
      /\ \A i \in 1..Len(s) : i \in 1..Len(s2) /\ i < Len(s2) /\ s2[i] = s[i]
  <2>1. Len(c) \in Nat /\ Ids(s)
    BY DEF Chain, Ids
  <2> QED
    BY <2>1, Grown, Zenon
<1>2. \A j \in Nat \ {0} : Has(c, s2, j) <=> Has(c, s, j) \/ j = s2[Len(s2)].id
  BY <1>1, Zenon DEF Has
<1>3. /\ \A i \in 1..Len(c) : c[i].id # 0 => c[i].id < n
      /\ \A i \in 1..Len(s) : s[i].id # 0 => s[i].id < n
  <2>1. \A i \in 1..Len(c) : c[i].id \in Nat /\ Has(c, s, c[i].id)
    BY DEF Chain, Ids, Has
  <2>2. \A i \in 1..Len(s) : s[i].id \in Nat /\ Has(c, s, s[i].id)
    BY DEF Chain, Ids, Has
  <2> QED
    BY <2>1, <2>2
<1>4. Ids(c) /\ Ids(s2) /\ Rising(c)
  BY <1>1 DEF Chain, Ids
<1>5. Rising(s2)
  <2> SUFFICES ASSUME NEW i \in 1..Len(s2), NEW k \in 1..Len(s2), i < k,
                      s2[i].id # 0, s2[k].id # 0
               PROVE  s2[i].id < s2[k].id
    BY DEF Rising
  <2>1. i \in 1..Len(s) /\ s2[i] = s[i]
    BY <1>1
  <2>2. CASE k = Len(s2)
    BY <1>3, <2>1, <2>2
  <2>3. CASE k \in 1..Len(s) /\ s2[k] = s[k]
    BY <2>1, <2>3 DEF Chain, Rising
  <2> QED
    BY <1>1, <2>2, <2>3
<1>6. ASSUME NEW i \in 1..Len(c), NEW k \in 1..Len(s2), c[i].id # 0, s2[k].id # 0
      PROVE  c[i].id < s2[k].id
  <2>1. CASE k = Len(s2)
    BY <1>3, <1>6, <2>1
  <2>2. CASE k \in 1..Len(s) /\ s2[k] = s[k]
    BY <1>6, <2>2 DEF Chain
  <2> QED
    BY <1>1, <2>1, <2>2
<1>7. ASSUME NEW j \in Nat \ {0}, Has(c, s2, j)
      PROVE  lo <= j /\ \A h \in lo..j : Has(c, s2, h)
  <2>1. CASE Has(c, s, j)
    BY <1>2, <2>1 DEF Chain
  <2>2. CASE j = n /\ n = s2[Len(s2)].id
    <3>1. \A h \in lo..n : h \in Nat \ {0} /\ (h = n \/ h \in lo..n - 1)
      OBVIOUS
    <3> QED
      BY <1>2, <2>2, <3>1
  <2> QED
    BY <1>2, <1>7, <2>1, <2>2
<1> QED
  BY <1>2, <1>4, <1>5, <1>6, <1>7 DEF Chain

\* Something nobody asked for is added to the answers.
LEMMA PushNote ==
  ASSUME NEW c, NEW c2, NEW s, NEW lo \in Nat \ {0}, Chain(c, s, lo),
         Len(c2) = Len(c) + 1, \A i \in 1..Len(c) : c2[i] = c[i], c2[Len(c2)].id = 0
  PROVE  /\ Chain(c2, s, lo)
         /\ \A j \in Nat \ {0} : Has(c2, s, j) <=> Has(c, s, j)
<1>1. /\ Len(c) \in Nat /\ Len(c2) \in Nat /\ Len(c2) \in 1..Len(c2)
      /\ \A i \in 1..Len(c2) : i = Len(c2) \/ (i \in 1..Len(c) /\ c2[i] = c[i])
      /\ \A i \in 1..Len(c) : i \in 1..Len(c2) /\ i < Len(c2) /\ c2[i] = c[i]
  <2>1. Ids(c)
    BY DEF Chain
  <2> QED
    BY <2>1, Grown, Zenon
<1>2. \A j \in Nat \ {0} : Has(c2, s, j) <=> Has(c, s, j)
  BY <1>1 DEF Has
<1>3. Ids(c2) /\ Ids(s) /\ Rising(s)
  BY <1>1 DEF Chain, Ids
<1>4. Rising(c2)
  BY <1>1 DEF Chain, Rising
<1>5. \A i \in 1..Len(c2), k \in 1..Len(s) : c2[i].id # 0 /\ s[k].id # 0 => c2[i].id < s[k].id
  BY <1>1 DEF Chain
<1>6. ASSUME NEW j \in Nat \ {0}, Has(c2, s, j)
      PROVE  lo <= j /\ \A h \in lo..j : Has(c2, s, h)
  BY <1>2, <1>6 DEF Chain
<1> QED
  BY <1>2, <1>3, <1>4, <1>5, <1>6 DEF Chain

\* A queue without its first line.
LEMMA Shrunk ==
  ASSUME NEW q, NEW q2, Ids(q), Len(q) # 0, Len(q2) = Len(q) - 1,
         \A i \in 1..Len(q2) : q2[i] = q[i + 1]
  PROVE  /\ Len(q2) \in Nat /\ 1 \in 1..Len(q) /\ Ids(q2) /\ (Rising(q) => Rising(q2))
         /\ \A i \in 1..Len(q2) : i + 1 \in 1..Len(q) /\ 1 < i + 1 /\ q2[i] = q[i + 1]
         /\ \A i \in 1..Len(q) : i = 1 \/ (i - 1 \in 1..Len(q2) /\ q2[i - 1] = q[i])
<1>1. Len(q) \in Nat /\ Len(q2) \in Nat /\ 1 \in 1..Len(q)
  BY DEF Ids
<1>2. \A i \in 1..Len(q2) : i + 1 \in 1..Len(q) /\ 1 < i + 1 /\ q2[i] = q[i + 1]
  BY <1>1
<1>3. ASSUME NEW i \in 1..Len(q), i # 1 PROVE i - 1 \in 1..Len(q2) /\ q2[i - 1] = q[i]
  BY <1>1, <1>3
<1>4. Ids(q2)
  BY <1>1, <1>2 DEF Ids
<1>5. ASSUME Rising(q), NEW i \in 1..Len(q2), NEW k \in 1..Len(q2), i < k, q2[i].id # 0, q2[k].id # 0
      PROVE  q2[i].id < q2[k].id
  <2>1. /\ i + 1 \in 1..Len(q) /\ k + 1 \in 1..Len(q) /\ i + 1 < k + 1
        /\ q2[i] = q[i + 1] /\ q2[k] = q[k + 1]
    BY <1>2, <1>5
  <2> QED
    BY <1>5, <2>1 DEF Rising
<1>6. Rising(q) => Rising(q2)
  BY <1>5 DEF Rising
<1> QED
  BY <1>1, <1>2, <1>3, <1>4, <1>6

\* The server takes the first request, and its answer goes last.
LEMMA Served ==
  ASSUME NEW c, NEW c2, NEW s, NEW s2, NEW lo \in Nat \ {0}, Chain(c, s, lo),
         Len(s) # 0, Len(s2) = Len(s) - 1, \A i \in 1..Len(s2) : s2[i] = s[i + 1],
         \/ s[1].id = 0 /\ c2 = c
         \/ /\ Len(c2) = Len(c) + 1 /\ \A i \in 1..Len(c) : c2[i] = c[i]
            /\ c2[Len(c2)].id = s[1].id /\ s[1].id # 0
  PROVE  /\ Chain(c2, s2, lo)
         /\ \A j \in Nat \ {0} : Has(c2, s2, j) <=> Has(c, s, j)
<1>1. Ids(c) /\ Ids(s) /\ Rising(c) /\ Rising(s)
  BY DEF Chain
<1>2. /\ Len(s2) \in Nat /\ 1 \in 1..Len(s) /\ Ids(s2) /\ Rising(s2)
      /\ \A i \in 1..Len(s2) : i + 1 \in 1..Len(s) /\ 1 < i + 1 /\ s2[i] = s[i + 1]
      /\ \A i \in 1..Len(s) : i = 1 \/ (i - 1 \in 1..Len(s2) /\ s2[i - 1] = s[i])
  BY <1>1, Shrunk
<1>3. CASE s[1].id = 0 /\ c2 = c
  <2>1. \A j \in Nat \ {0} : Has(c2, s2, j) <=> Has(c, s, j)
    BY <1>2, <1>3 DEF Has
  <2>2. ASSUME NEW i \in 1..Len(c2), NEW k \in 1..Len(s2), c2[i].id # 0, s2[k].id # 0
        PROVE  c2[i].id < s2[k].id
    BY <1>2, <1>3, <2>2 DEF Chain
  <2>3. ASSUME NEW j \in Nat \ {0}, Has(c2, s2, j)
        PROVE  lo <= j /\ \A h \in lo..j : Has(c2, s2, h)
    BY <2>1, <2>3 DEF Chain
  <2> QED
    BY <1>1, <1>2, <1>3, <2>1, <2>2, <2>3 DEF Chain
<1>4. CASE /\ Len(c2) = Len(c) + 1 /\ \A i \in 1..Len(c) : c2[i] = c[i]
           /\ c2[Len(c2)].id = s[1].id /\ s[1].id # 0
  <2>1. /\ Len(c) \in Nat /\ Len(c2) \in Nat /\ Len(c2) \in 1..Len(c2)
        /\ \A i \in 1..Len(c2) : i = Len(c2) \/ (i \in 1..Len(c) /\ c2[i] = c[i])
        /\ \A i \in 1..Len(c) : i \in 1..Len(c2) /\ i < Len(c2) /\ c2[i] = c[i]
    BY <1>1, <1>4, Grown
  <2>2. ASSUME NEW j \in Nat \ {0} PROVE Has(c2, s2, j) <=> Has(c, s, j)
    <3>1. ASSUME Has(c, s, j) PROVE Has(c2, s2, j)
      <4>1. CASE \E i \in 1..Len(c) : c[i].id = j
        BY <2>1, <4>1 DEF Has
      <4>2. CASE \E i \in 1..Len(s) : s[i].id = j
        BY <1>2, <1>4, <2>1, <4>2 DEF Has
      <4> QED
        BY <3>1, <4>1, <4>2 DEF Has
    <3>2. ASSUME Has(c2, s2, j) PROVE Has(c, s, j)
      <4>1. CASE \E i \in 1..Len(c2) : c2[i].id = j
        BY <1>2, <1>4, <2>1, <4>1 DEF Has
      <4>2. CASE \E i \in 1..Len(s2) : s2[i].id = j
        <5>1. PICK i \in 1..Len(s2) : s2[i].id = j
          BY <4>2, Zenon
        <5>2. i + 1 \in 1..Len(s) /\ s[i + 1].id = j
          BY <1>2, <5>1, Zenon
        <5> QED
          BY <5>2, Zenon DEF Has
      <4> QED
        BY <3>2, <4>1, <4>2 DEF Has
    <3> QED
      BY <3>1, <3>2
  <2>3. Ids(c2)
    BY <1>1, <1>2, <1>4, <2>1 DEF Ids
  <2>4. Rising(c2)
    <3> SUFFICES ASSUME NEW i \in 1..Len(c2), NEW k \in 1..Len(c2), i < k,
                        c2[i].id # 0, c2[k].id # 0
                 PROVE  c2[i].id < c2[k].id
      BY DEF Rising
    <3>1. i \in 1..Len(c) /\ c2[i] = c[i]
      BY <2>1
    <3>2. CASE k = Len(c2)
      BY <1>2, <1>4, <3>1, <3>2 DEF Chain
    <3>3. CASE k \in 1..Len(c) /\ c2[k] = c[k]
      BY <1>1, <3>1, <3>3 DEF Rising
    <3> QED
      BY <2>1, <3>2, <3>3
  <2>5. ASSUME NEW i \in 1..Len(c2), NEW k \in 1..Len(s2), c2[i].id # 0, s2[k].id # 0
        PROVE  c2[i].id < s2[k].id
    <3>1. k + 1 \in 1..Len(s) /\ 1 < k + 1 /\ s2[k] = s[k + 1]
      BY <1>2
    <3>2. CASE i = Len(c2)
      BY <1>1, <1>2, <1>4, <2>5, <3>1, <3>2 DEF Rising
    <3>3. CASE i \in 1..Len(c) /\ c2[i] = c[i]
      BY <2>5, <3>1, <3>3 DEF Chain
    <3> QED
      BY <2>1, <3>2, <3>3
  <2>6. ASSUME NEW j \in Nat \ {0}, Has(c2, s2, j)
        PROVE  lo <= j /\ \A h \in lo..j : Has(c2, s2, h)
    <3>1. lo <= j /\ \A h \in lo..j : h \in Nat \ {0} /\ Has(c, s, h)
      BY <2>2, <2>6 DEF Chain
    <3> QED
      BY <2>2, <3>1
  <2> QED
    BY <1>2, <2>2, <2>3, <2>4, <2>5, <2>6 DEF Chain
<1> QED
  BY <1>3, <1>4

\* The server dies, and with it the requests nobody has taken.
LEMMA Dropped ==
  ASSUME NEW c, NEW s, NEW s2, NEW lo \in Nat \ {0}, Chain(c, s, lo), Len(s2) = 0
  PROVE  /\ Chain(c, s2, lo)
         /\ \A j \in Nat \ {0} : Has(c, s2, j) => Has(c, s, j)
<1>1. /\ Ids(c) /\ Rising(c) /\ Ids(s) /\ Ids(s2) /\ Rising(s2)
      /\ \A j : Has(c, s2, j) <=> \E i \in 1..Len(c) : c[i].id = j
      /\ \A j : Has(c, s2, j) => Has(c, s, j)
  BY DEF Chain, Ids, Rising, Has
<1>2. ASSUME NEW j \in Nat \ {0}, Has(c, s2, j)
      PROVE  lo <= j /\ \A h \in lo..j : Has(c, s2, h)
  <2>1. lo <= j /\ \A h \in lo..j : Has(c, s, h)
    BY <1>1, <1>2 DEF Chain
  <2>2. PICK i \in 1..Len(c) : c[i].id = j
    BY <1>1, <1>2
  <2>3. ASSUME NEW h \in lo..j PROVE Has(c, s2, h)
    <3>1. ~ \E k \in 1..Len(s) : s[k].id = h
      BY <1>1, <2>2 DEF Chain, Ids
    <3> QED
      BY <1>1, <2>1, <3>1 DEF Has
  <2> QED
    BY <2>1, <2>3
<1> QED
  BY <1>1, <1>2 DEF Chain

-----------------------------------------------------------------------------
(* The invariant: what the host has not read yet is a chain from the request it is  *)
(* behind at, complete up to the last request as long as the server lives.          *)

Kind(id) == IF id = 0 THEN "note" ELSE IF id = 1 THEN "info" ELSE IF id = 2 THEN "tools" ELSE "content"
Method(id) == IF id = 0 THEN "notifications/initialized" ELSE IF id = 1 THEN "initialize"
              ELSE IF id = 2 THEN "tools/list" ELSE "tools/call"
Replies == [id : Nat, kind : {"note", "info", "tools", "content"}]
Answers == [call : Calls \cup {None}, id : Nat, got : Replies, late : Nat]

Open(c, s, lo, n, up) ==
  /\ lo \in Nat \ {0} /\ n \in Nat \ {0} /\ lo <= n
  /\ Chain(c, s, lo)
  /\ \A j \in Nat \ {0} : Has(c, s, j) => j < n
  /\ up => \A j \in lo..n - 1 : Has(c, s, j)

Waiting == IF pc \in {"hello", "listing", "calling"} THEN 1 ELSE 0
Lo == next_id - chatter - Waiting

Typed == toClient \in Seq(Replies) /\ chatter \in Nat /\ answers \in Seq(Answers)
Labelled == /\ \A i \in 1..Len(toClient) : toClient[i].kind = Kind(toClient[i].id)
            /\ \A i \in 1..Len(toServer) : toServer[i].method = Method(toServer[i].id)
Counted == /\ pc = "start" => next_id = 1
           /\ pc = "hello" => next_id = 2
           /\ pc = "listing" => next_id = 3
           /\ pc \in {"loop", "allowed", "calling"} => next_id >= 3
           /\ server # "up" => Len(toServer) = 0
Queued == pc # "failed" => Open(toClient, toServer, Lo, next_id, server = "up")
Registered == pc \in {"loop", "allowed", "calling"} /\ chatter = 0 =>
                \A t \in DOMAIN ServerTools : naming[t] \in DOMAIN registry
Own == \A i \in 1..Len(answers) :
         answers[i].got.kind # "note" => answers[i].got.id = answers[i].id - answers[i].late
OrderInv == Typed /\ Labelled /\ Counted /\ Queued /\ Registered /\ Own

LEMMA OrderInit == Init => OrderInv
<1> SUFFICES ASSUME Init PROVE OrderInv
  OBVIOUS
<1>1. /\ toServer = <<>> /\ toClient = <<>> /\ answers = <<>> /\ chatter = 0
      /\ pc = "start" /\ next_id = 1
  BY DEF Init
<1>2. /\ toClient \in Seq(Replies) /\ answers \in Seq(Answers)
      /\ Len(toClient) = 0 /\ Len(toServer) = 0 /\ Len(answers) = 0
  BY <1>1, EmptySeq
<1>3. Lo = 1
  BY <1>1 DEF Lo, Waiting
<1>4. \A j : ~Has(toClient, toServer, j)
  BY <1>2 DEF Has
<1>5. Chain(toClient, toServer, 1)
  BY <1>2, <1>4 DEF Chain, Ids, Rising
<1>6. Queued
  BY <1>1, <1>3, <1>4, <1>5 DEF Queued, Open
<1> QED
  BY <1>1, <1>2, <1>6 DEF OrderInv, Typed, Labelled, Counted, Registered, Own

\* A line is read.
LEMMA ReadsOpen ==
  ASSUME GateInv, Typed, Labelled, Reads, NEW lo, NEW n, NEW up,
         Open(toClient, toServer, lo, n, up)
  PROVE  /\ toClient' \in Seq(Replies) /\ chatter' \in Nat /\ Line \in Replies
         /\ Line.kind = Kind(Line.id)
         /\ \A i \in 1..Len(toClient') : toClient'[i].kind = Kind(toClient'[i].id)
         /\ \/ Line.kind = "note" /\ chatter' = chatter + 1 /\ Open(toClient', toServer, lo, n, up)
            \/ /\ Line.kind # "note" /\ chatter' = chatter /\ Line.id = lo
               /\ Open(toClient', toServer, lo + 1, n, up)
<1>1. /\ toClient \in Seq(Replies) /\ toClient # <<>> /\ toClient' = Tail(toClient)
      /\ chatter' = IF Line.kind = "note" THEN chatter + 1 ELSE chatter
  BY DEF Typed, Reads
<1>2. /\ Len(toClient) # 0 /\ Len(toClient') = Len(toClient) - 1 /\ Line = toClient[1]
      /\ \A i \in 1..Len(toClient') : i + 1 \in 1..Len(toClient) /\ toClient'[i] = toClient[i + 1]
      /\ toClient' \in Seq(Replies) /\ Line \in Replies /\ 1 \in 1..Len(toClient)
  <2> HIDE DEF Replies
  <2> QED
    BY <1>1 DEF Line
<1>3. /\ Line.kind = Kind(Line.id) /\ Line.id \in Nat /\ chatter' \in Nat
      /\ Line.kind = "note" <=> Line.id = 0
  BY <1>1, <1>2 DEF Labelled, Replies, Kind, Typed
<1>4. \A i \in 1..Len(toClient') : toClient'[i].kind = Kind(toClient'[i].id)
  BY <1>2 DEF Labelled
<1>5. lo \in Nat \ {0} /\ n \in Nat \ {0} /\ lo <= n /\ Chain(toClient, toServer, lo)
  BY DEF Open
<1>6. /\ Chain(toClient', toServer, IF Line.id = 0 THEN lo ELSE lo + 1)
      /\ \A j \in Nat \ {0} : Has(toClient', toServer, j) <=> Has(toClient, toServer, j) /\ j # Line.id
  BY <1>2, <1>5, ReadFirst
<1>7. CASE Line.id = 0
  BY <1>1, <1>3, <1>5, <1>6, <1>7, <1>2, <1>4 DEF Open
<1>8. CASE Line.id # 0
  <2>1. Line.id = lo
    BY <1>2, <1>5, <1>8, FirstIsLo
  <2>2. Has(toClient, toServer, lo)
    BY <1>2, <2>1 DEF Has
  <2>3. lo + 1 <= n
    BY <1>5, <2>2 DEF Open
  <2>4. up => \A j \in lo + 1..n - 1 : Has(toClient', toServer, j)
    <3> SUFFICES ASSUME up, NEW j \in lo + 1..n - 1 PROVE Has(toClient', toServer, j)
      OBVIOUS
    <3>1. j \in lo..n - 1 /\ j \in Nat \ {0} /\ j # lo
      BY <1>5
    <3> QED
      BY <1>6, <2>1, <3>1 DEF Open
  <2>5. Open(toClient', toServer, lo + 1, n, up)
    BY <1>5, <1>6, <1>8, <2>3, <2>4 DEF Open
  <2> QED
    BY <1>1, <1>2, <1>3, <1>4, <1>8, <2>1, <2>5
<1> QED
  BY <1>7, <1>8

\* A request is sent, and is the next one.
LEMMA PushOpen ==
  ASSUME NEW c, NEW s, NEW s2, NEW lo, NEW n, Open(c, s, lo, n, TRUE),
         Len(s2) = Len(s) + 1, \A i \in 1..Len(s) : s2[i] = s[i]
  PROVE  /\ s2[Len(s2)].id = n => Open(c, s2, lo, n + 1, TRUE)
         /\ s2[Len(s2)].id = 0 => Open(c, s2, lo, n, TRUE)
<1>1. /\ lo \in Nat \ {0} /\ n \in Nat \ {0} /\ lo <= n /\ Chain(c, s, lo)
      /\ \A j \in Nat \ {0} : Has(c, s, j) => j < n
      /\ \A j \in lo..n - 1 : Has(c, s, j)
  BY DEF Open
<1>2. ASSUME s2[Len(s2)].id \in {0, n}
      PROVE  /\ Chain(c, s2, lo)
             /\ \A j \in Nat \ {0} : Has(c, s2, j) <=> Has(c, s, j) \/ j = s2[Len(s2)].id
  BY <1>1, <1>2, PushRequest
<1>3. ASSUME s2[Len(s2)].id = n PROVE Open(c, s2, lo, n + 1, TRUE)
  <2>1. ASSUME NEW j \in lo..(n + 1) - 1 PROVE Has(c, s2, j)
    <3>1. j \in Nat \ {0} /\ (j = n \/ j \in lo..n - 1)
      BY <1>1
    <3> QED
      BY <1>1, <1>2, <1>3, <3>1
  <2>2. ASSUME NEW j \in Nat \ {0}, Has(c, s2, j) PROVE j < n + 1
    BY <1>1, <1>2, <1>3, <2>2
  <2> QED
    BY <1>1, <1>2, <1>3, <2>1, <2>2 DEF Open
<1>4. ASSUME s2[Len(s2)].id = 0 PROVE Open(c, s2, lo, n, TRUE)
  <2>1. Chain(c, s2, lo) /\ \A j \in Nat \ {0} : Has(c, s2, j) <=> Has(c, s, j)
    BY <1>2, <1>4
  <2>2. ASSUME NEW j \in lo..n - 1 PROVE Has(c, s2, j)
    <3>1. j \in Nat \ {0}
      BY <1>1
    <3> QED
      BY <1>1, <2>1, <3>1
  <2> QED
    BY <1>1, <2>1, <2>2 DEF Open
<1> QED
  BY <1>3, <1>4

\* One request is sent.
LEMMA SendsOne ==
  ASSUME GateInv, NEW method \in {"initialize", "tools/list", "tools/call"},
         NEW what \in Calls \cup {None}, Sends(<<>>, method, what), method = Method(next_id),
         NEW c, NEW lo, Open(c, toServer, lo, next_id, TRUE),
         \A i \in 1..Len(toServer) : toServer[i].method = Method(toServer[i].id)
  PROVE  /\ Open(c, toServer', lo, next_id', TRUE)
         /\ next_id' = next_id + 1 /\ next_id \in Nat
         /\ \A i \in 1..Len(toServer') : toServer'[i].method = Method(toServer'[i].id)
<1> DEFINE r == Request(next_id, method, what)
<1>1. r \in Requests /\ r.id = next_id /\ r.method = method /\ toServer \in Seq(Requests)
  BY DEF GateInv, Shaped, Request, Requests
<1>2. next_id \in Nat /\ next_id' = next_id + 1 /\ toServer' = toServer \o <<>> \o <<r>>
  BY DEF GateInv, Shaped, Sends
<1> HIDE DEF r, Requests
<1>3. /\ Len(toServer') = Len(toServer) + 1 /\ Len(toServer) \in Nat
      /\ \A i \in 1..Len(toServer) : toServer'[i] = toServer[i]
      /\ toServer'[Len(toServer')] = r
  BY <1>1, <1>2
<1>4. \A i \in 1..Len(toServer') : i = Len(toServer') \/ i \in 1..Len(toServer)
  BY <1>3
<1>5. \A i \in 1..Len(toServer') : toServer'[i].method = Method(toServer'[i].id)
  BY <1>1, <1>3, <1>4
<1>6. Open(c, toServer', lo, next_id + 1, TRUE)
  BY <1>1, <1>3, PushOpen
<1> QED
  BY <1>2, <1>5, <1>6

\* A notification is sent and a request after it.
LEMMA SendsTwo ==
  ASSUME GateInv, NEW note \in Requests, note.id = 0, note.method = Method(0),
         Sends(<<note>>, "tools/list", None), "tools/list" = Method(next_id),
         NEW c, NEW lo, Open(c, toServer, lo, next_id, TRUE),
         \A i \in 1..Len(toServer) : toServer[i].method = Method(toServer[i].id)
  PROVE  /\ Open(c, toServer', lo, next_id', TRUE)
         /\ next_id' = next_id + 1 /\ next_id \in Nat
         /\ \A i \in 1..Len(toServer') : toServer'[i].method = Method(toServer'[i].id)
<1> DEFINE r == Request(next_id, "tools/list", None)
           s1 == toServer \o <<note>>
<1>1. r \in Requests /\ r.id = next_id /\ r.method = "tools/list" /\ toServer \in Seq(Requests)
  BY DEF GateInv, Shaped, Request, Requests
<1>2. next_id \in Nat /\ next_id' = next_id + 1 /\ toServer' = toServer \o <<note>> \o <<r>>
  BY DEF GateInv, Shaped, Sends
<1> HIDE DEF r, Requests
<1>3. /\ Len(s1) = Len(toServer) + 1 /\ Len(toServer) \in Nat
      /\ \A i \in 1..Len(toServer) : s1[i] = toServer[i]
      /\ s1[Len(s1)] = note /\ s1 \in Seq(Requests)
  BY <1>1
<1>4. toServer' = s1 \o <<r>>
  BY <1>2
<1> HIDE DEF s1
<1>5. /\ Len(toServer') = Len(s1) + 1 /\ Len(s1) \in Nat
      /\ \A i \in 1..Len(s1) : toServer'[i] = s1[i]
      /\ toServer'[Len(toServer')] = r
  BY <1>1, <1>3, <1>4
<1>6. \A i \in 1..Len(s1) : i = Len(s1) \/ i \in 1..Len(toServer)
  BY <1>3
<1>7. \A i \in 1..Len(s1) : s1[i].method = Method(s1[i].id)
  BY <1>3, <1>6
<1>8. \A i \in 1..Len(toServer') : i = Len(toServer') \/ i \in 1..Len(s1)
  BY <1>5
<1>9. \A i \in 1..Len(toServer') : toServer'[i].method = Method(toServer'[i].id)
  BY <1>1, <1>5, <1>7, <1>8
<1>10. Open(c, s1, lo, next_id, TRUE)
  BY <1>3, PushOpen
<1>11. Open(c, toServer', lo, next_id + 1, TRUE)
  BY <1>1, <1>5, <1>10, PushOpen
<1> QED
  BY <1>2, <1>9, <1>11

\* The queue of a server that is up.
LEMMA Live ==
  ASSUME NEW c, NEW s, NEW lo, NEW n, NEW state, state = "up", Open(c, s, lo, n, TRUE)
  PROVE  Open(c, s, lo, n, state = "up")
BY DEF Open

-----------------------------------------------------------------------------
(* The steps. *)

LEMMA OrderHandshake ==
  ASSUME GateInv, OrderInv, Start \/ Greeted \/ Import \/ Fail
  PROVE  OrderInv'
<1> USE DEF OrderInv
<1>0. next_id \in Nat /\ chatter \in Nat
  BY DEF GateInv, Shaped, Typed
<1>1. CASE Start
  <2>1. /\ pc = "start" /\ pc' = "hello" /\ Sends(<<>>, "initialize", None) /\ server = "up"
        /\ toClient' = toClient /\ chatter' = chatter /\ answers' = answers /\ server' = server
    BY <1>1 DEF Start, Sends, host
  <2>2. next_id = 1 /\ Lo = 1 - chatter
    BY <2>1, <1>0 DEF Counted, Lo, Waiting
  <2>3. Open(toClient, toServer, Lo, next_id, TRUE)
    BY <2>1 DEF Queued
  <2>4. "initialize" = Method(next_id) /\ None \in Calls \cup {None}
    BY <2>2 DEF Method
  <2>5. /\ Open(toClient, toServer', Lo, next_id', TRUE) /\ next_id' = next_id + 1
        /\ \A i \in 1..Len(toServer') : toServer'[i].method = Method(toServer'[i].id)
    BY <2>1, <2>3, <2>4, SendsOne DEF Labelled
  <2>6. Lo' = Lo
    BY <2>1, <2>2, <2>5, <1>0 DEF Lo, Waiting
  <2>7. Queued'
    BY <2>1, <2>5, <2>6, Live DEF Queued
  <2> QED
    BY <2>1, <2>2, <2>5, <2>7 DEF Typed, Labelled, Counted, Registered, Own
<1>2. CASE Greeted
  <2> DEFINE note == Request(0, "notifications/initialized", None)
  <2>1. /\ pc = "hello" /\ pc' = "listing" /\ Reads /\ Sends(<<note>>, "tools/list", None)
        /\ server = "up" /\ server' = server /\ answers' = answers
    BY <1>2 DEF Greeted, Sends, host
  <2>2. next_id = 2 /\ Lo = 1 - chatter
    BY <2>1, <1>0 DEF Counted, Lo, Waiting
  <2>3. Open(toClient, toServer, Lo, next_id, TRUE)
    BY <2>1 DEF Queued
  <2>4. /\ toClient' \in Seq(Replies) /\ chatter' \in Nat
        /\ \A i \in 1..Len(toClient') : toClient'[i].kind = Kind(toClient'[i].id)
        /\ \/ chatter' = chatter + 1 /\ Open(toClient', toServer, Lo, next_id, TRUE)
           \/ chatter' = chatter /\ Open(toClient', toServer, Lo + 1, next_id, TRUE)
    BY <2>1, <2>3, ReadsOpen, Zenon
  <2>5. note \in Requests /\ note.id = 0 /\ note.method = Method(0) /\ "tools/list" = Method(next_id)
    BY <2>2 DEF Request, Requests, Method
  <2> HIDE DEF note
  <2>6. ASSUME NEW lo, Open(toClient', toServer, lo, next_id, TRUE)
        PROVE  /\ Open(toClient', toServer', lo, next_id', TRUE) /\ next_id' = next_id + 1
               /\ \A i \in 1..Len(toServer') : toServer'[i].method = Method(toServer'[i].id)
    BY <2>1, <2>5, <2>6, SendsTwo DEF Labelled
  <2>7. CASE chatter' = chatter + 1 /\ Open(toClient', toServer, Lo, next_id, TRUE)
    <3>1. /\ Open(toClient', toServer', Lo, next_id', TRUE) /\ next_id' = next_id + 1
          /\ \A i \in 1..Len(toServer') : toServer'[i].method = Method(toServer'[i].id)
      BY <2>6, <2>7
    <3>2. Lo' = Lo
      BY <2>1, <2>2, <2>7, <3>1, <1>0 DEF Lo, Waiting
    <3>3. Queued'
      BY <2>1, <3>1, <3>2, Live DEF Queued
    <3> QED
      BY <2>1, <2>2, <2>4, <3>1, <3>3 DEF Typed, Labelled, Counted, Registered, Own
  <2>8. CASE chatter' = chatter /\ Open(toClient', toServer, Lo + 1, next_id, TRUE)
    <3>1. /\ Open(toClient', toServer', Lo + 1, next_id', TRUE) /\ next_id' = next_id + 1
          /\ \A i \in 1..Len(toServer') : toServer'[i].method = Method(toServer'[i].id)
      BY <2>6, <2>8
    <3>2. Lo' = Lo + 1
      BY <2>1, <2>2, <2>8, <3>1, <1>0 DEF Lo, Waiting
    <3>3. Queued'
      BY <2>1, <3>1, <3>2, Live DEF Queued
    <3> QED
      BY <2>1, <2>2, <2>4, <3>1, <3>3 DEF Typed, Labelled, Counted, Registered, Own
  <2> QED
    BY <2>4, <2>7, <2>8
<1>3. CASE Import
  <2>1. /\ pc = "listing" /\ pc' \in {"loop", "failed"} /\ Reads
        /\ UNCHANGED <<next_id, toServer, server, answers, naming>>
    BY <1>3 DEF Import
  <2>2. next_id = 3 /\ Lo = 2 - chatter
    BY <2>1, <1>0 DEF Counted, Lo, Waiting
  <2>3. Open(toClient, toServer, Lo, next_id, server = "up")
    BY <2>1 DEF Queued
  <2>4. /\ toClient' \in Seq(Replies) /\ chatter' \in Nat /\ Line.kind = Kind(Line.id)
        /\ \A i \in 1..Len(toClient') : toClient'[i].kind = Kind(toClient'[i].id)
        /\ \/ chatter' = chatter + 1 /\ Open(toClient', toServer, Lo, next_id, server = "up")
           \/ /\ chatter' = chatter /\ Line.id = Lo
              /\ Open(toClient', toServer, Lo + 1, next_id, server = "up")
    BY <2>1, <2>3, ReadsOpen, Zenon
  <2>5. pc' = "loop" => Lo' = 3 - chatter'
    BY <2>1, <2>2, <2>4 DEF Lo, Waiting
  <2>6. Queued'
    BY <2>1, <2>2, <2>4, <2>5, <1>0 DEF Queued
  <2>7. ASSUME pc' = "loop", chatter' = 0, NEW t \in DOMAIN ServerTools
        PROVE  naming'[t] \in DOMAIN registry'
    <3>1. Line.id = 2 /\ Line.kind = "tools"
      BY <2>2, <2>4, <2>7, <1>0 DEF Kind
    <3>2. PICK remotes : registry' = With(remotes) /\ remotes = DOMAIN ServerTools
      BY <1>3, <2>7, <3>1 DEF Import
    <3> QED
      BY <2>1, <2>7, <3>2 DEF With
  <2>8. Registered'
    BY <2>1, <2>7 DEF Registered
  <2> QED
    BY <2>1, <2>2, <2>4, <2>6, <2>8 DEF Typed, Labelled, Counted, Own
<1>4. CASE Fail
  <2>1. pc' = "failed" /\ UNCHANGED <<next_id, toServer, server, answers>> /\ pc # "failed"
    BY <1>4 DEF Fail, host
  <2>2. Reads \/ UNCHANGED <<toClient, chatter>>
    BY <1>4 DEF Fail, ReadsNothing
  <2>3. CASE Reads
    <3>1. Open(toClient, toServer, Lo, next_id, server = "up")
      BY <2>1 DEF Queued
    <3>2. /\ toClient' \in Seq(Replies) /\ chatter' \in Nat
          /\ \A i \in 1..Len(toClient') : toClient'[i].kind = Kind(toClient'[i].id)
      BY <2>3, <3>1, ReadsOpen
    <3> QED
      BY <2>1, <3>2 DEF Typed, Labelled, Counted, Queued, Registered, Own
  <2>4. CASE UNCHANGED <<toClient, chatter>>
    BY <2>1, <2>4 DEF Typed, Labelled, Counted, Queued, Registered, Own
  <2> QED
    BY <2>2, <2>3, <2>4
<1> QED
  BY <1>1, <1>2, <1>3, <1>4

LEMMA OrderCall ==
  ASSUME GateInv, OrderInv, Decide \/ Dispatch \/ Invoke \/ Broken
  PROVE  OrderInv'
<1> USE DEF OrderInv
<1>0. next_id \in Nat /\ chatter \in Nat
  BY DEF GateInv, Shaped, Typed
<1>1. CASE Decide \/ Dispatch
  <2>1. /\ pc \in {"loop", "allowed"} /\ pc' \in {"loop", "allowed"}
        /\ UNCHANGED <<naming, registry, next_id, toServer, toClient, server, answers, chatter>>
    BY <1>1 DEF Decide, Ask, Dispatch, host
  <2>2. Lo' = Lo
    BY <2>1 DEF Lo, Waiting
  <2> QED
    BY <2>1, <2>2 DEF Typed, Labelled, Counted, Queued, Registered, Own
<1>2. CASE Invoke
  <2>1. /\ pc = "allowed" /\ pc' = "calling" /\ Sends(<<>>, "tools/call", call) /\ server = "up"
        /\ UNCHANGED <<naming, registry, toClient, server, answers, chatter>>
    BY <1>2 DEF Invoke, Sends, host
  <2>2. next_id >= 3 /\ "tools/call" = Method(next_id) /\ call \in Calls \cup {None}
    BY <2>1, <1>0 DEF Counted, Method, GateInv, Shaped
  <2>3. Open(toClient, toServer, Lo, next_id, TRUE)
    BY <2>1 DEF Queued
  <2>4. /\ Open(toClient, toServer', Lo, next_id', TRUE) /\ next_id' = next_id + 1
        /\ \A i \in 1..Len(toServer') : toServer'[i].method = Method(toServer'[i].id)
    BY <2>1, <2>2, <2>3, SendsOne DEF Labelled
  <2>5. Lo' = Lo
    BY <2>1, <2>4, <1>0 DEF Lo, Waiting
  <2>6. Queued'
    BY <2>1, <2>4, <2>5, Live DEF Queued
  <2> QED
    BY <2>1, <2>2, <2>4, <2>6, <1>0 DEF Typed, Labelled, Counted, Registered, Own
<1>3. CASE Broken
  <2>1. /\ pc \in {"calling", "allowed"} /\ pc' = "loop" /\ server # "up"
        /\ UNCHANGED <<naming, registry, next_id, toServer, toClient, server, answers, chatter>>
    BY <1>3 DEF Broken, ReadsNothing, host
  <2>2. CASE pc = "allowed"
    <3>1. Lo' = Lo
      BY <2>1, <2>2 DEF Lo, Waiting
    <3> QED
      BY <2>1, <2>2, <3>1 DEF Typed, Labelled, Counted, Queued, Registered, Own
  <2>3. CASE pc = "calling"
    <3>1. toClient = <<>> /\ Len(toClient) = 0 /\ Len(toServer) = 0
      BY <1>3, <2>1, <2>3 DEF Broken, ReadsNothing, Counted
    <3>2. Lo' = Lo + 1 /\ Lo + 1 <= next_id
      BY <2>1, <2>3, <1>0 DEF Lo, Waiting
    <3>3. Open(toClient, toServer, Lo, next_id, FALSE)
      BY <2>1 DEF Queued
    <3>4. \A j : ~Has(toClient, toServer, j)
      BY <3>1 DEF Has
    <3>5. Open(toClient, toServer, Lo + 1, next_id, FALSE)
      BY <3>2, <3>3, <3>4 DEF Open, Chain
    <3> QED
      BY <2>1, <2>3, <3>2, <3>5 DEF Typed, Labelled, Counted, Queued, Registered, Own
  <2> QED
    BY <2>1, <2>2, <2>3
<1> QED
  BY <1>1, <1>2, <1>3

LEMMA OrderReturn ==
  ASSUME GateInv, OrderInv, Return
  PROVE  OrderInv'
<1> USE DEF OrderInv
<1> DEFINE a == [call |-> call, id |-> next_id - 1, got |-> Line, late |-> chatter]
<1>1. /\ pc = "calling" /\ pc' = "loop" /\ Reads /\ answers' = Append(answers, a)
      /\ UNCHANGED <<naming, registry, next_id, toServer, server>>
  BY DEF Return
<1>2. next_id \in Nat /\ chatter \in Nat /\ next_id >= 3 /\ call \in Calls \cup {None}
  BY <1>1 DEF GateInv, Shaped, Typed, Counted
<1>3. Lo = next_id - chatter - 1
  BY <1>1 DEF Lo, Waiting
<1>4. Open(toClient, toServer, Lo, next_id, server = "up")
  BY <1>1 DEF Queued
<1>5. /\ toClient' \in Seq(Replies) /\ chatter' \in Nat /\ Line \in Replies
      /\ \A i \in 1..Len(toClient') : toClient'[i].kind = Kind(toClient'[i].id)
      /\ \/ /\ Line.kind = "note" /\ chatter' = chatter + 1
            /\ Open(toClient', toServer, Lo, next_id, server = "up")
         \/ /\ Line.kind # "note" /\ chatter' = chatter /\ Line.id = Lo
            /\ Open(toClient', toServer, Lo + 1, next_id, server = "up")
  BY <1>1, <1>4, ReadsOpen, Zenon
<1>6. Lo' = next_id - chatter'
  BY <1>1, <1>2, <1>5 DEF Lo, Waiting
<1>7. Queued'
  <2>1. Open(toClient', toServer, Lo', next_id, server = "up")
    <3>1. CASE chatter' = chatter + 1 /\ Open(toClient', toServer, Lo, next_id, server = "up")
      <4>1. Lo' = Lo
        BY <1>2, <1>3, <1>6, <3>1
      <4> QED
        BY <3>1, <4>1
    <3>2. CASE chatter' = chatter /\ Open(toClient', toServer, Lo + 1, next_id, server = "up")
      <4>1. Lo' = Lo + 1
        BY <1>2, <1>3, <1>6, <3>2
      <4> QED
        BY <3>2, <4>1
    <3> QED
      BY <1>5, <3>1, <3>2
  <2> QED
    BY <1>1, <2>1 DEF Queued
<1>8. a \in Answers /\ a.got = Line /\ a.id = next_id - 1 /\ a.late = chatter
  BY <1>2, <1>5 DEF Answers
<1>9. answers \in Seq(Answers)
  BY DEF Typed
<1> HIDE DEF a
<1>10. /\ answers' \in Seq(Answers)
       /\ \A i \in 1..Len(answers') : (i \in 1..Len(answers) /\ answers'[i] = answers[i]) \/ answers'[i] = a
  <2> HIDE DEF Answers
  <2> QED
    BY <1>1, <1>8, <1>9
<1>11. Own'
  <2>1. a.got.kind # "note" => a.got.id = a.id - a.late
    BY <1>2, <1>3, <1>5, <1>8
  <2> QED
    BY <1>10, <2>1 DEF Own
<1>12. Registered'
  BY <1>1, <1>2, <1>5 DEF Registered
<1> QED
  BY <1>1, <1>2, <1>5, <1>7, <1>10, <1>11, <1>12 DEF Typed, Labelled, Counted

LEMMA OrderServer ==
  ASSUME GateInv, OrderInv, Serve \/ Chatter \/ Die
  PROVE  OrderInv'
<1> USE DEF OrderInv
<1>0. next_id \in Nat /\ chatter \in Nat /\ toServer \in Seq(Requests) /\ toClient \in Seq(Replies)
  BY DEF GateInv, Shaped, Typed
<1>1. UNCHANGED <<pc, naming, registry, next_id, answers, chatter>> /\ server = "up"
  BY DEF Serve, Chatter, Die, host
<1>2. Lo' = Lo
  BY <1>1 DEF Lo, Waiting
<1>3. ASSUME Open(toClient, toServer, Lo, next_id, TRUE) =>
               Open(toClient', toServer', Lo, next_id, server' = "up"),
             Labelled', toClient' \in Seq(Replies), server' # "up" => Len(toServer') = 0
      PROVE  OrderInv'
  BY <1>1, <1>2, <1>3 DEF Typed, Counted, Queued, Registered, Own
<1>4. CASE Serve
  <2> DEFINE line == Head(toServer)
  <2>1. /\ toServer # <<>> /\ toServer' = Tail(toServer) /\ toClient' = toClient \o Handle(line)
        /\ server' = server
    BY <1>4 DEF Serve
  <2>2. /\ Len(toServer) # 0 /\ Len(toServer') = Len(toServer) - 1 /\ line = toServer[1]
        /\ line \in Requests /\ 1 \in 1..Len(toServer)
        /\ \A i \in 1..Len(toServer') : i + 1 \in 1..Len(toServer) /\ toServer'[i] = toServer[i + 1]
    <3> HIDE DEF Requests
    <3> QED
      BY <1>0, <2>1
  <2> HIDE DEF line
  <2>3. line.method = Method(line.id) /\ line.id \in Nat
    BY <2>2 DEF Labelled, Requests
  <2>4. \/ line.id = 0 /\ Handle(line) = <<>>
        \/ line.id # 0 /\ Handle(line) = <<Reply(line.id, Kind(line.id))>>
    <3>1. CASE line.id = 0
      BY <2>3, <3>1 DEF Handle, Method
    <3>2. CASE line.id = 1
      BY <2>3, <3>2 DEF Handle, Method, Kind
    <3>3. CASE line.id = 2
      BY <2>3, <3>3 DEF Handle, Method, Kind
    <3>4. CASE line.id \notin {0, 1, 2}
      BY <2>3, <3>4 DEF Handle, Method, Kind
    <3> QED
      BY <3>1, <3>2, <3>3, <3>4
  <2> DEFINE r == Reply(line.id, Kind(line.id))
  <2>5. r \in Replies /\ r.id = line.id /\ r.kind = Kind(r.id)
    BY <2>3 DEF Reply, Replies, Kind
  <2> HIDE DEF r
  <2>6. \/ line.id = 0 /\ toClient' = toClient \o <<>>
        \/ line.id # 0 /\ toClient' = toClient \o <<r>>
    BY <2>1, <2>4, Zenon DEF r
  <2>7. /\ toClient' \in Seq(Replies)
        /\ \A i \in 1..Len(toClient') : (i \in 1..Len(toClient) /\ toClient'[i] = toClient[i]) \/ toClient'[i] = r
        /\ \/ line.id = 0 /\ toClient' = toClient
           \/ /\ Len(toClient') = Len(toClient) + 1 /\ \A i \in 1..Len(toClient) : toClient'[i] = toClient[i]
              /\ toClient'[Len(toClient')] = r /\ line.id # 0
    <3> HIDE DEF Replies
    <3> DEFINE q == toClient \o <<r>>
    <3>1. toClient \o <<>> = toClient
      BY <1>0
    <3>2. /\ q \in Seq(Replies) /\ Len(q) = Len(toClient) + 1
          /\ \A i \in 1..Len(toClient) : q[i] = toClient[i]
          /\ \A i \in 1..Len(q) : (i \in 1..Len(toClient) /\ q[i] = toClient[i]) \/ q[i] = r
          /\ q[Len(q)] = r
      BY <1>0, <2>5
    <3> HIDE DEF q
    <3>3. \/ line.id = 0 /\ toClient' = toClient
          \/ line.id # 0 /\ toClient' = q
      BY <2>6, <3>1, Zenon DEF q
    <3> QED
      BY <1>0, <3>2, <3>3
  <2>8. Labelled'
    BY <2>2, <2>5, <2>7 DEF Labelled
  <2>9. ASSUME Open(toClient, toServer, Lo, next_id, TRUE)
        PROVE  Open(toClient', toServer', Lo, next_id, TRUE)
    <3>1. Lo \in Nat \ {0} /\ Chain(toClient, toServer, Lo)
      BY <2>9 DEF Open
    <3>2. \/ toServer[1].id = 0 /\ toClient' = toClient
          \/ /\ Len(toClient') = Len(toClient) + 1 /\ \A i \in 1..Len(toClient) : toClient'[i] = toClient[i]
             /\ toClient'[Len(toClient')].id = toServer[1].id /\ toServer[1].id # 0
      BY <2>2, <2>5, <2>7
    <3>3. /\ Chain(toClient', toServer', Lo)
          /\ \A j \in Nat \ {0} : Has(toClient', toServer', j) <=> Has(toClient, toServer, j)
      BY <2>2, <3>1, <3>2, Served
    <3>4. \A j \in Lo..next_id - 1 : j \in Nat \ {0}
      BY <3>1, <1>0
    <3> QED
      BY <2>9, <3>3, <3>4 DEF Open
  <2> QED
    BY <1>1, <1>3, <2>1, <2>7, <2>8, <2>9
<1>5. CASE Chatter
  <2> DEFINE r == Reply(0, "note")
  <2>1. toClient' = Append(toClient, r) /\ toServer' = toServer /\ server' = server
    BY <1>5 DEF Chatter
  <2>2. r \in Replies /\ r.id = 0 /\ r.kind = Kind(0)
    BY DEF Reply, Replies, Kind
  <2> HIDE DEF r
  <2>3. /\ toClient' \in Seq(Replies) /\ Len(toClient') = Len(toClient) + 1
        /\ \A i \in 1..Len(toClient) : toClient'[i] = toClient[i]
        /\ \A i \in 1..Len(toClient') : (i \in 1..Len(toClient) /\ toClient'[i] = toClient[i]) \/ toClient'[i] = r
        /\ toClient'[Len(toClient')] = r
    <3> HIDE DEF Replies
    <3> QED
      BY <1>0, <2>1, <2>2
  <2>4. Labelled'
    BY <2>1, <2>2, <2>3 DEF Labelled
  <2>5. ASSUME Open(toClient, toServer, Lo, next_id, TRUE)
        PROVE  Open(toClient', toServer', Lo, next_id, TRUE)
    <3>1. Lo \in Nat \ {0} /\ Chain(toClient, toServer, Lo)
      BY <2>5 DEF Open
    <3>2. /\ Chain(toClient', toServer, Lo)
          /\ \A j \in Nat \ {0} : Has(toClient', toServer, j) <=> Has(toClient, toServer, j)
      BY <2>2, <2>3, <3>1, PushNote
    <3>3. \A j \in Lo..next_id - 1 : j \in Nat \ {0}
      BY <3>1, <1>0
    <3> QED
      BY <2>1, <2>5, <3>2, <3>3 DEF Open
  <2> QED
    BY <1>1, <1>3, <2>1, <2>3, <2>4, <2>5
<1>6. CASE Die
  <2>1. toServer' = <<>> /\ Len(toServer') = 0 /\ toClient' = toClient /\ server' # "up"
    BY <1>6 DEF Die
  <2>2. Labelled'
    BY <2>1 DEF Labelled
  <2>3. ASSUME Open(toClient, toServer, Lo, next_id, TRUE)
        PROVE  Open(toClient', toServer', Lo, next_id, FALSE)
    <3>1. Lo \in Nat \ {0} /\ Chain(toClient, toServer, Lo)
      BY <2>3 DEF Open
    <3>2. /\ Chain(toClient, toServer', Lo)
          /\ \A j \in Nat \ {0} : Has(toClient, toServer', j) => Has(toClient, toServer, j)
      BY <2>1, <3>1, Dropped
    <3> QED
      BY <2>1, <2>3, <3>2 DEF Open
  <2> QED
    BY <1>0, <1>3, <2>1, <2>2, <2>3
<1> QED
  BY <1>4, <1>5, <1>6

LEMMA OrderNext == GateInv /\ OrderInv /\ [Next]_vars => OrderInv'
<1> SUFFICES ASSUME GateInv, OrderInv, [Next]_vars PROVE OrderInv'
  OBVIOUS
<1>1. CASE UNCHANGED vars
  BY <1>1 DEF vars, OrderInv, Typed, Labelled, Counted, Queued, Registered, Own, Lo, Waiting
<1> QED
  BY <1>1, OrderHandshake, OrderCall, OrderReturn, OrderServer DEF Next

-----------------------------------------------------------------------------

\* Without a line nobody asked for, the host has all of the server's tools and every
\* answer is its own call's; with k of them read, an answer is that of the request k
\* earlier (client.py:80-93, server.py:127-134).
THEOREM AnswersLagByChatterHolds == Spec => []AnswersLagByChatter
<1>1. OrderInv => AnswersLagByChatter
  <2> SUFFICES ASSUME OrderInv PROVE AnswersLagByChatter
    OBVIOUS
  <2>1. answers \in Seq(Answers) /\ Registered /\ Own
    BY DEF OrderInv, Typed
  <2>2. DOMAIN answers = 1..Len(answers)
    <3> HIDE DEF Answers
    <3> QED
      BY <2>1
  <2> QED
    BY <2>1, <2>2 DEF Registered, Own, AnswersLagByChatter
<1> QED
  BY GateInit, GateNext, OrderInit, OrderNext, <1>1, PTL DEF Spec
=============================================================================
