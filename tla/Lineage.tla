------------------------------ MODULE Lineage -------------------------------
(***************************************************************************)
(* Runs, forks and resumed runs over one directory of tapes, one workspace *)
(* and one directory of snapshots: cmd_run, cmd_fork and cmd_resume        *)
(* (cli.py), plan_fork (replay/fork.py), plan_resume (replay/resume.py),   *)
(* Recording (replay/recording.py) and SnapshotStore (sandbox/snapshot.py).*)
(*                                                                         *)
(* Each session is a process of its own that may die at any point. The     *)
(* loop (module AgentLoop) is reduced to what it leaves behind: a step     *)
(* reads, writes or ends the run, and a write is known by the response     *)
(* that asked for it, so a write made again changes nothing.               *)
(***************************************************************************)
EXTENDS TapeFile, FiniteSets

Tape == INSTANCE Tape

CONSTANTS
  Sessions,   \* processes, numbered in the order they are started
  Commands,   \* process -> the commands it may be started with; of a command,
              \* tape is --tape (<<>> if it is not given), at is --at or
              \* --restore-from, steps is Agent.max_steps, acts is what its model
              \* may answer, and with is the processes it may run beside, if they
              \* may run beside it
  MaxCrashes  \* bound on the processes that die

ASSUME LineageAssumption ==
  /\ Sessions \subseteq Nat \ {0} /\ IsFiniteSet(Sessions) /\ MaxCrashes \in Nat
  /\ \A s \in Sessions : Commands[s] \subseteq
       [kind : {"run", "fork", "resume"}, at : Nat, steps : Nat,
        tape : Seq({"run", "fork", "resumed"} \X Nat),
        acts : SUBSET {"read", "write", "done"}, edit : {"none", "system", "nudge"},
        snaps : BOOLEAN, restore : BOOLEAN, faithful : BOOLEAN, dry : BOOLEAN,
        with : SUBSET Sessions]

VARIABLES
  files,  \* tape name -> lines, for the tapes that exist
  trees,  \* directory -> the writes it holds, for those that exist: the workspace, and
          \* the snapshot of each step
  ses     \* the sessions

vars == <<files, trees, ses>>

None == -1          \* no step
Home == -2          \* the workspace
Ended == {"over", "refused", "dead"}

\* Messages and responses. A response is known by who asked the model for it and
\* when; the answer to a read shows the workspace the tool found.
Msg(who, id, act, saw) == [who |-> who, id |-> id, act |-> act, saw |-> saw]
NoMsg     == Msg("none", <<0, 0>>, "", {})
Prompt(s) == Msg("system", <<s, 0>>, "", {})
Task(s)   == Msg("task", <<s, 0>>, "", {})
Nudge(s)  == Msg("nudge", <<s, 0>>, "", {})
Said(m)   == m.who = "model"

FileOf(name) == IF name \in DOMAIN files THEN files[name] ELSE <<>>
Rs(name)     == Records(FileOf(name))

Holds(dir)        == IF dir \in DOMAIN trees THEN trees[dir] ELSE {}
Filled(dir, has)  == [d \in DOMAIN trees \cup {dir} |-> IF d = dir THEN has ELSE trees[d]]
Removed(dir)      == [d \in DOMAIN trees \ {dir} |-> trees[d]]

\* Tape names: runs are numbered, the others are named after their source.
RunName(n)      == <<<<"run", n>>>>
ForkName(n, at) == Append(n, <<"fork", at>>)
ResumedName(n)  == Append(n, <<"resumed", 0>>)

\* Mutant of DefaultTape: always the first name.
DefaultTapeFirst == RunName(1)

\* _default_tape: the first number no file has.
DefaultTape ==
  RunName(CHOOSE n \in 1..Cardinality(Sessions) + 1 :
            /\ RunName(n) \notin DOMAIN files
            /\ \A m \in 1..n - 1 : RunName(m) \in DOMAIN files)

-----------------------------------------------------------------------------
(* Recording: the readers of a tape *)

Places(rs, kinds) == {i \in 1..Len(rs) : rs[i].event.kind \in kinds}
Steps(rs)   == Places(rs, {"step"})
StepsOf(rs) == Tape!Only(rs, Steps(rs))
Told(rs, places) == Tape!Only([i \in 1..Len(rs) |-> rs[i].event.msg], places)
History(rs) == Told(rs, Places(rs, {"message", "step"}))

\* Recording.tool_calls with effect write, by their positions.
Writes(rs) == {i \in Places(rs, {"tool_result"}) : rs[i].event.msg.act = "write"}

\* Mutant of WritesBefore: it stops a step too early.
WritesBeforeLess(rs, at) == {i \in Writes(rs) : rs[i].event.step + 1 < at}
WritesBefore(rs, at) == {i \in Writes(rs) : rs[i].event.step < at}
WriteIds(rs, places) == {rs[i].event.msg.id : i \in places}

\* Mutant of HistoryBefore: it loses the message before the response, too.
HistoryBeforeShort(rs, at) ==
  Told(rs, {i \in Places(rs, {"message", "step"}) :
              Cardinality({j \in Steps(rs) : j <= i + 1}) <= at})

\* history_before: up to the response of that step, or all if there is none.
HistoryBefore(rs, at) ==
  Told(rs, {i \in Places(rs, {"message", "step"}) :
              Cardinality({j \in Steps(rs) : j <= i}) <= at})

\* StepCache.from_tape: the last response of each key.
CacheOf(rs) ==
  LET last(k) == CHOOSE i \in Steps(rs) :
                   /\ rs[i].event.key = k
                   /\ \A j \in Steps(rs) : j > i => rs[j].event.key # k
  IN  [k \in {rs[i].event.key : i \in Steps(rs)} |-> rs[last(k)].event.msg]
NoCache == [k \in {} |-> NoMsg]

\* Mutant of Soundness: a restore does not count.
SoundnessOfWrites(ws, k) == IF ws # {} THEN "simulated" ELSE "faithful"

\* plan_fork's verdict on a prefix with these writes, restored from snapshot k.
Soundness(ws, k) == IF ws # {} /\ k = None THEN "simulated" ELSE "faithful"

\* SnapshotStore.latest_before
LatestBefore(step) ==
  LET c == {k \in 0..step : k \in DOMAIN trees}
  IN  IF c = {} THEN None ELSE Max(c)

-----------------------------------------------------------------------------

Idle == [pc |-> "idle", cmd |-> [kind |-> "none"], src |-> <<>>, out |-> <<>>,
         handle |-> FALSE, fresh |-> FALSE, seq |-> 0, step |-> 0, hist |-> <<>>, logged |-> 0,
         cache |-> NoCache, resp |-> NoMsg, sound |-> "faithful", restored |-> None,
         beside |-> {}, todo |-> {}, got |-> {}, whole |-> TRUE]

Init ==
  /\ files = [n \in {} |-> <<>>]
  /\ trees = [d \in {Home} |-> {}]
  /\ ses = [s \in Sessions |-> Idle]

Running == {s \in Sessions : ses[s].pc \notin Ended \cup {"idle"}}

\* Some fields of a record take other values.
With(old, know) == [f \in DOMAIN old |-> IF f \in DOMAIN know THEN know[f] ELSE old[f]]

\* What s knows once it is started; beside: who else was at work at that time.
Begins(s, know) ==
  ses' = [ses EXCEPT ![s] = With(With(@, [beside |-> Running]), know)]

Startable(s, c) == /\ ses[s].pc = "idle" /\ (\A t \in Running : t \in c.with /\ s \in ses[t].cmd.with)
                   /\ \A t \in Sessions : t < s => ses[t].pc # "idle"

\* cmd_run: the tape is named now, --tape or not, and opened by the first append.
Run(s, c) ==
  /\ Startable(s, c) /\ c.kind = "run"
  /\ Begins(s, [pc |-> "open", cmd |-> c, out |-> IF c.tape = <<>> THEN DefaultTape ELSE c.tape,
                hist |-> <<Prompt(s), Task(s)>>])
  /\ UNCHANGED <<files, trees>>

\* A tape that does not parse, or a step out of range, ends the command.
Fails(s, c, src) ==
  /\ Begins(s, [pc |-> "refused", cmd |-> c, src |-> src])
  /\ UNCHANGED <<files, trees>>

\* plan_fork's other system prompt, and cmd_fork's nudge.
Edited(s, c, h) ==
  CASE c.edit = "nudge"  -> Append(h, Nudge(s))
    [] c.edit = "system" -> IF h # <<>> /\ h[1].who = "system" THEN <<Prompt(s)>> \o Tail(h) ELSE h
    [] OTHER             -> h

\* plan_fork up to the restore.
Fork(s, c, src) ==
  /\ Startable(s, c) /\ c.kind = "fork" /\ src \in DOMAIN files
  /\ LET rs == Rs(src)
         ws == WritesBefore(rs, c.at)
         k  == IF ws # {} /\ c.snaps THEN LatestBefore(c.at) ELSE None
     IN IF ~Readable(files[src]) \/ c.at > Cardinality(Steps(rs)) THEN Fails(s, c, src)
        ELSE /\ Begins(s, [pc |-> IF k = None THEN "decide" ELSE "wipe", cmd |-> c,
                           src |-> src, out |-> ForkName(src, c.at),
                           hist |-> Edited(s, c, HistoryBefore(rs, c.at)),
                           cache |-> CacheOf(rs), restored |-> k,
                           sound |-> Soundness(ws, k)])
             /\ UNCHANGED <<files, trees>>

\* plan_resume up to the restore; the nudge is appended by Agent.resume.
Resume(s, c, src) ==
  /\ Startable(s, c) /\ c.kind = "resume" /\ src \in DOMAIN files
  /\ LET rs == Rs(src)
         k  == IF c.restore THEN LatestBefore(c.at) ELSE None
     IN IF \/ ~Readable(files[src])
           \/ Steps(rs) = {}
           \/ c.restore /\ (~c.snaps \/ k = None) THEN Fails(s, c, src)
        ELSE /\ Begins(s, [pc |-> IF k = None THEN "decide" ELSE "wipe", cmd |-> c,
                           src |-> src, out |-> ResumedName(src),
                           hist |-> Edited(s, c, History(rs)), restored |-> k])
             /\ UNCHANGED <<files, trees>>

-----------------------------------------------------------------------------
(* One step of a started session *)

Goes(s, know) == ses' = [ses EXCEPT ![s] = With(@, know)]

Restoring == {"wipe", "wiping", "copy", "copying"}

\* Mutant of Into: the copy is named after the step before.
IntoBack(s) ==
  IF ses[s].pc \in Restoring THEN Home ELSE IF ses[s].step = 0 THEN 0 ELSE ses[s].step - 1

\* SnapshotStore.restore copies a snapshot into the workspace, take the workspace into
\* the snapshot of the step.
Into(s) == IF ses[s].pc \in Restoring THEN Home ELSE ses[s].step
From(s) == IF ses[s].pc \in Restoring THEN ses[s].restored ELSE Home
On(s, restoring, taking) == IF ses[s].pc \in Restoring THEN restoring ELSE taking

\* What is in the way goes first; a restore looks for its snapshot before that.
Clear(s) ==
  /\ ses[s].pc \in {"wipe", "snap"}
  /\ IF ses[s].pc = "wipe" /\ ses[s].restored \notin DOMAIN trees THEN Goes(s, [pc |-> "dead"])
     ELSE IF Into(s) \in DOMAIN trees
       THEN Goes(s, [pc |-> On(s, "wiping", "snapwiping"), todo |-> trees[Into(s)]])
     ELSE Goes(s, [pc |-> On(s, "copy", "snapcopy")])
  /\ UNCHANGED <<files, trees>>

\* rmtree, entry by entry: those it listed, and any it finds in a directory it comes to
\* later. It raises if one it listed is gone.
Unlink(s) ==
  /\ ses[s].pc \in {"wiping", "snapwiping"}
  /\ \/ \E x \in Holds(Into(s)) :
          /\ trees' = Filled(Into(s), Holds(Into(s)) \ {x})
          /\ Goes(s, [todo |-> ses[s].todo \ {x}])
     \/ /\ \E x \in ses[s].todo : x \notin Holds(Into(s))
        /\ Goes(s, [pc |-> "dead", todo |-> {}]) /\ UNCHANGED trees
  /\ UNCHANGED files

\* The directory itself goes last, and only if nobody has put anything there.
Rmdir(s) ==
  /\ ses[s].pc \in {"wiping", "snapwiping"} /\ ses[s].todo = {}
  /\ IF Into(s) \in DOMAIN trees /\ Holds(Into(s)) = {}
       THEN Goes(s, [pc |-> On(s, "copy", "snapcopy")]) /\ trees' = Removed(Into(s))
       ELSE Goes(s, [pc |-> "dead"]) /\ UNCHANGED trees
  /\ UNCHANGED files

\* copytree lists what it copies from and makes what it copies into, which must not be
\* there: not a workspace another process made, nor a snapshot.
Mkdir(s) ==
  /\ ses[s].pc \in {"copy", "snapcopy"}
  /\ IF From(s) \in DOMAIN trees /\ Into(s) \notin DOMAIN trees
       THEN /\ trees' = Filled(Into(s), {})
            /\ Goes(s, [pc |-> On(s, "copying", "snapcopying"), todo |-> trees[From(s)],
                        got |-> {}, whole |-> TRUE])
       ELSE Goes(s, [pc |-> "dead"]) /\ UNCHANGED trees
  /\ UNCHANGED files

\* One entry is copied: one it listed, or one that is in a directory it comes to later.
\* One that is gone, or has nowhere to go, is noted, and the rest is copied all the same.
CopyOne(s) ==
  /\ ses[s].pc \in {"copying", "snapcopying"}
  /\ \E x \in ses[s].todo \cup (Holds(From(s)) \ ses[s].got) :
       IF x \in Holds(From(s)) /\ Into(s) \in DOMAIN trees
         THEN /\ trees' = Filled(Into(s), Holds(Into(s)) \cup {x})
              /\ Goes(s, [todo |-> ses[s].todo \ {x}, got |-> ses[s].got \cup {x}])
         ELSE Goes(s, [todo |-> ses[s].todo \ {x}, whole |-> FALSE]) /\ UNCHANGED trees
  /\ UNCHANGED files

\* It raises at its end for what it noted.
Copied(s) ==
  /\ ses[s].pc \in {"copying", "snapcopying"} /\ ses[s].todo = {}
  /\ LET done == ses[s].whole /\ {From(s), Into(s)} \subseteq DOMAIN trees
     IN  Goes(s, [pc |-> IF done THEN On(s, "decide", "snapped") ELSE "dead"])
  /\ UNCHANGED <<files, trees>>

\* require_faithful, then --dry-run; only then is the tape opened.
Decide(s) ==
  /\ ses[s].pc = "decide"
  /\ Goes(s, [pc |-> CASE ses[s].cmd.faithful /\ ses[s].sound = "simulated" -> "refused"
                       [] ses[s].cmd.dry -> "over"
                       [] OTHER -> "open"])
  /\ UNCHANGED <<files, trees>>

\* JsonlStore._open, from the first append.
Open(s) ==
  /\ ses[s].pc = "open"
  /\ files' = [n \in DOMAIN files \cup {ses[s].out} |-> FileOf(n)]
  /\ Goes(s, [pc |-> IF ses[s].cmd.kind = "run" THEN "start" ELSE "provenance",
              handle |-> TRUE, fresh |-> FileOf(ses[s].out) = <<>>])
  /\ UNCHANGED trees

Header == HeaderOf(NoMsg)

\* The event s is about to append, by where it is in its run.
Pending(s) ==
  LET at == ses[s].step
  IN CASE ses[s].pc = "provenance" ->
            Event(IF ses[s].cmd.kind = "fork" THEN "fork" ELSE "resumed_from", 0, NoMsg, <<>>)
       [] ses[s].pc = "start"   -> Event("run_start", 0, NoMsg, <<>>)
       [] ses[s].pc = "log"     -> Event("message", 0, ses[s].hist[ses[s].logged + 1], <<>>)
       [] ses[s].pc = "snapped" -> Event("snapshot", at, NoMsg, <<>>)
       [] ses[s].pc = "asked"   -> Event("step", at, ses[s].resp, ses[s].hist)
       [] ses[s].pc = "done"    -> Event("tool_result", at, ses[s].resp, <<>>)
       [] ses[s].pc = "results" -> Event("message", at, Last(ses[s].hist), <<>>)
       [] OTHER                 -> Event("run_end", at, NoMsg, <<>>)

Appending == {"provenance", "start", "log", "snapped", "asked", "done", "results", "end"}

\* What s does once the record it was about to append is on the tape.
After(s) ==
  LET last == ses[s].resp.act = "done"
      one  == ses[s].step + 1
      begin(i) == IF i >= ses[s].cmd.steps THEN "end" ELSE IF ses[s].cmd.snaps THEN "snap" ELSE "ask"
  IN CASE ses[s].pc = "provenance" -> [pc |-> "start"]
       [] ses[s].pc = "start"   -> [pc |-> IF ses[s].hist = <<>> THEN begin(0) ELSE "log"]
       [] ses[s].pc = "log"     -> [logged |-> ses[s].logged + 1,
                                    pc |-> IF ses[s].logged + 1 < Len(ses[s].hist)
                                             THEN "log" ELSE begin(0)]
       [] ses[s].pc = "snapped" -> [pc |-> "ask"]
       [] ses[s].pc = "asked"   -> [pc |-> IF last THEN "end" ELSE "tool",
                                    hist |-> Append(ses[s].hist, ses[s].resp)]
       [] ses[s].pc = "done"    ->
            [pc |-> "results",
             hist |-> Append(ses[s].hist, Msg("tools", ses[s].resp.id, ses[s].resp.act,
                                IF ses[s].resp.act = "read" THEN Holds(Home) ELSE {}))]
       [] ses[s].pc = "results" -> [pc |-> begin(one), step |-> IF one < ses[s].cmd.steps THEN one
                                                                ELSE ses[s].step]
       [] OTHER                 -> [pc |-> "over"]

\* Mutant of Put: the header is due with the second record.
PutHeaderLate(s) ==
  /\ ses[s].pc \in Appending
  /\ files' = [files EXCEPT ![ses[s].out] =
                 Appended(@, ses[s].seq = 1, Header, Numbered(ses[s].seq, Pending(s)))]
  /\ ses' = [ses EXCEPT ![s] = With(With(@, [seq |-> @.seq + 1, fresh |-> FALSE]), After(s))]
  /\ UNCHANGED trees

\* JsonlStore.append: one line, flushed, and the next number.
Put(s) ==
  /\ ses[s].pc \in Appending
  /\ files' = [files EXCEPT ![ses[s].out] =
                 Appended(@, ses[s].fresh, Header, Numbered(ses[s].seq, Pending(s)))]
  /\ ses' = [ses EXCEPT ![s] = With(With(@, [seq |-> @.seq + 1, fresh |-> FALSE]), After(s))]
  /\ UNCHANGED trees

\* A response: from the cache if this very history was answered before.
Ask(s) ==
  /\ ses[s].pc = "ask"
  /\ IF ses[s].hist \in DOMAIN ses[s].cache
       THEN Goes(s, [pc |-> "asked", resp |-> ses[s].cache[ses[s].hist]])
       ELSE \E a \in ses[s].cmd.acts : Goes(s, [pc |-> "asked", resp |-> Msg("model", <<s, ses[s].step>>, a, {})])
  /\ UNCHANGED <<files, trees>>

\* The tool runs before its result is recorded. Writing makes missing directories.
Tool(s) ==
  /\ ses[s].pc = "tool" /\ Goes(s, [pc |-> "done"])
  /\ trees' = IF ses[s].resp.act = "write" THEN Filled(Home, Holds(Home) \cup {ses[s].resp.id})
              ELSE trees
  /\ UNCHANGED files

\* The process dies: in mid-write, or between two steps.
Crash(s) ==
  /\ s \in Running
  /\ Cardinality({t \in Sessions : ses[t].pc = "dead"}) < MaxCrashes
  /\ Goes(s, [pc |-> "dead"])
  /\ IF ses[s].pc \in Appending
       THEN \E f \in Cuts(FileOf(ses[s].out), ses[s].fresh, Header, Numbered(ses[s].seq, Pending(s))) :
              files' = [files EXCEPT ![ses[s].out] = f]
       ELSE UNCHANGED files
  /\ UNCHANGED trees

Next == \E s \in Sessions :
  \/ \E c \in Commands[s] : Run(s, c)
  \/ \E c \in Commands[s], src \in DOMAIN files : Fork(s, c, src)
  \/ \E c \in Commands[s], src \in DOMAIN files : Resume(s, c, src)
  \/ Clear(s) \/ Unlink(s) \/ Rmdir(s) \/ Mkdir(s) \/ CopyOne(s) \/ Copied(s)
  \/ Decide(s) \/ Open(s) \/ Put(s) \/ Ask(s) \/ Tool(s) \/ Crash(s)

Spec == Init /\ [][Next]_vars

-----------------------------------------------------------------------------
(* Properties *)

\* Who has opened a tape to append to it; s alone has.
Writers(name) == {s \in Sessions : ses[s].handle /\ ses[s].out = name}
Sole(s) == Writers(ses[s].out) = {s}

\* What a session's appends returned for is read back, numbered without a gap, as
\* long as it alone writes that tape, and unless it died in a write and left a torn line:
\* then the tape does not open at all (jsonl.py:55-98; see CrashCostsNoStep).
ReadsBack ==
  \A s \in Sessions : Sole(s) =>
    LET f == FileOf(ses[s].out)  rs == Records(f)
    IN IF Readable(f)
         THEN /\ \A i \in 1..Len(rs) : rs[i].seq = i - 1
              /\ \/ Len(rs) = ses[s].seq
                 \/ ses[s].pc = "dead" /\ Len(rs) = ses[s].seq + 1
         ELSE ses[s].pc = "dead" /\ Last(f).end = "torn"

\* "a crash must not cost the steps already paid for" (jsonl.py:66): a tape that alone
\* the dead process wrote, and that has a step on it, can be read.
CrashCostsNoStep ==
  \A s \in Sessions :
    ses[s].pc = "dead" /\ Sole(s) /\ Steps(Front(Rs(ses[s].out))) # {} => Readable(FileOf(ses[s].out))

\* Which commands can put two runs on one tape: a run told by --tape to write there, the
\* same fork or the same resume given twice, and two runs that chose their name while
\* both were at work. Runs that are left to choose and follow each other never do, nor do
\* a fork and a resume, nor forks at different steps.
TwoRunsAreNamesakes ==
  \A n \in DOMAIN files :
    Cardinality(Places(Rs(n), {"run_start"})) > 1 =>
      \E s, t \in Writers(n) :
        /\ s < t
        /\ \/ n \in {ses[s].cmd.tape, ses[t].cmd.tape}
           \/ /\ ses[s].cmd.kind = ses[t].cmd.kind
              /\ CASE ses[s].cmd.kind = "run"    -> s \in ses[t].beside
                   [] ses[s].cmd.kind = "fork"   -> ses[s].src = ses[t].src /\ ses[s].cmd.at = ses[t].cmd.at
                   [] ses[s].cmd.kind = "resume" -> ses[s].src = ses[t].src

\* diff_tapes: the first index at which the keys differ or one tape has ended.
Diverged(a, b) ==
  LET ends == {i \in 0..Max({Len(a), Len(b)}) - 1 :
                 i >= Len(a) \/ i >= Len(b) \/ a[i + 1].event.key # b[i + 1].event.key}
  IN  IF ends = {} THEN None ELSE Min(ends)

\* A fork with nothing changed repeats its source from the fork step on, request by
\* request and response by response, until a read shows it another workspace; so
\* the cache is hit at once. (history_before and cmd_fork once broke this.)
ForkRepeatsRest ==
  \A s, t \in Sessions :
    ses[s].cmd.kind = "fork" /\ ses[s].cmd.edit = "none" /\ Sole(s) /\ Sole(t)
      /\ ses[s].src = ses[t].out /\ t \notin ses[s].beside
      /\ Readable(FileOf(ses[s].out)) =>
      LET a == StepsOf(Rs(ses[s].out))
          all == StepsOf(Rs(ses[t].out))
          b == SubSeq(all, ses[s].cmd.at + 1, Len(all))
          d == Diverged(a, b)
          to == IF d = None THEN Len(a) ELSE d
      IN /\ \A i \in 1..to : a[i].event.msg = b[i].event.msg
         /\ d # None /\ d < Len(a) /\ d < Len(b) => \E i \in 1..d : a[i].event.msg.act = "read"

\* The writes a tape records of the session that wrote it, not those of a cache.
OwnWrites(t) == {i \in Writes(Rs(ses[t].out)) : Rs(ses[t].out)[i].event.msg.id[1] = t}

\* A restore that returns has copied, of the writes the run of that tape asked for, none
\* of the step asked for (--at, --restore-from) or later, and of the earlier ones all but
\* those made since the snapshot it found: that the snapshot may be older than the step
\* is the matter of RestoredWritesAreReal. This holds though another process writes while
\* it copies, or wrote while the snapshot was taken - if that run was over by then, it
\* recorded the snapshot, and no third process takes or restores any. And unless other
\* commands may be at work, the workspace holds that copy and nothing else.
RestoreIsExact ==
  [][\A s, t \in Sessions :
       ses[s].pc = "copying" /\ ses'[s].pc = "decide"
         /\ Sole(t) /\ ses[t].out = ses[s].src /\ t \notin ses[s].beside
         /\ (\A u \in Sessions \ {s, t} : ses[u].pc # "idle" => ~ses[u].cmd.snaps)
         /\ (\E i \in Places(Rs(ses[t].out), {"snapshot"}) :
               Rs(ses[t].out)[i].event.step = ses[s].restored)
       => LET rs   == Rs(ses[t].out)
              due  == OwnWrites(t) \cap WritesBefore(rs, ses[s].cmd.at)
              late == {i \in due : rs[i].event.step >= ses[s].restored}
          IN  /\ WriteIds(rs, OwnWrites(t)) \cap ses[s].got = WriteIds(rs, due \ late)
              /\ ses[s].cmd.with = {} => trees[Home] = ses[s].got]_vars

\* "restore the world as it stood entering the fork step, and the replayed writes are no
\* longer a simulation" (fork.py:126): a fork that restored finds every write of its
\* prefix in the workspace, where no two commands were ever at work together.
RestoredWritesAreReal ==
  \A s \in Sessions :
    ses[s].pc = "decide" /\ ses[s].cmd.kind = "fork" /\ ses[s].restored # None
      /\ (\A t \in Sessions : ses[t].beside = {})
    => LET rs == Rs(ses[s].src)
       IN  WriteIds(rs, WritesBefore(rs, ses[s].cmd.at)) \subseteq Holds(Home)

\* The history a fork hands on, with the answers of writes in it.
Answered(h) == \E i \in 1..Len(h) : h[i].who = "tools" /\ h[i].act = "write"
CalledFaithful(s) ==
  ses[s].pc = "decide" /\ ses[s].cmd.kind = "fork" /\ ses[s].sound = "faithful"
    /\ ses[s].restored = None

\* A fork owns up: of a run's own tape, one called faithful without a restore tells its
\* model of no write; and a command that refuses has restored nothing - plan_fork
\* restores before it looks at require_faithful, but never ahead of a refusal.
ForkOwnsUp ==
  /\ \A s, t \in Sessions :
       CalledFaithful(s) /\ Sole(t) /\ ses[t].cmd.kind = "run" /\ ses[t].out = ses[s].src
         => ~Answered(ses[s].hist)
  /\ \A s \in Sessions : ses[s].pc = "refused" => ses[s].restored = None

\* "No `write` ran in the replayed prefix: the workspace was never mutated."
\* (replay/fork.py) - of any tape, forks and resumed runs included.
FaithfulHasNoWrites == \A s \in Sessions : CalledFaithful(s) => ~Answered(ses[s].hist)

=============================================================================
