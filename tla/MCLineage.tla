----------------------------- MODULE MCLineage ------------------------------
(* Small instances of Lineage for TLC. *)
EXTENDS Lineage

\* A command without options.
Plain(kind, at, steps, acts) ==
  [kind |-> kind, tape |-> <<>>, at |-> at, steps |-> steps, acts |-> acts, edit |-> "none",
   snaps |-> FALSE, restore |-> FALSE, faithful |-> FALSE, dry |-> FALSE, with |-> {}]

anyAct == {"read", "write", "done"}
run    == Plain("run", 0, 2, anyAct)
fork(at)   == Plain("fork", at, 2, {"write", "done"})
resume(at) == Plain("resume", at, 1, {"write", "done"})

\* The second process may write beside the first, and the third beside what the second
\* restores; the second and the third may choose the name of a tape at the same time.
snapped == [run EXCEPT !.snaps = TRUE, !.acts = {"write"}, !.with = {2}]
brief   == Plain("run", 0, 1, {"done"})
writer  == Plain("run", 0, 1, {"write"})

forks == {fork(at) : at \in 0..2}
         \cup {[fork(at) EXCEPT !.faithful = TRUE, !.snaps = TRUE] : at \in 1..2}
         \cup {[fork(1) EXCEPT !.faithful = TRUE], [fork(1) EXCEPT !.edit = "system"]}
restore == [resume(1) EXCEPT !.snaps = TRUE, !.restore = TRUE]
resumes == {[resume(0) EXCEPT !.edit = "nudge"], [restore EXCEPT !.dry = TRUE],
            [restore EXCEPT !.with = {3}]}
runs    == {[writer EXCEPT !.tape = RunName(2), !.with = {1}], [brief EXCEPT !.with = {3}]}

again == {Plain("fork", 1, 1, {"done"}), Plain("resume", 0, 1, {"done"}), restore,
          [Plain("fork", 2, 1, {"done"}) EXCEPT !.snaps = TRUE],
          [brief EXCEPT !.tape = RunName(1)], [brief EXCEPT !.with = {2}],
          [writer EXCEPT !.tape = RunName(3), !.with = {2}]}

\* A run, then a run beside it or what is made of its tape, then more of the same.
commands == <<{run, snapped}, forks \cup resumes \cup runs, again>>
=============================================================================
