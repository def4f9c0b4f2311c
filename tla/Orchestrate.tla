----------------------------- MODULE Orchestrate -----------------------------
(***************************************************************************)
(* The two shapes of agents/orchestrate.py: what barrier and pipeline make *)
(* of a list of items, and the ticks each takes.  A stage is a function on *)
(* items; cost is a function of an item, as it enters a stage, and of the  *)
(* stage.                                                                  *)
(***************************************************************************)
EXTENDS Naturals, SequencesExt, FiniteSetsExt

Highest(s) == Max(Range(s) \cup {0})
Total(s) == FoldSeq(LAMBDA n, sum : n + sum, 0, s)

\* compare_shapes' cost of every item of a list at a stage, one unit without a cost.
Costs(items, stage, cost) == [i \in DOMAIN items |-> cost[items[i], stage]]

\* barrier: all items clear a stage before any enters the next.
Barrier(items, stages, cost) ==
  LET Rounds[k \in 0..Len(stages)] ==
        IF k = 0 THEN [current |-> items, elapsed |-> 0]
        ELSE LET before == Rounds[k - 1]
             IN [current |-> [i \in DOMAIN items |-> stages[k][before.current[i]]],
                 elapsed |-> before.elapsed + Highest(Costs(before.current, k, cost))]
  IN Rounds[Len(stages)]

\* pipeline: every item runs through all stages on its own.
Pipeline(items, stages, cost) ==
  LET Chain(item) ==
        LET Run[k \in 0..Len(stages)] ==
              IF k = 0 THEN [current |-> item, elapsed |-> 0]
              ELSE LET before == Run[k - 1]
                   IN [current |-> stages[k][before.current],
                       elapsed |-> before.elapsed + cost[before.current, k]]
        IN Run[Len(stages)]
  IN [current |-> [i \in DOMAIN items |-> Chain(items[i]).current],
      elapsed |-> Highest([i \in DOMAIN items |-> Chain(items[i]).elapsed])]

\* Shape is a scheduling choice: the answers are the same, and a pipeline is never the
\* slower (orchestrate.py:45-88; tests/test_subagents.py:154-158).
ShapesAgree(items, stages, cost) ==
  LET b == Barrier(items, stages, cost)
      p == Pipeline(items, stages, cost)
  IN b.current = p.current /\ p.elapsed <= b.elapsed
=============================================================================
