--------------------------- MODULE MCOrchestrator ----------------------------
(* Orchestrator for TLC, over a part of the default DAG: the summary and the   *)
(* cards made of it are kept in the artifact row, the cleaned content is not.  *)
EXTENDS Orchestrator, TLC

CONSTANTS prep, summ, card, m1, m2

ChainSteps == {prep, summ, card}
ChainOrder == <<prep, summ, card>>
ChainDag == (prep :> {}) @@ (summ :> {prep}) @@ (card :> {summ})
ChainKept == {summ, card}

Overlapping == \A e \in Execs : pc[e] # "idle"

\* Some output was or is made by the second model.
SecondModel == (\E e \in Execs : asks[e] = m2) \/ \E s \in Steps : row.by[s] = m2

OnlySummaryUpgraded == \A s \in Steps \ {summ} : version[s] = 0

\* Bound: executions overlap, and a second model is asked, while at most the summary
\* is upgraded; not both together, and executions overlap only as long as nothing was
\* rolled back.  One at a time they meet every mixture of versions.
Focus ==
  /\ Overlapping => OnlySummaryUpgraded /\ ~SecondModel /\ reverted = {}
  /\ SecondModel => OnlySummaryUpgraded

Alike == Permutations(Execs)

=============================================================================
