------------------------------ MODULE StepGraph ------------------------------
(* A DAG of pipeline steps, as a function g from each step to the steps it     *)
(* depends on: what OrchestrationGraph computes and what Orchestrator uses.    *)
EXTENDS Naturals, Sequences

CONSTANT Steps    \* names of the nodes

Dependants(g, s) == {t \in Steps : s \in g[t]}

Closed(g, S) == \A s \in S : Dependants(g, s) \subseteq S

\* downstream: the least set with the dependants of s that is closed under
\* dependants.
Downstream(g, s) ==
  {t \in Steps : \A S \in SUBSET Steps :
     Dependants(g, s) \subseteq S /\ Closed(g, S) => t \in S}

Distinct(q) == \A i, j \in DOMAIN q : q[i] = q[j] => i = j

\* topological_order: every step once, after its dependencies.
IsTopological(g, order) ==
  /\ \A s \in Steps : \E i \in DOMAIN order : order[i] = s
  /\ Distinct(order)
  /\ \A i, j \in DOMAIN order : order[i] \in g[order[j]] => i < j

=============================================================================
