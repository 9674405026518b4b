-------------------------- MODULE OrchestrationGraph --------------------------
(***************************************************************************)
(* The two algorithms of OrchestrationGraph, run on any graph of steps:    *)
(* topological_order (Kahn's algorithm), and downstream (breadth-first     *)
(* search over the dependants of a step), which a forced run calls once    *)
(* the order is known.                                                     *)
(*                                                                         *)
(* The steps are kept in a dict.  Its order decides only the order in      *)
(* which steps become ready together, and is left open.                    *)
(***************************************************************************)
EXTENDS StepGraph, FiniteSets

CONSTANT Graphs    \* dependency relations: functions from Steps to sets of names

ASSUME GraphAssumption ==
  /\ IsFiniteSet(Steps)
  /\ \A g \in Graphs : \A s \in Steps : IsFiniteSet(g[s])

VARIABLES deps,       \* the dependencies of each node
          outcome,    \* "ordering", "ordered", "cycle", "unknown"; then
                      \* "searching" and "found" for a downstream
          inDegree,   \* in_degree
          queue,      \* the deque of the running algorithm
          result,     \* the order found so far
          origin,     \* {the step whose downstream is searched}, or {}
          visited     \* visited

graphVars == <<deps, outcome, inDegree, queue, result, origin, visited>>

Elements(q) == {q[i] : i \in DOMAIN q}

\* The sequences that hold each element of S once.
Orderings(S) == {q \in [1 .. Cardinality(S) -> S] : Distinct(q) /\ Elements(q) = S}

\* _validate, when the graph is constructed: ValueError unless every dependency
\* is a node.
Valid == \A s \in Steps : deps[s] \subseteq Steps

GraphInit ==
  /\ deps \in Graphs
  /\ inDegree = [s \in Steps |-> Cardinality(deps[s])]
  /\ IF Valid
       THEN /\ outcome = "ordering"
            /\ queue \in Orderings({s \in Steps : deps[s] = {}})
       ELSE outcome = "unknown" /\ queue = <<>>
  /\ result = <<>> /\ origin = {} /\ visited = {}

\* Mutant of Readied: the in-degree is not tested.
ReadiedEarly(s) == Dependants(deps, s)

\* The dependants whose last missing dependency is s.
Readied(s) == {t \in Dependants(deps, s) : inDegree[t] = 1}

\* popleft, append to the result, decrement the successors, queue the ready ones.
PopReady ==
  /\ outcome = "ordering" /\ queue # <<>>
  /\ LET s == Head(queue) IN
       /\ result' = Append(result, s)
       /\ inDegree' = [t \in Steps |-> IF t \in Dependants(deps, s) THEN inDegree[t] - 1
                                       ELSE inDegree[t]]
       /\ \E ready \in Orderings(Readied(s)) : queue' = Tail(queue) \o ready
  /\ UNCHANGED <<deps, outcome, origin, visited>>

\* Mutant of Ordered: the length of the result is not tested.
OrderedAnyway ==
  /\ outcome = "ordering" /\ queue = <<>>
  /\ outcome' = "ordered"
  /\ UNCHANGED <<deps, inDegree, queue, result, origin, visited>>

\* The queue is empty: every node was placed, or ValueError.
Ordered ==
  /\ outcome = "ordering" /\ queue = <<>>
  /\ outcome' = IF Len(result) = Cardinality(Steps) THEN "ordered" ELSE "cycle"
  /\ UNCHANGED <<deps, inDegree, queue, result, origin, visited>>

\* A search, downstream(s), starts with the direct dependants of s.
Search(s) ==
  /\ outcome = "ordered"
  /\ outcome' = "searching"
  /\ origin' = {s}
  /\ queue' \in Orderings(Dependants(deps, s))
  /\ UNCHANGED <<deps, inDegree, result, visited>>

\* Mutant of PopVisit: the direct dependants only.
VisitDirect ==
  /\ outcome = "searching" /\ queue # <<>>
  /\ visited' = visited \cup {Head(queue)} /\ queue' = Tail(queue)
  /\ UNCHANGED <<deps, outcome, inDegree, result, origin>>

\* One iteration of the search: a step already visited is dropped.
PopVisit ==
  /\ outcome = "searching" /\ queue # <<>>
  /\ LET t == Head(queue) IN
       IF t \in visited
         THEN queue' = Tail(queue) /\ UNCHANGED visited
         ELSE /\ visited' = visited \cup {t}
              /\ \E more \in Orderings(Dependants(deps, t)) : queue' = Tail(queue) \o more
  /\ UNCHANGED <<deps, outcome, inDegree, result, origin>>

\* The search returns.
Found ==
  /\ outcome = "searching" /\ queue = <<>>
  /\ outcome' = "found"
  /\ UNCHANGED <<deps, inDegree, queue, result, origin, visited>>

GraphNext == PopReady \/ Ordered \/ (\E s \in Steps : Search(s)) \/ PopVisit \/ Found

GraphSpec == GraphInit /\ [][GraphNext]_graphVars

-----------------------------------------------------------------------------
\* Types: in particular no in-degree is decremented below zero.
GraphTypeOK ==
  /\ deps \in Graphs
  /\ outcome \in {"ordering", "ordered", "cycle", "unknown", "searching", "found"}
  /\ inDegree \in [Steps -> Nat]
  /\ queue \in Seq(Steps) /\ result \in Seq(Steps)
  /\ origin \in SUBSET Steps /\ visited \in SUBSET Steps

\* At every moment the result is a prefix of a topological order: no step is placed
\* twice or before one of its dependencies.
ResultTopological ==
  /\ Distinct(result)
  /\ \A j \in DOMAIN result : \A d \in deps[result[j]] : \E i \in 1 .. (j - 1) : result[i] = d

\* Some steps all wait for one another.
Cyclic == \E S \in SUBSET Steps : S # {} /\ \A s \in S : deps[s] \cap S # {}

\* A graph is refused exactly when it has a cycle, and otherwise its order is
\* topological.
RefusesExactlyCycles ==
  /\ outcome = "cycle" => Cyclic
  /\ outcome \in {"ordered", "searching", "found"} => ~Cyclic /\ IsTopological(deps, result)

\* The search returns Downstream, the least set that holds the dependants of the
\* origin and is closed under dependants: nothing stale survives a forced run, and
\* nothing that does not depend on the step is dropped.
DownstreamExact ==
  outcome = "found" => \A o \in origin : visited = Downstream(deps, o)

=============================================================================
