------------------------- MODULE OrchestratorProofs --------------------------
(***************************************************************************)
(* Proofs about topological_order and downstream, for every finite set of  *)
(* steps and every graph over them, and about the orchestrator that uses   *)
(* their results, for every DAG, any number of overlapping executions and  *)
(* any history of forced, failed and lost runs.                            *)
(*                                                                         *)
(* The invariant of Kahn's algorithm: the queue holds exactly the steps    *)
(* not placed yet whose dependencies are all placed, in-degrees count the  *)
(* dependencies not placed yet, and no step of a cycle is ever placed.     *)
(*                                                                         *)
(* The argument for the orchestrator: executing or skipping the step at a  *)
(* position of the order disturbs no checkpoint at an earlier position, so *)
(* every step behind the current one keeps the fingerprint that the run's  *)
(* own configuration gives it.  A completed run leaves every step computed *)
(* from the present outputs it depends on, because a step that kept its    *)
(* checkpoint while a dependency was computed again has an outdated one.   *)
(***************************************************************************)
EXTENDS OrchestrationGraph, Orchestrator, FiniteSetTheorems, WellFoundedInduction, TLAPS

-----------------------------------------------------------------------------
(* Sequences as the sets of their elements.                                *)

LEMMA AppendFacts ==
  ASSUME NEW q \in Seq(Steps), NEW s \in Steps
  PROVE  /\ Elements(Append(q, s)) = Elements(q) \cup {s}
         /\ Distinct(q) /\ s \notin Elements(q) => Distinct(Append(q, s))
<1>. DEFINE r == Append(q, s)
<1>1. /\ Len(q) \in Nat /\ DOMAIN q = 1 .. Len(q)
      /\ DOMAIN r = 1 .. Len(q) + 1
      /\ \A i \in 1 .. Len(q) : r[i] = q[i]
      /\ r[Len(q) + 1] = s
  OBVIOUS
<1>. HIDE DEF r
<1>2. \A i \in 1 .. Len(q) + 1 : i \in 1 .. Len(q) \/ i = Len(q) + 1
  BY <1>1
<1>3. Elements(r) = Elements(q) \cup {s}
  BY <1>1, <1>2 DEF Elements
<1>4. Distinct(q) /\ s \notin Elements(q) => Distinct(r)
  BY <1>1, <1>2 DEF Elements, Distinct
<1>. QED
  BY <1>3, <1>4 DEF r

LEMMA HeadTailFacts ==
  ASSUME NEW q \in Seq(Steps), q # <<>>
  PROVE  /\ Head(q) \in Steps /\ Tail(q) \in Seq(Steps)
         /\ Elements(q) = {Head(q)} \cup Elements(Tail(q))
         /\ Distinct(q) => Distinct(Tail(q)) /\ Head(q) \notin Elements(Tail(q))
<1>1. Len(q) \in Nat /\ Len(q) > 0 /\ DOMAIN q = 1 .. Len(q) /\ Head(q) = q[1]
  OBVIOUS
<1>2. /\ Tail(q) \in Seq(Steps)
      /\ DOMAIN Tail(q) = 1 .. Len(q) - 1
      /\ \A i \in 1 .. Len(q) - 1 : Tail(q)[i] = q[i + 1]
  BY <1>1
<1>. DEFINE n == Len(q)
            t == Tail(q)
<1>. HIDE DEF n, t
<1>3. \A i \in 1 .. n : i = 1 \/ i - 1 \in 1 .. n - 1
  BY <1>1 DEF n
<1>4. \A i \in 1 .. n - 1 : i + 1 \in 1 .. n /\ i + 1 # 1
  BY <1>1 DEF n
<1>5. \A i \in 1 .. n : i # 1 => q[i] = t[i - 1]
  BY <1>1, <1>2, <1>3 DEF n, t
<1>6. Elements(q) = {q[1]} \cup Elements(t)
  <2>1. ASSUME NEW x \in Elements(q) PROVE x \in {q[1]} \cup Elements(t)
    <3>1. PICK i \in 1 .. n : q[i] = x
      BY <1>1 DEF Elements, n
    <3>. QED
      BY <1>2, <1>3, <1>5, <3>1 DEF Elements, n, t
  <2>2. ASSUME NEW x \in Elements(t) PROVE x \in Elements(q)
    <3>1. PICK i \in 1 .. n - 1 : t[i] = x
      BY <1>2 DEF Elements, n, t
    <3>2. q[i + 1] = x
      BY <1>2, <3>1 DEF n, t
    <3>. QED
      BY <1>1, <1>4, <3>2 DEF Elements, n
  <2>3. q[1] \in Elements(q)
    BY <1>1 DEF Elements
  <2>. QED
    BY <2>1, <2>2, <2>3
<1>7. Distinct(q) => Distinct(t)
  <2>. SUFFICES ASSUME Distinct(q), NEW i \in 1 .. n - 1, NEW j \in 1 .. n - 1, t[i] = t[j]
                PROVE  i = j
    BY <1>2 DEF Distinct, n, t
  <2>1. q[i + 1] = q[j + 1]
    BY <1>2 DEF n, t
  <2>2. i + 1 = j + 1
    BY <1>1, <1>4, <2>1 DEF Distinct, n
  <2>. QED
    BY <2>2
<1>8. Distinct(q) => q[1] \notin Elements(t)
  <2>. SUFFICES ASSUME Distinct(q), NEW i \in 1 .. n - 1, t[i] = q[1]
                PROVE  FALSE
    BY <1>2 DEF Elements, n, t
  <2>1. q[i + 1] = q[1]
    BY <1>2 DEF n, t
  <2>. QED
    BY <1>1, <1>4, <2>1 DEF Distinct, n
<1>. QED
  BY <1>1, <1>2, <1>6, <1>7, <1>8 DEF t

LEMMA ConcatFacts ==
  ASSUME NEW q \in Seq(Steps), NEW r \in Seq(Steps)
  PROVE  /\ q \o r \in Seq(Steps)
         /\ Elements(q \o r) = Elements(q) \cup Elements(r)
         /\ Distinct(q) /\ Distinct(r) /\ Elements(q) \cap Elements(r) = {}
              => Distinct(q \o r)
<1>1. /\ q \o r \in Seq(Steps)
      /\ DOMAIN (q \o r) = 1 .. Len(q) + Len(r)
      /\ \A i \in 1 .. Len(q) : (q \o r)[i] = q[i]
      /\ \A i \in 1 .. Len(r) : (q \o r)[Len(q) + i] = r[i]
  OBVIOUS
<1>. DEFINE n == Len(q)
            m == Len(r)
            c == q \o r
<1>2. n \in Nat /\ m \in Nat /\ DOMAIN q = 1 .. n /\ DOMAIN r = 1 .. m
  OBVIOUS
<1>. HIDE DEF n, m, c
<1>3. \A i \in 1 .. n + m : i \in 1 .. n \/ (i - n \in 1 .. m /\ i = n + (i - n))
  BY <1>2
<1>4. \A i \in 1 .. n + m : IF i \in 1 .. n THEN c[i] = q[i] ELSE c[i] = r[i - n]
  BY <1>1, <1>2, <1>3 DEF n, m, c
<1>5. Elements(c) = Elements(q) \cup Elements(r)
  <2>1. ASSUME NEW x \in Elements(c) PROVE x \in Elements(q) \cup Elements(r)
    <3>1. PICK i \in 1 .. n + m : c[i] = x
      BY <1>1 DEF Elements, n, m, c
    <3>. QED
      BY <1>2, <1>3, <1>4, <3>1 DEF Elements
  <2>2. Elements(q) \subseteq Elements(c)
    <3>1. \A i \in 1 .. n : i \in 1 .. n + m
      BY <1>2
    <3>. QED
      BY <1>1, <1>2, <3>1 DEF Elements, n, m, c
  <2>3. Elements(r) \subseteq Elements(c)
    <3>1. \A i \in 1 .. m : n + i \in 1 .. n + m
      BY <1>2
    <3>. QED
      BY <1>1, <1>2, <3>1 DEF Elements, n, m, c
  <2>. QED
    BY <2>1, <2>2, <2>3
<1>6. ASSUME Distinct(q), Distinct(r), Elements(q) \cap Elements(r) = {}
      PROVE  Distinct(c)
  <2>. SUFFICES ASSUME NEW i \in 1 .. n + m, NEW j \in 1 .. n + m, c[i] = c[j]
                PROVE  i = j
    BY <1>1 DEF Distinct, n, m, c
  <2>1. CASE i \in 1 .. n /\ j \in 1 .. n
    BY <1>2, <1>4, <1>6, <2>1 DEF Distinct
  <2>2. CASE i \notin 1 .. n /\ j \notin 1 .. n
    <3>1. i - n \in 1 .. m /\ j - n \in 1 .. m /\ r[i - n] = r[j - n]
      BY <1>3, <1>4, <2>2
    <3>2. i - n = j - n
      BY <1>2, <1>6, <3>1 DEF Distinct
    <3>. QED
      BY <1>2, <3>2
  <2>3. \A k \in 1 .. n + m : IF k \in 1 .. n THEN c[k] \in Elements(q)
                                               ELSE c[k] \in Elements(r)
    BY <1>2, <1>3, <1>4 DEF Elements
  <2>4. i \in 1 .. n <=> j \in 1 .. n
    BY <1>6, <2>3
  <2>. QED
    BY <2>1, <2>2, <2>3, <2>4
<1>. QED
  BY <1>1, <1>5, <1>6 DEF c

LEMMA OrderingsFacts ==
  ASSUME NEW S \in SUBSET Steps, NEW q \in Orderings(S)
  PROVE  q \in Seq(Steps) /\ Distinct(q) /\ Elements(q) = S
<1>1. Cardinality(S) \in Nat
  BY FS_Subset, FS_CardinalityType, GraphAssumption DEF GraphAssumption
<1>. QED
  BY <1>1 DEF Orderings

-----------------------------------------------------------------------------
(* Kahn's algorithm.                                                       *)

\* in_degree counts the dependencies not placed yet.
Counted == \A s \in Steps : inDegree[s] = Cardinality(deps[s] \ Elements(result))

\* While ordering, the queue holds once each step that may be placed now.
QueueReady ==
  outcome = "ordering" =>
    /\ Distinct(queue)
    /\ Elements(queue) = {s \in Steps \ Elements(result) : deps[s] \subseteq Elements(result)}

\* No step of a set in which all wait for one another is placed.
NoCycleReached ==
  \A S \in SUBSET Steps :
    (\A s \in S : deps[s] \cap S # {}) => S \cap Elements(result) = {}

KahnInv ==
  /\ GraphTypeOK /\ ResultTopological
  /\ Len(result) = Cardinality(Elements(result))
  /\ outcome # "unknown" => Valid /\ Counted /\ QueueReady /\ NoCycleReached
  /\ outcome = "unknown" => result = <<>>

\* The steps still missing among the dependencies form a finite set.
LEMMA MissingFinite ==
  ASSUME GraphTypeOK, NEW s \in Steps, NEW R
  PROVE  IsFiniteSet(deps[s] \ R) /\ Cardinality(deps[s] \ R) \in Nat
<1>1. IsFiniteSet(deps[s])
  BY GraphAssumption DEF GraphTypeOK, GraphAssumption
<1>2. IsFiniteSet(deps[s] \ R)
  BY <1>1, FS_Subset
<1>. QED
  BY <1>2, FS_CardinalityType

LEMMA KahnInit == GraphInit => KahnInv
<1>. SUFFICES ASSUME GraphInit PROVE KahnInv
  OBVIOUS
<1>1. Elements(<<>>) = {} /\ <<>> \in Seq(Steps) /\ Len(<<>>) = 0 /\ Distinct(<<>>)
  BY DEF Elements, Distinct
<1>2. queue \in Seq(Steps)
  BY <1>1, OrderingsFacts DEF GraphInit
<1>3. \A s \in Steps : IsFiniteSet(deps[s]) /\ Cardinality(deps[s]) \in Nat
  BY GraphAssumption, FS_CardinalityType DEF GraphInit, GraphAssumption
<1>4. GraphTypeOK
  BY <1>1, <1>2, <1>3 DEF GraphInit, GraphTypeOK
<1>5. ResultTopological
  BY <1>1 DEF GraphInit, ResultTopological
<1>6. Len(result) = Cardinality(Elements(result))
  BY <1>1, FS_EmptySet DEF GraphInit
<1>7. ASSUME outcome # "unknown" PROVE Valid /\ Counted /\ QueueReady /\ NoCycleReached
  <2>1. Valid /\ queue \in Orderings({s \in Steps : deps[s] = {}})
    BY <1>7 DEF GraphInit, Valid
  <2>2. Distinct(queue) /\ Elements(queue) = {s \in Steps : deps[s] = {}}
    BY <2>1, OrderingsFacts
  <2>3. QueueReady /\ NoCycleReached
    BY <1>1, <2>2 DEF GraphInit, QueueReady, NoCycleReached
  <2>4. Counted
    BY <1>1 DEF GraphInit, Counted
  <2>. QED
    BY <2>1, <2>3, <2>4
<1>. QED
  BY <1>4, <1>5, <1>6, <1>7 DEF KahnInv, GraphInit

\* Placing the head of the queue.
LEMMA KahnPop ==
  ASSUME KahnInv, PopReady
  PROVE  KahnInv'
<1>. DEFINE s == Head(queue)
            R == Elements(result)
<1>1. PICK ready \in Orderings(Readied(s)) : queue' = Tail(queue) \o ready
  BY DEF PopReady
<1>2. /\ outcome = "ordering" /\ queue # <<>> /\ result' = Append(result, s)
      /\ UNCHANGED <<deps, outcome, origin, visited>>
  BY DEF PopReady
<1>3. /\ GraphTypeOK /\ Valid /\ Counted /\ QueueReady /\ NoCycleReached /\ ResultTopological
      /\ queue \in Seq(Steps) /\ result \in Seq(Steps)
  BY <1>2 DEF KahnInv, GraphTypeOK
<1>4. /\ s \in Steps /\ Tail(queue) \in Seq(Steps)
      /\ Elements(queue) = {s} \cup Elements(Tail(queue))
      /\ Distinct(Tail(queue)) /\ s \notin Elements(Tail(queue))
  BY <1>2, <1>3, HeadTailFacts DEF QueueReady
<1>5. s \notin R /\ deps[s] \subseteq R
  BY <1>2, <1>3, <1>4 DEF QueueReady
<1>6. Readied(s) = {t \in Steps \ R : deps[t] \subseteq R \cup {s} /\ ~ deps[t] \subseteq R}
  <2>. SUFFICES ASSUME NEW t \in Steps
                PROVE  s \in deps[t] /\ inDegree[t] = 1 <=>
                         t \notin R /\ deps[t] \subseteq R \cup {s} /\ ~ deps[t] \subseteq R
    BY DEF Readied, Dependants
  <2>1. /\ IsFiniteSet(deps[t] \ R)
        /\ Cardinality(deps[t] \ R) = 1 <=> \E x : deps[t] \ R = {x}
    BY <1>3, MissingFinite, FS_Singleton
  <2>2. inDegree[t] = Cardinality(deps[t] \ R)
    BY <1>3 DEF Counted
  <2>3. t \in R => deps[t] \subseteq R
    BY <1>3 DEF ResultTopological, Elements
  <2>. QED
    BY <1>5, <2>1, <2>2, <2>3
<1>7. Readied(s) \in SUBSET Steps
  BY <1>6
<1>8. ready \in Seq(Steps) /\ Distinct(ready) /\ Elements(ready) = Readied(s)
  BY <1>7, OrderingsFacts
<1>9. /\ result' \in Seq(Steps) /\ Elements(result') = R \cup {s}
      /\ Distinct(result')
  BY <1>2, <1>3, <1>4, <1>5, AppendFacts DEF ResultTopological
<1>10. /\ queue' \in Seq(Steps) /\ Distinct(queue')
       /\ Elements(queue') = Elements(Tail(queue)) \cup Readied(s)
  <2>1. Elements(Tail(queue)) \cap Readied(s) = {}
    BY <1>2, <1>3, <1>4, <1>6 DEF QueueReady
  <2>. QED
    BY <1>1, <1>4, <1>8, <2>1, ConcatFacts
<1>11. QueueReady'
  <2>1. Elements(Tail(queue)) = {t \in Steps \ R : deps[t] \subseteq R} \ {s}
    BY <1>2, <1>3, <1>4 DEF QueueReady
  <2>2. Elements(queue') = {t \in Steps \ (R \cup {s}) : deps[t] \subseteq R \cup {s}}
    BY <1>5, <1>6, <1>10, <2>1
  <2>. QED
    BY <1>2, <1>9, <1>10, <2>2 DEF QueueReady
<1>12. \A t \in Steps : /\ inDegree'[t] = IF s \in deps[t] THEN inDegree[t] - 1 ELSE inDegree[t]
                        /\ inDegree'[t] = Cardinality(deps'[t] \ Elements(result'))
                        /\ inDegree'[t] \in Nat
  <2>. SUFFICES ASSUME NEW t \in Steps
                PROVE  /\ inDegree'[t] = IF s \in deps[t] THEN inDegree[t] - 1 ELSE inDegree[t]
                       /\ inDegree'[t] = Cardinality(deps'[t] \ Elements(result'))
                       /\ inDegree'[t] \in Nat
    OBVIOUS
  <2>1. inDegree'[t] = IF s \in deps[t] THEN inDegree[t] - 1 ELSE inDegree[t]
    BY DEF PopReady, Dependants
  <2>2. IsFiniteSet(deps[t] \ R)
    BY <1>3, MissingFinite
  <2>3. Cardinality((deps[t] \ R) \ {s})
          = IF s \in deps[t] \ R THEN Cardinality(deps[t] \ R) - 1 ELSE Cardinality(deps[t] \ R)
    BY <2>2, FS_RemoveElement
  <2>4. deps'[t] \ Elements(result') = (deps[t] \ R) \ {s}
    BY <1>2, <1>9
  <2>5. inDegree'[t] = Cardinality(deps'[t] \ Elements(result'))
    BY <1>3, <1>5, <2>1, <2>3, <2>4 DEF Counted
  <2>6. Cardinality((deps[t] \ R) \ {s}) \in Nat
    BY <2>2, FS_RemoveElement, FS_CardinalityType
  <2>. QED
    BY <2>1, <2>4, <2>5, <2>6
<1>13. Counted'
  BY <1>12 DEF Counted
<1>14. GraphTypeOK'
  <2>1. inDegree' \in [Steps -> Nat]
    BY <1>12 DEF PopReady
  <2>. QED
    BY <1>2, <1>3, <1>9, <1>10, <2>1 DEF GraphTypeOK
<1>15. NoCycleReached'
  BY <1>2, <1>3, <1>5, <1>9 DEF NoCycleReached
<1>16. Len(result') = Cardinality(Elements(result'))
  <2>1. IsFiniteSet(R)
    BY <1>3, FS_Subset, GraphAssumption DEF GraphAssumption, Elements
  <2>2. Cardinality(R \cup {s}) = Cardinality(R) + 1
    BY <1>5, <2>1, FS_AddElement
  <2>3. Len(result') = Len(result) + 1
    BY <1>2, <1>3, <1>4
  <2>. QED
    BY <1>9, <2>2, <2>3 DEF KahnInv
<1>17. ResultTopological'
  <2>. SUFFICES ASSUME NEW j \in DOMAIN result', NEW d \in deps[result'[j]]
                PROVE  \E i \in 1 .. (j - 1) : result'[i] = d
    BY <1>2, <1>9 DEF ResultTopological
  <2>1. /\ Len(result) \in Nat /\ DOMAIN result = 1 .. Len(result)
        /\ DOMAIN result' = 1 .. Len(result) + 1
        /\ \A i \in 1 .. Len(result) : result'[i] = result[i]
        /\ result'[Len(result) + 1] = s
    BY <1>2, <1>3, <1>4
  <2>2. CASE j \in 1 .. Len(result)
    <3>1. PICK i \in 1 .. (j - 1) : result[i] = d
      BY <1>3, <2>1, <2>2 DEF ResultTopological
    <3>2. i \in 1 .. Len(result)
      BY <2>1, <2>2
    <3>. QED
      BY <2>1, <3>1, <3>2
  <2>3. CASE j = Len(result) + 1
    <3>1. PICK i \in 1 .. Len(result) : result[i] = d
      BY <1>5, <2>1, <2>3 DEF Elements
    <3>. QED
      BY <2>1, <2>3, <3>1
  <2>. QED
    BY <2>1, <2>2, <2>3
<1>. QED
  BY <1>2, <1>3, <1>11, <1>13, <1>14, <1>15, <1>16, <1>17 DEF KahnInv, Valid

\* The steps after the ordering keep what Kahn's algorithm left behind.
LEMMA KahnRest ==
  ASSUME KahnInv, Ordered \/ (\E s \in Steps : Search(s)) \/ PopVisit \/ Found
  PROVE  KahnInv'
<1>1. /\ outcome # "unknown" /\ outcome' \in {"ordered", "cycle", "searching", "found"}
      /\ UNCHANGED <<deps, inDegree, result>>
  BY DEF Ordered, Search, PopVisit, Found
<1>2. \A s \in Steps : Dependants(deps, s) \in SUBSET Steps
  BY DEF Dependants
<1>3. queue' \in Seq(Steps) /\ origin' \in SUBSET Steps /\ visited' \in SUBSET Steps
  <2>. USE <1>2, OrderingsFacts, HeadTailFacts, ConcatFacts DEF KahnInv, GraphTypeOK
  <2>1. CASE Ordered \/ Found
    BY <2>1 DEF Ordered, Found
  <2>2. ASSUME NEW s \in Steps, Search(s)
        PROVE  queue' \in Seq(Steps) /\ origin' \in SUBSET Steps /\ visited' \in SUBSET Steps
    BY <2>2 DEF Search
  <2>3. CASE PopVisit
    <3>1. Head(queue) \in Steps /\ Tail(queue) \in Seq(Steps) /\ origin' = origin
      BY <2>3 DEF PopVisit
    <3>2. CASE Head(queue) \in visited
      BY <2>3, <3>1, <3>2 DEF PopVisit
    <3>3. CASE Head(queue) \notin visited
      <4>1. PICK more \in Orderings(Dependants(deps, Head(queue))) : queue' = Tail(queue) \o more
        BY <2>3, <3>3 DEF PopVisit
      <4>2. visited' = visited \cup {Head(queue)}
        BY <2>3, <3>3 DEF PopVisit
      <4>3. more \in Seq(Steps)
        BY <3>1, <4>1
      <4>. QED
        BY <3>1, <4>1, <4>2, <4>3
    <3>. QED
      BY <3>2, <3>3
  <2>. QED
    BY <2>1, <2>2, <2>3
<1>4. GraphTypeOK'
  BY <1>1, <1>3 DEF KahnInv, GraphTypeOK
<1>. QED
  BY <1>1, <1>4 DEF KahnInv, Valid, Counted, QueueReady, NoCycleReached, ResultTopological

LEMMA KahnNext == KahnInv /\ [GraphNext]_graphVars => KahnInv'
<1>1. KahnInv /\ UNCHANGED graphVars => KahnInv'
  BY DEF graphVars, KahnInv, GraphTypeOK, Valid, Counted, QueueReady, NoCycleReached, ResultTopological
<1>. QED
  BY <1>1, KahnPop, KahnRest DEF GraphNext

(* No in-degree is ever decremented below zero, and the queues and the     *)
(* visited set hold known steps only.                                      *)
THEOREM GraphTypeCorrect == GraphSpec => []GraphTypeOK
<1>1. KahnInv => GraphTypeOK
  BY DEF KahnInv
<1>. QED
  BY <1>1, KahnInit, KahnNext, PTL DEF GraphSpec

(* topological_order never places a step twice or before a dependency.     *)
THEOREM GraphResultTopological == GraphSpec => []ResultTopological
<1>1. KahnInv => ResultTopological
  BY DEF KahnInv
<1>. QED
  BY <1>1, KahnInit, KahnNext, PTL DEF GraphSpec

-----------------------------------------------------------------------------
(* Cycles.                                                                 *)

\* When the queue runs empty, the steps not placed are those of a cycle or behind
\* one.
LEMMA LeftOverIsCyclic ==
  ASSUME KahnInv, outcome = "ordering", queue = <<>>
  PROVE  /\ Len(result) = Cardinality(Steps) => Elements(result) = Steps
         /\ Len(result) # Cardinality(Steps) => Cyclic
<1>. DEFINE R == Elements(result)
            S == Steps \ R
<1>1. R \subseteq Steps
  BY DEF KahnInv, GraphTypeOK, Elements
<1>2. IsFiniteSet(Steps)
  BY GraphAssumption DEF GraphAssumption
<1>3. Len(result) = Cardinality(Steps) => R = Steps
  <2>1. Cardinality(R) = Cardinality(Steps) => R = Steps
    BY <1>1, <1>2, FS_Subset
  <2>. QED
    BY <2>1 DEF KahnInv
<1>4. Elements(queue) = {}
  BY DEF Elements
<1>5. \A s \in S : deps[s] \cap S # {}
  BY <1>4 DEF KahnInv, QueueReady, Valid
<1>6. Len(result) # Cardinality(Steps) => S # {}
  <2>1. R # Steps => S # {}
    BY <1>1
  <2>. QED
    BY <2>1 DEF KahnInv
<1>7. S # {} => Cyclic
  BY <1>5 DEF Cyclic
<1>. QED
  BY <1>3, <1>6, <1>7

\* A result that holds every step shows that there is no cycle.
LEMMA PlacedIsTopological ==
  ASSUME KahnInv, outcome # "unknown", Elements(result) = Steps
  PROVE  ~Cyclic /\ IsTopological(deps, result)
<1>1. ~Cyclic
  BY DEF KahnInv, NoCycleReached, Cyclic
<1>2. \A s \in Steps : \E i \in DOMAIN result : result[i] = s
  BY DEF Elements
<1>3. ASSUME NEW i \in DOMAIN result, NEW j \in DOMAIN result, result[i] \in deps[result[j]]
      PROVE  i < j
  <2>1. PICK k \in 1 .. (j - 1) : result[k] = result[i]
    BY <1>3 DEF KahnInv, ResultTopological
  <2>2. DOMAIN result = 1 .. Len(result) /\ Len(result) \in Nat
    BY DEF KahnInv, GraphTypeOK
  <2>3. k \in DOMAIN result /\ k < j
    BY <2>1, <2>2
  <2>4. k = i
    BY <2>1, <2>3 DEF KahnInv, ResultTopological, Distinct
  <2>. QED
    BY <2>3, <2>4
<1>. QED
  BY <1>1, <1>2, <1>3 DEF KahnInv, ResultTopological, IsTopological

CycleInv ==
  /\ RefusesExactlyCycles
  /\ outcome \in {"ordered", "searching", "found"} => Elements(result) = Steps

LEMMA CycleNext == KahnInv /\ CycleInv /\ [GraphNext]_graphVars => CycleInv'
<1>. SUFFICES ASSUME KahnInv, CycleInv, [GraphNext]_graphVars PROVE CycleInv'
  OBVIOUS
<1>1. CASE PopReady
  BY <1>1 DEF PopReady, CycleInv, RefusesExactlyCycles
<1>2. CASE Ordered
  <2>1. UNCHANGED <<deps, result>> /\ outcome = "ordering" /\ queue = <<>>
    BY <1>2 DEF Ordered
  <2>2. outcome' = IF Len(result) = Cardinality(Steps) THEN "ordered" ELSE "cycle"
    BY <1>2 DEF Ordered
  <2>3. CASE Len(result) = Cardinality(Steps)
    <3>1. Elements(result) = Steps
      BY <2>1, <2>3, LeftOverIsCyclic
    <3>2. ~Cyclic /\ IsTopological(deps, result)
      BY <2>1, <3>1, PlacedIsTopological
    <3>. QED
      BY <2>1, <2>2, <2>3, <3>1, <3>2 DEF CycleInv, RefusesExactlyCycles, Cyclic, IsTopological
  <2>4. CASE Len(result) # Cardinality(Steps)
    <3>1. Cyclic
      BY <2>1, <2>4, LeftOverIsCyclic
    <3>. QED
      BY <2>1, <2>2, <2>4, <3>1 DEF CycleInv, RefusesExactlyCycles, Cyclic
  <2>. QED
    BY <2>3, <2>4
<1>3. CASE (\E s \in Steps : Search(s)) \/ PopVisit \/ Found \/ UNCHANGED graphVars
  <2>1. /\ UNCHANGED <<deps, result>>
        /\ outcome' = "cycle" => outcome = "cycle"
        /\ outcome' \in {"ordered", "searching", "found"}
             => outcome \in {"ordered", "searching", "found"}
    BY <1>3 DEF Search, PopVisit, Found, graphVars
  <2>. QED
    BY <2>1 DEF CycleInv, RefusesExactlyCycles, Cyclic, IsTopological
<1>. QED
  BY <1>1, <1>2, <1>3 DEF GraphNext

(* topological_order raises exactly for the graphs that have a cycle, and  *)
(* returns for the others what Orchestrator assumes of Order.              *)
THEOREM GraphRefusesExactlyCycles == GraphSpec => []RefusesExactlyCycles
<1>1. GraphInit => CycleInv
  BY DEF GraphInit, CycleInv, RefusesExactlyCycles
<1>2. CycleInv => RefusesExactlyCycles
  BY DEF CycleInv
<1>. QED
  BY <1>1, <1>2, CycleNext, KahnInit, KahnNext, PTL DEF GraphSpec

-----------------------------------------------------------------------------
(* The breadth-first search.                                               *)

\* What was found or is queued covers the dependants of the origin and of what was
\* found, and lies in every closed set that holds the dependants of the origin.
SearchInv ==
  /\ outcome \in {"ordering", "ordered", "cycle", "unknown"} => visited = {}
  /\ outcome \in {"searching", "found"} => \A o \in origin :
       /\ Dependants(deps, o) \subseteq visited \cup Elements(queue)
       /\ \A v \in visited : Dependants(deps, v) \subseteq visited \cup Elements(queue)
       /\ \A S \in SUBSET Steps :
            Dependants(deps, o) \subseteq S /\ Closed(deps, S) => visited \cup Elements(queue) \subseteq S
  /\ outcome = "found" => Elements(queue) = {}

LEMMA SearchNext == KahnInv /\ SearchInv /\ [GraphNext]_graphVars => SearchInv'
<1>. SUFFICES ASSUME KahnInv, SearchInv, [GraphNext]_graphVars PROVE SearchInv'
  OBVIOUS
<1>1. \A s \in Steps : Dependants(deps, s) \in SUBSET Steps
  BY DEF Dependants
<1>2. CASE PopReady \/ Ordered
  BY <1>2 DEF PopReady, Ordered, SearchInv
<1>3. ASSUME NEW s \in Steps, Search(s) PROVE SearchInv'
  <2>1. /\ Elements(queue') = Dependants(deps, s) /\ origin' = {s} /\ visited' = {}
        /\ outcome' = "searching" /\ deps' = deps
    BY <1>1, <1>3, OrderingsFacts DEF Search, SearchInv
  <2>. QED
    BY <2>1 DEF SearchInv, Dependants
<1>4. CASE PopVisit
  <2>. DEFINE t == Head(queue)
  <2>1. /\ outcome = "searching" /\ outcome' = "searching" /\ queue # <<>>
        /\ deps' = deps /\ origin' = origin
    BY <1>4 DEF PopVisit
  <2>2. /\ t \in Steps /\ Tail(queue) \in Seq(Steps)
        /\ Elements(queue) = {t} \cup Elements(Tail(queue))
    BY <2>1, HeadTailFacts DEF KahnInv, GraphTypeOK
  <2>3. CASE t \in visited
    <3>1. visited' = visited /\ Elements(queue') = Elements(Tail(queue))
      BY <1>4, <2>3 DEF PopVisit
    <3>2. visited' \cup Elements(queue') = visited \cup Elements(queue)
      BY <2>2, <2>3, <3>1
    <3>. QED
      BY <2>1, <3>1, <3>2 DEF SearchInv, Dependants, Closed
  <2>4. CASE t \notin visited
    <3>1. visited' = visited \cup {t}
      BY <1>4, <2>4 DEF PopVisit
    <3>2. PICK more \in Orderings(Dependants(deps, t)) : queue' = Tail(queue) \o more
      BY <1>4, <2>4 DEF PopVisit
    <3>3. more \in Seq(Steps) /\ Elements(more) = Dependants(deps, t)
      BY <1>1, <2>2, <3>2, OrderingsFacts
    <3>4. Elements(queue') = Elements(Tail(queue)) \cup Dependants(deps, t)
      BY <2>2, <3>2, <3>3, ConcatFacts
    <3>5. visited' \cup Elements(queue')
            = visited \cup Elements(queue) \cup Dependants(deps, t)
      BY <2>2, <3>1, <3>4
    <3>6. \A S \in SUBSET Steps : Closed(deps, S) /\ t \in S => Dependants(deps, t) \subseteq S
      BY DEF Closed
    <3>7. t \in Elements(queue)
      BY <2>2
    <3>. QED
      BY <2>1, <3>1, <3>5, <3>6, <3>7 DEF SearchInv, Dependants, Closed
  <2>. QED
    BY <2>3, <2>4
<1>5. CASE Found
  BY <1>5 DEF Found, SearchInv, Dependants, Closed, Elements
<1>6. CASE UNCHANGED graphVars
  BY <1>6 DEF graphVars, SearchInv, Dependants, Closed
<1>. QED
  BY <1>2, <1>3, <1>4, <1>5, <1>6 DEF GraphNext

\* downstream returns exactly the transitive dependants, Downstream, which is what
\* Orchestrator takes it to return.
THEOREM GraphDownstreamExact == GraphSpec => []DownstreamExact
<1>1. GraphInit => SearchInv
  BY DEF GraphInit, SearchInv
<1>2. KahnInv /\ SearchInv => DownstreamExact
  <2>. SUFFICES ASSUME KahnInv, SearchInv, outcome = "found", NEW o \in origin
                PROVE  visited = Downstream(deps, o)
    BY DEF DownstreamExact
  <2>1. visited \in SUBSET Steps
    BY DEF KahnInv, GraphTypeOK
  <2>2. Dependants(deps, o) \subseteq visited /\ Closed(deps, visited)
    BY DEF SearchInv, Closed
  <2>3. Downstream(deps, o) \subseteq visited
    BY <2>1, <2>2 DEF Downstream
  <2>4. visited \subseteq Downstream(deps, o)
    BY <2>1 DEF SearchInv, Downstream
  <2>. QED
    BY <2>3, <2>4
<1>. QED
  BY <1>1, <1>2, SearchNext, KahnInit, KahnNext, PTL DEF GraphSpec

-----------------------------------------------------------------------------
(* Facts about the order.                                                  *)

LEMMA OrderFacts ==
  /\ Last \in Nat
  /\ DOMAIN Order = 1 .. Last
  /\ \A i \in 1 .. Last : Order[i] \in Steps
BY OrchestratorAssumption DEF OrchestratorAssumption, IsTopological, Distinct, Last

\* A dependency of the step at position j is at an earlier position.
LEMMA DependenciesEarlier ==
  ASSUME NEW j \in 1 .. Last, NEW d \in Deps[Order[j]]
  PROVE  \E k \in 1 .. Last : k < j /\ d = Order[k]
<1>1. d \in Steps
  BY OrchestratorAssumption, OrderFacts DEF OrchestratorAssumption
<1>2. PICK k \in DOMAIN Order : Order[k] = d
  BY <1>1, OrchestratorAssumption DEF OrchestratorAssumption, IsTopological, Distinct
<1>3. k < j
  BY <1>2, OrderFacts, OrchestratorAssumption DEF OrchestratorAssumption, IsTopological, Distinct
<1>. QED
  BY <1>2, <1>3, OrderFacts

\* Everything downstream of the step at position i is at a later position.
LEMMA DownstreamLater ==
  ASSUME NEW i \in 1 .. Last, NEW k \in 1 .. Last, k <= i
  PROVE  /\ Order[k] = Order[i] => k = i
         /\ Order[k] \notin Downstream(Deps, Order[i])
<1>. DEFINE Later == {Order[j] : j \in {m \in 1 .. Last : i < m}}
<1>1. Later \in SUBSET Steps
  BY OrderFacts
<1>2. ASSUME NEW t \in Steps, NEW j \in 1 .. Last, i <= j, Order[j] \in Deps[t]
      PROVE  t \in Later
  <2>1. PICK m \in 1 .. Last : Order[m] = t
    BY OrderFacts, OrchestratorAssumption DEF OrchestratorAssumption, IsTopological, Distinct
  <2>2. j < m
    BY <1>2, <2>1, OrderFacts, OrchestratorAssumption DEF OrchestratorAssumption, IsTopological, Distinct
  <2>3. i < m
    BY <1>2, <2>2, OrderFacts
  <2>. QED
    BY <2>1, <2>3
<1>3. Closed(Deps, Later)
  BY <1>2 DEF Closed, Dependants
<1>4. \A u \in Steps : Order[i] \in Deps[u] => u \in Later
  BY <1>2, OrderFacts
<1>5. Downstream(Deps, Order[i]) \subseteq Later
  BY <1>1, <1>3, <1>4 DEF Downstream, Dependants
<1>6. \A m \in 1 .. Last : Order[m] = Order[k] => m = k
  BY OrderFacts, OrchestratorAssumption DEF OrchestratorAssumption, IsTopological, Distinct
<1>7. Order[k] \notin Later
  BY <1>6, OrderFacts
<1>. QED
  BY <1>5, <1>6, <1>7, OrderFacts

\* The checkpoints that executing s may change: its own and those downstream of it.
SameElsewhere(a, x, s) ==
  \A t \in Steps : t # s /\ t \notin Downstream(Deps, s) => x.fp[t] = a.fp[t]

LEMMA ExecutedElsewhere ==
  ASSUME NEW a, NEW c, NEW m, NEW s, NEW f
  PROVE  SameElsewhere(a, Executed(a, c, m, s, f), s)
BY DEF SameElsewhere, Executed, Dropped

\* What depends on a dropped step, or on the step whose checkpoints are dropped, is
\* dropped too.
LEMMA DownstreamClosed ==
  ASSUME NEW s \in Steps, NEW t \in Steps, NEW u \in Steps, t \in Deps[u],
         t = s \/ t \in Downstream(Deps, s)
  PROVE  u \in Downstream(Deps, s)
<1>. SUFFICES ASSUME NEW S \in SUBSET Steps, Dependants(Deps, s) \subseteq S, Closed(Deps, S)
              PROVE  u \in S
  BY DEF Downstream
<1>1. u \in Dependants(Deps, t)
  BY DEF Dependants
<1>2. t = s \/ t \in S
  BY DEF Downstream
<1>. QED
  BY <1>1, <1>2 DEF Closed

\* Executing a step changes the fingerprint of none but those downstream of it.
LEMMA FingerprintKept ==
  ASSUME NEW a, NEW x, NEW s \in Steps, SameElsewhere(a, x, s),
         NEW t \in Steps, t \notin Downstream(Deps, s), NEW c
  PROVE  Fingerprint(x, c, t) = Fingerprint(a, c, t)
<1>1. ASSUME NEW d \in Deps[t] PROVE x.fp[d] = a.fp[d]
  <2>1. d \in Steps
    BY OrchestratorAssumption DEF OrchestratorAssumption
  <2>2. d # s /\ d \notin Downstream(Deps, s)
    BY <2>1, DownstreamClosed
  <2>. QED
    BY <2>1, <2>2 DEF SameElsewhere
<1>2. [d \in Deps[t] |-> x.fp[d]] = [d \in Deps[t] |-> a.fp[d]]
  BY <1>1
<1>. QED
  BY <1>2 DEF Fingerprint

-----------------------------------------------------------------------------
(* Type correctness.                                                       *)

LEMMA EmptyIsStored == IsStored(EmptyArtifact)
BY OrchestratorAssumption DEF IsStored, IsArtifact, EmptyArtifact

LEMMA StoredIsStored ==
  ASSUME NEW a, IsArtifact(a)
  PROVE  IsStored(Stored(a))
BY DEF IsStored, IsArtifact, Stored

LEMMA ExecutedIsArtifact ==
  ASSUME NEW a, NEW c, NEW m \in Models \cup {None}, NEW f, NEW s \in Steps, IsArtifact(a)
  PROVE  IsArtifact(Executed(a, c, m, s, f))
<1>1. Deps[s] \subseteq Steps
  BY OrchestratorAssumption DEF OrchestratorAssumption, IsTopological, Distinct
<1>2. \A q \in Executed(a, c, m, s, f).fresh : q[1] \in Steps /\ q[2] \in Deps[q[1]]
  <2>. SUFFICES ASSUME NEW q \in Executed(a, c, m, s, f).fresh
                PROVE  q[1] \in Steps /\ q[2] \in Deps[q[1]]
    OBVIOUS
  <2>1. q \in a.fresh \/ \E d \in Deps[s] : q = <<s, d>>
    BY DEF Executed
  <2>. QED
    BY <2>1 DEF IsArtifact
<1>3. Executed(a, c, m, s, f).by \in [Steps -> Models \cup {None}]
  BY DEF Executed, IsArtifact
<1>. QED
  BY <1>1, <1>2, <1>3 DEF Executed, IsArtifact

LEMMA CurrentIsStep ==
  ASSUME TypeOK, NEW e \in Execs, at[e] <= Last
  PROVE  at[e] \in 1 .. Last /\ Current(e) \in Steps
BY OrderFacts DEF TypeOK, Current

\* The end of a run resets the execution's locals to values of their types.
LEMMA EndRunTyped ==
  ASSUME TypeOK, NEW e \in Execs, EndRun(e), UNCHANGED <<version, reverted>>,
         IsStored(row'), status' \in {"uploaded", "done", "failed"}, masked' \in BOOLEAN
  PROVE  TypeOK'
<1>1. IsArtifact(EmptyArtifact)
  BY EmptyIsStored DEF IsStored
<1>2. /\ 1 \in 1 .. Last + 1
      /\ [s \in Steps |-> 0] \in [Steps -> 0 .. MaxVersion]
  BY OrderFacts, OrchestratorAssumption DEF OrchestratorAssumption, IsTopological, Distinct
<1>3. art' = [art EXCEPT ![e] = EmptyArtifact] /\ saved' = [saved EXCEPT ![e] = None]
  BY DEF EndRun
<1>4. \A f \in Execs : IsArtifact(art'[f]) /\ (saved'[f] = None \/ IsStored(saved'[f]))
  BY <1>1, <1>3 DEF TypeOK
<1>5. art' = [f \in Execs |-> art'[f]] /\ saved' = [f \in Execs |-> saved'[f]]
  BY <1>3 DEF TypeOK
<1>. HIDE DEF EmptyArtifact
<1>6. /\ pc' \in [Execs -> {"idle", "loaded", "stepping"}]
      /\ config' \in [Execs -> [Steps -> 0 .. MaxVersion]]
      /\ asks' \in [Execs -> Models \cup {None}]
      /\ force' \in [Execs -> BOOLEAN]
      /\ at' \in [Execs -> 1 .. Last + 1]
  BY <1>2 DEF EndRun, TypeOK
<1>. QED
  BY <1>4, <1>5, <1>6 DEF TypeOK, IsStored, IsArtifact

LEMMA TypeInit == Init => TypeOK
<1>. SUFFICES ASSUME Init PROVE TypeOK
  OBVIOUS
<1>1. IsStored(EmptyArtifact) /\ IsArtifact(EmptyArtifact)
  BY EmptyIsStored DEF IsStored
<1>2. /\ 1 \in 1 .. Last + 1
      /\ [s \in Steps |-> 0] \in [Steps -> 0 .. MaxVersion]
  BY OrderFacts, OrchestratorAssumption DEF OrchestratorAssumption, IsTopological, Distinct
<1>. HIDE DEF EmptyArtifact
<1>. QED
  BY <1>1, <1>2 DEF Init, TypeOK

\* A step of an execution keeps the types.
LEMMA TypeRunStep ==
  ASSUME TypeOK, NEW e \in Execs, RunStep(e)
  PROVE  TypeOK'
<1>1. CASE LoadArtifact(e)
  <2>1. art' = [art EXCEPT ![e] = row] /\ saved' = saved
    BY <1>1 DEF LoadArtifact
  <2>2. IsArtifact(row)
    BY DEF TypeOK, IsStored
  <2>3. /\ \A f \in Execs : IsArtifact(art'[f]) /\ (saved'[f] = None \/ IsStored(saved'[f]))
        /\ art' = [f \in Execs |-> art'[f]] /\ saved' = [f \in Execs |-> saved'[f]]
    BY <2>1, <2>2 DEF TypeOK
  <2>4. force' \in [Execs -> BOOLEAN] /\ asks' \in [Execs -> Models \cup {None}]
    BY <1>1, OrchestratorAssumption DEF LoadArtifact, TypeOK, OrchestratorAssumption
  <2>. QED
    BY <1>1, <2>3, <2>4 DEF LoadArtifact, TypeOK, IsStored, IsArtifact
<1>2. CASE BeginRun(e)
  BY <1>2 DEF BeginRun, TypeOK, IsStored, IsArtifact
<1>3. CASE SkipCached(e)
  <2>1. at[e] + 1 \in 1 .. Last + 1
    BY <1>3, CurrentIsStep, OrderFacts DEF SkipCached
  <2>2. at' \in [Execs -> 1 .. Last + 1]
    BY <1>3, <2>1 DEF SkipCached, TypeOK
  <2>. QED
    BY <1>3, <2>2 DEF SkipCached, TypeOK, IsStored, IsArtifact
<1>4. CASE ExecuteStep(e)
  <2>. DEFINE a == Executed(art[e], config[e], asks[e], Current(e), force[e])
  <2>1. at[e] <= Last
    BY <1>4 DEF ExecuteStep, NotSkipped
  <2>2. at[e] + 1 \in 1 .. Last + 1 /\ Current(e) \in Steps
    BY <2>1, CurrentIsStep, OrderFacts
  <2>3. IsArtifact(a) /\ IsStored(Stored(a))
    BY <2>2, ExecutedIsArtifact, StoredIsStored DEF TypeOK
  <2>4. /\ art' = [art EXCEPT ![e] = a]
        /\ saved' = [saved EXCEPT ![e] = Stored(a)]
        /\ at' = [at EXCEPT ![e] = @ + 1]
        /\ UNCHANGED <<row, status, version, pc, config, asks, force, reverted, masked>>
    BY <1>4 DEF ExecuteStep
  <2>. HIDE DEF a
  <2>5. /\ \A f \in Execs : IsArtifact(art'[f]) /\ (saved'[f] = None \/ IsStored(saved'[f]))
        /\ art' = [f \in Execs |-> art'[f]] /\ saved' = [f \in Execs |-> saved'[f]]
    BY <2>3, <2>4 DEF TypeOK
  <2>6. at' \in [Execs -> 1 .. Last + 1]
    BY <2>2, <2>4 DEF TypeOK
  <2>. QED
    BY <2>4, <2>5, <2>6 DEF TypeOK, IsStored, IsArtifact
<1>5. ASSUME NEW st \in {"done", "failed"}, CommitRun(e, st)
      PROVE  TypeOK'
  <2>1. IsStored(row')
    BY <1>5 DEF CommitRun, TypeOK
  <2>. QED
    BY <1>5, <2>1, EndRunTyped DEF CommitRun
<1>6. CASE StepFails(e) \/ CompleteRun(e)
  BY <1>5, <1>6 DEF StepFails, CompleteRun
<1>7. CASE LoseRun(e)
  <2>1. IsStored(row')
    BY <1>7 DEF LoseRun, TypeOK, IsStored, IsArtifact
  <2>2. status' \in {"uploaded", "done", "failed"} /\ masked' \in BOOLEAN
    BY <1>7 DEF LoseRun, TypeOK
  <2>. QED
    BY <1>7, <2>1, <2>2, EndRunTyped DEF LoseRun
<1>. QED
  BY <1>1, <1>2, <1>3, <1>4, <1>6, <1>7 DEF RunStep

LEMMA TypeNext == TypeOK /\ [Next]_vars => TypeOK'
<1>. SUFFICES ASSUME TypeOK, [Next]_vars PROVE TypeOK'
  OBVIOUS
<1>1. ASSUME NEW s \in Steps, ChangeVersion(s)
      PROVE  TypeOK'
  <2>1. version' \in [Steps -> 0 .. MaxVersion] /\ reverted' \subseteq Steps
    BY <1>1 DEF ChangeVersion, TypeOK
  <2>. QED
    BY <1>1, <2>1 DEF ChangeVersion, TypeOK, runVars, IsStored, IsArtifact
<1>2. CASE UNCHANGED vars
  BY <1>2 DEF vars, runVars, TypeOK, IsStored, IsArtifact
<1>. QED
  BY <1>1, <1>2, TypeRunStep DEF Next

(* Every variable of the orchestrator has its type: in particular the row  *)
(* never claims an output that save_checkpoint does not write.             *)
THEOREM OrchestratorTypeCorrect == Spec => []TypeOK
BY TypeInit, TypeNext, PTL DEF Spec

-----------------------------------------------------------------------------
(* No step is skipped for an outdated reason.                              *)

\* The step at position i has the checkpoint that the run would give it now, and in
\* a forced run the output of the model it asks.
UpToDateAt(e, i) ==
  /\ art[e].fp[Order[i]] = Fingerprint(art[e], config[e], Order[i])
  /\ force[e] => art[e].by[Order[i]] = asks[e]

\* Behind its current step everything is up to date; a run starts at the first step,
\* with nothing flushed, and what it has flushed is its artifact.
PassedBy(e) ==
  /\ pc[e] # "stepping" => at[e] = 1 /\ saved[e] = None
  /\ saved[e] # None => saved[e] = Stored(art[e])
  /\ \A i \in 1 .. Last : i < at[e] => UpToDateAt(e, i)

PassedUpToDate == \A e \in Execs : PassedBy(e)

PassedInv == TypeOK /\ PassedUpToDate

LEMMA PassedInit == Init => PassedUpToDate
BY OrderFacts DEF Init, PassedUpToDate, PassedBy

\* Only the current execution's position, artifact and settings move.
LEMMA PassedOthers ==
  ASSUME TypeOK, NEW e \in Execs, RunStep(e), NEW f \in Execs, f # e
  PROVE  /\ pc'[f] = pc[f] /\ at'[f] = at[f] /\ saved'[f] = saved[f]
         /\ art'[f] = art[f] /\ config'[f] = config[f]
         /\ force'[f] = force[f] /\ asks'[f] = asks[f]
BY DEF TypeOK, RunStep, LoadArtifact, BeginRun, SkipCached, NotSkipped,
       ExecuteStep, StepFails, CompleteRun, LoseRun, CommitRun, EndRun

\* The execution that moves has everything behind it up to date.
LEMMA PassedMoving ==
  ASSUME PassedInv, NEW e \in Execs, RunStep(e)
  PROVE  PassedBy(e)'
<1>. USE DEF PassedInv
<1>0. TypeOK /\ PassedBy(e)
  BY DEF PassedUpToDate
<1>1. CASE LoadArtifact(e)
  <2>1. at'[e] = 1 /\ saved'[e] = None
    BY <1>0, <1>1 DEF LoadArtifact, PassedBy, TypeOK
  <2>. QED
    BY <2>1, OrderFacts DEF PassedBy
<1>2. CASE BeginRun(e)
  <2>1. at'[e] = 1 /\ saved'[e] = None
    BY <1>0, <1>2 DEF BeginRun, PassedBy, TypeOK
  <2>. QED
    BY <2>1, OrderFacts DEF PassedBy
<1>3. CASE SkipCached(e)
  <2>1. at[e] \in 1 .. Last /\ UpToDateAt(e, at[e])
    BY <1>3, CurrentIsStep DEF SkipCached, Cached, Current, UpToDateAt
  <2>2. /\ at'[e] = at[e] + 1 /\ pc'[e] = "stepping"
        /\ UNCHANGED <<art, config, saved, force, asks>>
    BY <1>3 DEF SkipCached, TypeOK
  <2>3. ASSUME NEW i \in 1 .. Last, i < at'[e]
        PROVE  UpToDateAt(e, i)'
    <3>1. i < at[e] \/ i = at[e]
      BY <2>1, <2>2, <2>3, OrderFacts
    <3>2. UpToDateAt(e, i)
      BY <1>0, <2>1, <3>1 DEF PassedBy
    <3>. QED
      BY <2>2, <3>2 DEF UpToDateAt
  <2>. QED
    BY <1>0, <2>2, <2>3 DEF PassedBy
<1>4. CASE ExecuteStep(e)
  <2>. DEFINE here == at[e]
              a == Executed(art[e], config[e], asks[e], Order[here], force[e])
  <2>1. here \in 1 .. Last /\ Order[here] \in Steps
    BY <1>4, CurrentIsStep DEF ExecuteStep, NotSkipped, Current
  <2>2. /\ art'[e] = a /\ config'[e] = config[e] /\ saved'[e] = Stored(a)
        /\ force'[e] = force[e] /\ asks'[e] = asks[e]
        /\ at'[e] = here + 1 /\ pc'[e] = "stepping"
    BY <1>4 DEF ExecuteStep, NotSkipped, Current, TypeOK
  <2>3. /\ a.fp[Order[here]] = Fingerprint(art[e], config[e], Order[here])
        /\ a.by = [art[e].by EXCEPT ![Order[here]] = asks[e]]
    BY <2>1 DEF Executed
  <2>4. ASSUME NEW i \in 1 .. Last, i < at'[e]
        PROVE  UpToDateAt(e, i)'
    <3>1. i < here \/ i = here
      BY <2>1, <2>2, <2>4, OrderFacts
    <3>2. i <= here
      BY <2>1, <3>1, OrderFacts
    <3>3. Fingerprint(a, config[e], Order[i]) = Fingerprint(art[e], config[e], Order[i])
      <4>1. SameElsewhere(art[e], a, Order[here])
        BY ExecutedElsewhere
      <4>2. Order[i] \in Steps /\ Order[i] \notin Downstream(Deps, Order[here])
        BY <2>1, <3>2, DownstreamLater, OrderFacts
      <4>. HIDE DEF a
      <4>. QED
        BY <2>1, <4>1, <4>2, FingerprintKept
    <3>4. CASE i < here
      <4>1. /\ art[e].fp[Order[i]] = Fingerprint(art[e], config[e], Order[i])
            /\ force[e] => art[e].by[Order[i]] = asks[e]
        BY <1>0, <3>4 DEF PassedBy, UpToDateAt
      <4>2. a.fp[Order[i]] = art[e].fp[Order[i]]
        <5>1. Order[i] # Order[here] /\ Order[i] \notin Downstream(Deps, Order[here])
          BY <2>1, <3>2, <3>4, DownstreamLater, OrderFacts
        <5>. QED
          BY <5>1, OrderFacts DEF Executed, Dropped
      <4>3. Order[i] # Order[here]
        BY <2>1, <3>2, <3>4, DownstreamLater, OrderFacts
      <4>4. a.by[Order[i]] = art[e].by[Order[i]]
        BY <2>3, <4>3, OrderFacts, <1>0 DEF TypeOK, IsArtifact
      <4>. HIDE DEF a
      <4>. QED
        BY <2>2, <3>3, <4>1, <4>2, <4>4 DEF UpToDateAt
    <3>5. CASE i = here
      <4>1. a.by[Order[here]] = asks[e]
        BY <1>0, <2>1, <2>3 DEF TypeOK, IsArtifact
      <4>. HIDE DEF a
      <4>. QED
        BY <2>2, <2>3, <3>3, <3>5, <4>1 DEF UpToDateAt
    <3>. QED
      BY <3>1, <3>4, <3>5
  <2>. HIDE DEF a
  <2>. QED
    BY <2>2, <2>4 DEF PassedBy
<1>5. CASE StepFails(e) \/ CompleteRun(e) \/ LoseRun(e)
  <2>1. at'[e] = 1 /\ saved'[e] = None
    BY <1>0, <1>5 DEF StepFails, CompleteRun, LoseRun, CommitRun, EndRun, TypeOK
  <2>. QED
    BY <2>1, OrderFacts DEF PassedBy
<1>. QED
  BY <1>1, <1>2, <1>3, <1>4, <1>5 DEF RunStep

LEMMA PassedNext == PassedInv /\ [Next]_vars => PassedUpToDate'
<1>. SUFFICES ASSUME PassedInv, [Next]_vars PROVE PassedUpToDate'
  OBVIOUS
<1>1. ASSUME NEW e \in Execs, RunStep(e)
      PROVE  PassedUpToDate'
  <2>. SUFFICES ASSUME NEW f \in Execs
                PROVE  PassedBy(f)'
    BY DEF PassedUpToDate
  <2>1. CASE f = e
    BY <1>1, <2>1, PassedMoving
  <2>2. CASE f # e
    BY <1>1, <2>2, PassedOthers DEF PassedInv, PassedUpToDate, PassedBy, UpToDateAt, Fingerprint
  <2>. QED
    BY <2>1, <2>2
<1>2. CASE UNCHANGED runVars
  BY <1>2 DEF PassedInv, PassedUpToDate, PassedBy, UpToDateAt, runVars, Fingerprint
<1>. QED
  BY <1>1, <1>2 DEF Next, ChangeVersion, vars

\* A run that completes has every step up to date, and commits its own artifact.
LEMMA CompleteRunCommits ==
  ASSUME PassedInv, NEW e \in Execs, CompleteRun(e)
  PROVE  /\ \A s \in Steps : /\ art[e].fp[s] = Fingerprint(art[e], config[e], s)
                             /\ force[e] => art[e].by[s] = asks[e]
         /\ ~masked' => row' = art[e] \/ row' = Stored(art[e])
<1>1. ASSUME NEW s \in Steps
      PROVE  /\ art[e].fp[s] = Fingerprint(art[e], config[e], s)
             /\ force[e] => art[e].by[s] = asks[e]
  <2>1. PICK i \in 1 .. Last : Order[i] = s
    BY OrderFacts, OrchestratorAssumption DEF OrchestratorAssumption, IsTopological, Distinct
  <2>2. i < at[e]
    BY <2>1, OrderFacts DEF CompleteRun, PassedInv, TypeOK
  <2>. QED
    BY <2>1, <2>2 DEF PassedInv, PassedUpToDate, PassedBy, UpToDateAt
<1>2. ASSUME ~masked' PROVE row' = art[e] \/ row' = Stored(art[e])
  <2>1. /\ row' = IF saved[e] = None THEN row ELSE saved[e]
        /\ saved[e] # None \/ art[e] = row
    BY <1>2 DEF CompleteRun, CommitRun
  <2>2. saved[e] # None => saved[e] = Stored(art[e])
    BY DEF PassedInv, PassedUpToDate, PassedBy
  <2>. QED
    BY <2>1, <2>2
<1>. QED
  BY <1>1, <1>2

LEMMA CompleteRunUpToDate ==
  ASSUME PassedInv, NEW e \in Execs, CompleteRun(e), ~masked'
  PROVE  /\ \A s \in Steps : row'.fp[s] = Fingerprint(row', config[e], s)
         /\ force[e] => \A s \in Steps : row'.by[s] = asks[e]
<1>1. Stored(art[e]).fp = art[e].fp /\ Stored(art[e]).by = art[e].by
  BY DEF Stored, PassedInv, TypeOK, IsArtifact
<1>2. row'.fp = art[e].fp /\ row'.by = art[e].by
  BY <1>1, CompleteRunCommits
<1>3. ASSUME NEW s \in Steps
      PROVE  /\ art[e].fp[s] = Fingerprint(art[e], config[e], s)
             /\ force[e] => art[e].by[s] = asks[e]
  BY CompleteRunCommits
<1>4. \A s \in Steps : Fingerprint(row', config[e], s) = Fingerprint(art[e], config[e], s)
  BY <1>2 DEF Fingerprint
<1>. QED
  BY <1>2, <1>3, <1>4

(* What a run that completes commits has, for every step, the checkpoint   *)
(* that the run's own configuration and the checkpoints committed upstream *)
(* of it give, and after a forced run every output of the run's model: the *)
(* skip of a cached step is sound, in the order of any DAG and whatever    *)
(* the other executions commit meanwhile.  Only a run that flushed nothing *)
(* while another one replaced the row (masked) commits no such thing.      *)
THEOREM OrchestratorUpToDate == Spec => UpToDateWhenCompleted
<1>1. Init => PassedInv
  BY TypeInit, PassedInit DEF PassedInv
<1>2. PassedInv /\ [Next]_vars => PassedInv'
  BY TypeNext, PassedNext DEF PassedInv
<1>3. PassedInv => \A e \in Execs : CompleteRun(e) /\ ~masked' =>
        /\ \A s \in Steps : row'.fp[s] = Fingerprint(row', config[e], s)
        /\ force[e] => \A s \in Steps : row'.by[s] = asks[e]
  BY CompleteRunUpToDate
<1>. QED
  BY <1>1, <1>2, <1>3, PTL DEF Spec, UpToDateWhenCompleted

-----------------------------------------------------------------------------
(* A processed document is complete, unless its last run never saw the row *)
(* it vouches for.                                                         *)

\* A step with a checkpoint has its output, where the row keeps outputs.
OutputsKept(a) == \A s \in Persisted : a.fp[s] # None => s \in a.have

ArtifactsKept == OutputsKept(row) /\ \A e \in Execs : OutputsKept(art[e])

CompleteInv == PassedInv /\ ArtifactsKept /\ Complete

LEMMA NoneIsNothing ==
  /\ \A a, c, s : Fingerprint(a, c, s) # None
  /\ \A a : Stored(a) # None
BY DEF Fingerprint, Stored, None

LEMMA EmptyKept == OutputsKept(EmptyArtifact)
BY OrchestratorAssumption DEF OrchestratorAssumption, IsTopological, Distinct, OutputsKept, EmptyArtifact

LEMMA StoredKept ==
  ASSUME NEW a, OutputsKept(a)
  PROVE  OutputsKept(Stored(a))
BY DEF OutputsKept, Stored

LEMMA ExecutedKept ==
  ASSUME NEW a, NEW c, NEW m, NEW f, NEW s, OutputsKept(a)
  PROVE  OutputsKept(Executed(a, c, m, s, f))
BY OrchestratorAssumption DEF OrchestratorAssumption, IsTopological, Distinct, OutputsKept, Executed

LEMMA CompleteInit == Init => ArtifactsKept /\ Complete
<1>. SUFFICES ASSUME Init PROVE ArtifactsKept /\ Complete
  OBVIOUS
<1>1. row = EmptyArtifact /\ \A e \in Execs : art[e] = EmptyArtifact
  BY DEF Init
<1>2. status # "done"
  BY DEF Init
<1>. QED
  BY <1>1, <1>2, EmptyKept DEF ArtifactsKept, Complete

\* The other executions' artifacts are what they were.
LEMMA KeptOthers ==
  ASSUME CompleteInv, NEW e \in Execs, RunStep(e), OutputsKept(row'), OutputsKept(art'[e])
  PROVE  ArtifactsKept'
<1>1. ASSUME NEW f \in Execs PROVE OutputsKept(art'[f])
  <2>1. CASE f = e
    BY <2>1
  <2>2. CASE f # e
    <3>1. art'[f] = art[f]
      BY <2>2, PassedOthers DEF CompleteInv, PassedInv
    <3>. QED
      BY <3>1 DEF CompleteInv, ArtifactsKept
  <2>. QED
    BY <2>1, <2>2
<1>. QED
  BY <1>1 DEF ArtifactsKept, OutputsKept

\* What a run commits is the row as it was or what the run worked on.
LEMMA CommitKept ==
  ASSUME CompleteInv, NEW e \in Execs, NEW st, CommitRun(e, st)
  PROVE  OutputsKept(row') /\ OutputsKept(art'[e])
<1>1. row' = row \/ row' = Stored(art[e])
  BY DEF CommitRun, CompleteInv, PassedInv, PassedUpToDate, PassedBy
<1>2. art'[e] = EmptyArtifact
  BY DEF CommitRun, EndRun, CompleteInv, PassedInv, TypeOK
<1>. QED
  BY <1>1, <1>2, StoredKept, EmptyKept DEF CompleteInv, ArtifactsKept

\* A run that completes has every checkpoint, hence every output, and the row it
\* leaves has both.
LEMMA CompleteRunComplete ==
  ASSUME CompleteInv, NEW e \in Execs, CompleteRun(e)
  PROVE  Complete'
<1>. SUFFICES ASSUME ~masked'
              PROVE  Persisted \subseteq row'.have /\ \A s \in Steps : row'.fp[s] # None
  BY DEF Complete
<1>1. ASSUME NEW s \in Steps PROVE art[e].fp[s] # None
  <2>1. art[e].fp[s] = Fingerprint(art[e], config[e], s)
    BY CompleteRunCommits DEF CompleteInv
  <2>. QED
    BY <2>1, NoneIsNothing
<1>2. OutputsKept(art[e])
  BY DEF CompleteInv, ArtifactsKept
<1>3. Persisted \subseteq art[e].have
  BY <1>1, <1>2, OrchestratorAssumption DEF OrchestratorAssumption, OutputsKept
<1>4. row' = art[e] \/ row' = Stored(art[e])
  BY CompleteRunCommits DEF CompleteInv
<1>. QED
  BY <1>1, <1>3, <1>4 DEF Stored

LEMMA CompleteRunStep ==
  ASSUME CompleteInv, NEW e \in Execs, RunStep(e)
  PROVE  ArtifactsKept' /\ Complete'
<1>t. TypeOK /\ Complete /\ OutputsKept(row) /\ OutputsKept(art[e])
  BY DEF CompleteInv, PassedInv, ArtifactsKept
<1>1. CASE LoadArtifact(e) \/ BeginRun(e) \/ SkipCached(e)
  <2>1. /\ art'[e] = art[e] \/ art'[e] = row
        /\ UNCHANGED <<row, status, masked>>
    BY <1>t, <1>1 DEF LoadArtifact, BeginRun, SkipCached, TypeOK
  <2>2. OutputsKept(row') /\ OutputsKept(art'[e])
    BY <1>t, <2>1
  <2>. QED
    BY <1>t, <2>1, <2>2, KeptOthers DEF Complete
<1>2. CASE ExecuteStep(e)
  <2>1. /\ art'[e] = Executed(art[e], config[e], asks[e], Current(e), force[e])
        /\ UNCHANGED <<row, status, masked>>
    BY <1>t, <1>2 DEF ExecuteStep, TypeOK
  <2>2. OutputsKept(art'[e]) /\ OutputsKept(row')
    BY <1>t, <2>1, ExecutedKept
  <2>. QED
    BY <1>t, <2>1, <2>2, KeptOthers DEF Complete
<1>3. CASE StepFails(e)
  <2>1. status' # "done" /\ CommitRun(e, "failed")
    BY <1>3 DEF StepFails, CommitRun
  <2>. QED
    BY <2>1, CommitKept, KeptOthers DEF Complete
<1>4. CASE CompleteRun(e)
  <2>1. CommitRun(e, "done")
    BY <1>4 DEF CompleteRun
  <2>. QED
    BY <1>4, <2>1, CommitKept, KeptOthers, CompleteRunComplete
<1>5. CASE LoseRun(e)
  <2>1. art'[e] = EmptyArtifact /\ UNCHANGED <<row, status, masked>>
    BY <1>t, <1>5 DEF LoseRun, EndRun, TypeOK
  <2>2. OutputsKept(art'[e]) /\ OutputsKept(row')
    BY <1>t, <2>1, EmptyKept
  <2>. QED
    BY <1>t, <2>1, <2>2, KeptOthers DEF Complete
<1>. QED
  BY <1>1, <1>2, <1>3, <1>4, <1>5 DEF RunStep

LEMMA CompleteNext == CompleteInv /\ [Next]_vars => CompleteInv'
<1>. SUFFICES ASSUME CompleteInv, [Next]_vars PROVE CompleteInv'
  OBVIOUS
<1>1. ArtifactsKept' /\ Complete'
  <2>1. CASE \E e \in Execs : RunStep(e)
    BY <2>1, CompleteRunStep
  <2>2. CASE \E s \in Steps : ChangeVersion(s)
    BY <2>2 DEF ChangeVersion, CompleteInv, ArtifactsKept, OutputsKept, Complete, runVars
  <2>3. CASE UNCHANGED vars
    BY <2>3 DEF vars, CompleteInv, ArtifactsKept, OutputsKept, Complete, runVars
  <2>. QED
    BY <2>1, <2>2, <2>3 DEF Next
<1>. QED
  BY <1>1, TypeNext, PassedNext DEF CompleteInv, PassedInv

(* A document marked done has every checkpoint and every output that the   *)
(* row can keep, for any DAG, any number of overlapping executions and     *)
(* whatever skipped, failed, forced and lost runs and changes of           *)
(* configuration came before, unless the run that marked it done flushed   *)
(* nothing over a row other than the one it had loaded.                    *)
THEOREM OrchestratorComplete == Spec => []Complete
<1>1. Init => CompleteInv
  BY TypeInit, PassedInit, CompleteInit DEF CompleteInv, PassedInv
<1>2. CompleteInv => Complete
  BY DEF CompleteInv
<1>. QED
  BY <1>1, <1>2, CompleteNext, PTL DEF Spec

-----------------------------------------------------------------------------
(* A processed document is consistent.  A step is executed again only when *)
(* its fingerprint changed.  The output of a step that was not executed    *)
(* again stays computed from the present output of a dependency unless the *)
(* dependency was executed again, under a later configuration; and that    *)
(* changed its checkpoint for good, if it is a steady step, one whose      *)
(* configurations never went back: a fingerprint that an earlier and a     *)
(* later configuration give is given by every one in between.  So the step *)
(* has an outdated checkpoint, and a run that completes leaves none.  All  *)
(* this is about the steady steps U only, and U only shrinks.              *)

Configs == [Steps -> Nat]

\* No step of U is behind.
Leq(U, c, d) == \A s \in U : c[s] <= d[s]

\* A set of steps with all that they depend on.
UpstreamClosed(U) == U \subseteq Steps /\ \A s \in U : Deps[s] \subseteq U

\* The fingerprint of a step, given the checkpoints of its dependencies.
FingerprintOf(f, c, s) == [version |-> c[s], inputs |-> [d \in Deps[s] |-> f[d]]]

\* The checkpoints f are those the configuration c gives, up to position n.
Canonical(f, c, n) == \A j \in 1 .. n : f[Order[j]] = FingerprintOf(f, c, Order[j])

\* For each step with a checkpoint, the configuration it was last executed with
\* and the checkpoints there were at that moment.
Trace(U, a, v, K, F) ==
  /\ K \in [1 .. Last -> Configs] /\ F = [i \in 1 .. Last |-> F[i]]
  /\ \A i \in 1 .. Last : a.fp[Order[i]] # None =>
       /\ Leq(U, K[i], v)
       /\ Canonical(F[i], K[i], i)
       /\ a.fp[Order[i]] = F[i][Order[i]]
  /\ \A i, k \in 1 .. Last : a.fp[Order[i]] # None /\ Order[k] \in Deps[Order[i]] =>
       /\ a.fp[Order[k]] # None
       /\ a.fp[Order[k]] = F[i][Order[k]] \/ Leq(U, K[i], K[k])
       /\ a.fp[Order[k]] = F[i][Order[k]] /\ Order[k] \in Persisted \cap U =>
            <<Order[i], Order[k]>> \in a.fresh

Traced(U, a, v) == \E K, F : Trace(U, a, v, K, F)

LEMMA FingerprintFacts ==
  /\ \A a, c, s : Fingerprint(a, c, s) = FingerprintOf(a.fp, c, s)
  /\ \A f, c, g, h, s :
       FingerprintOf(f, c, s) = FingerprintOf(g, h, s)
         <=> c[s] = h[s] /\ \A d \in Deps[s] : f[d] = g[d]
  /\ \A f, c, s : FingerprintOf(f, c, s) # None
<1>1. \A a, c, s : Fingerprint(a, c, s) = FingerprintOf(a.fp, c, s)
  BY DEF Fingerprint, FingerprintOf
<1>2. ASSUME NEW f, NEW c, NEW g, NEW h, NEW s,
             FingerprintOf(f, c, s) = FingerprintOf(g, h, s)
      PROVE  c[s] = h[s] /\ \A d \in Deps[s] : f[d] = g[d]
  <2>. DEFINE x == [d \in Deps[s] |-> f[d]]
              y == [d \in Deps[s] |-> g[d]]
  <2>1. c[s] = h[s] /\ x = y
    BY <1>2 DEF FingerprintOf
  <2>2. \A d \in Deps[s] : x[d] = f[d] /\ y[d] = g[d]
    OBVIOUS
  <2>. HIDE DEF x, y
  <2>. QED
    BY <2>1, <2>2
<1>3. ASSUME NEW f, NEW c, NEW g, NEW h, NEW s,
             c[s] = h[s], \A d \in Deps[s] : f[d] = g[d]
      PROVE  FingerprintOf(f, c, s) = FingerprintOf(g, h, s)
  <2>1. [d \in Deps[s] |-> f[d]] = [d \in Deps[s] |-> g[d]]
    BY <1>3
  <2>. QED
    BY <1>3, <2>1 DEF FingerprintOf
<1>4. \A f, c, s : FingerprintOf(f, c, s) # None
  BY DEF FingerprintOf, None
<1>. QED
  BY <1>1, <1>2, <1>3, <1>4

LEMMA LeqFacts ==
  ASSUME NEW U \in SUBSET Steps
  PROVE  /\ \A c \in Configs : Leq(U, c, c)
         /\ \A c, d, h \in Configs : Leq(U, c, d) /\ Leq(U, d, h) => Leq(U, c, h)
<1>1. \A c \in Configs : Leq(U, c, c)
  BY DEF Leq, Configs
<1>2. ASSUME NEW c \in Configs, NEW d \in Configs, NEW h \in Configs,
             Leq(U, c, d), Leq(U, d, h), NEW s \in U
      PROVE  c[s] <= h[s]
  <2>1. c[s] \in Nat /\ d[s] \in Nat /\ h[s] \in Nat
    BY DEF Configs
  <2>2. c[s] <= d[s] /\ d[s] <= h[s]
    BY <1>2 DEF Leq
  <2>. QED
    BY <2>1, <2>2
<1>. QED
  BY <1>1, <1>2 DEF Leq

\* The steady steps: with all they depend on, and ever fewer.
LEMMA SteadyClosed ==
  ASSUME TypeOK
  PROVE  UpstreamClosed(Steady)
<1>1. ASSUME NEW d \in Steady, NEW u \in Deps[d]
      PROVE  u \in Steady
  <2>1. d \in Steps /\ u \in Steps
    BY OrchestratorAssumption DEF Steady, OrchestratorAssumption
  <2>2. ASSUME NEW s \in reverted, u = s \/ u \in Downstream(Deps, s)
        PROVE  FALSE
    <3>1. s \in Steps
      BY DEF TypeOK
    <3>2. d \in Downstream(Deps, s)
      BY <2>1, <2>2, <3>1, DownstreamClosed
    <3>. QED
      BY <3>2 DEF Steady
  <2>. QED
    BY <2>1, <2>2 DEF Steady
<1>. QED
  BY <1>1 DEF UpstreamClosed, Steady

LEMMA LeastElement ==
  ASSUME NEW T \in SUBSET Nat, T # {}
  PROVE  \E x \in T : \A y \in T : x <= y
<1>. DEFINE R == {ss \in Nat \X Nat : ss[1] < ss[2]}
<1>1. IsWellFoundedOn(R, Nat)
  BY NatLessThanWellFounded DEF OpToRel
<1>. HIDE DEF R
<1>2. PICK x \in T : \A y \in T : <<y, x>> \notin R
  BY <1>1, WFMin
<1>3. \A y \in T : ~(y < x)
  BY <1>2 DEF R
<1>. QED
  BY <1>3

\* A checkpoint of a steady step that an earlier and a later configuration give is
\* the one that every configuration in between gives.
LEMMA NoReturn ==
  ASSUME NEW U, UpstreamClosed(U), NEW p \in 1 .. Last, Order[p] \in U,
         NEW c \in Configs, NEW d \in Configs, NEW h \in Configs,
         Leq(U, c, d), Leq(U, d, h), NEW f, NEW g, NEW k,
         Canonical(f, c, p), Canonical(g, d, p), Canonical(k, h, p),
         f[Order[p]] = k[Order[p]]
  PROVE  g[Order[p]] = f[Order[p]]
<1>. DEFINE Bad == {j \in 1 .. p : /\ Order[j] \in U
                               /\ f[Order[j]] = k[Order[j]] /\ g[Order[j]] # f[Order[j]]}
<1>0. p \in Nat /\ p >= 1 /\ p <= Last /\ Last \in Nat
  BY OrderFacts
<1>1. SUFFICES ASSUME Bad # {} PROVE FALSE
  BY <1>0
<1>2. PICK j \in Bad : \A i \in Bad : j <= i
  <2>1. Bad \in SUBSET Nat
    BY <1>0
  <2>. HIDE DEF Bad
  <2>. QED
    BY <1>1, <2>1, LeastElement
<1>3. /\ j \in 1 .. p /\ j \in 1 .. Last /\ Order[j] \in Steps /\ Order[j] \in U
      /\ f[Order[j]] = k[Order[j]] /\ g[Order[j]] # f[Order[j]]
  BY <1>0, OrderFacts
<1>4. /\ f[Order[j]] = FingerprintOf(f, c, Order[j])
      /\ g[Order[j]] = FingerprintOf(g, d, Order[j])
      /\ k[Order[j]] = FingerprintOf(k, h, Order[j])
  BY <1>3 DEF Canonical
<1>5. c[Order[j]] = h[Order[j]] /\ \A u \in Deps[Order[j]] : f[u] = k[u]
  BY <1>3, <1>4, FingerprintFacts
<1>6. c[Order[j]] = d[Order[j]]
  <2>1. c[Order[j]] \in Nat /\ d[Order[j]] \in Nat /\ h[Order[j]] \in Nat
    BY <1>3 DEF Configs
  <2>2. c[Order[j]] <= d[Order[j]] /\ d[Order[j]] <= h[Order[j]]
    BY <1>3 DEF Leq
  <2>. QED
    BY <1>5, <2>1, <2>2
<1>7. ASSUME NEW u \in Deps[Order[j]] PROVE g[u] = f[u]
  <2>1. PICK i \in 1 .. Last : i < j /\ u = Order[i]
    BY <1>3, DependenciesEarlier
  <2>2. i \in 1 .. p /\ ~(j <= i)
    BY <1>0, <1>3, <2>1
  <2>3. Order[i] \in U
    BY <1>3, <2>1 DEF UpstreamClosed
  <2>. QED
    BY <1>2, <1>5, <2>1, <2>2, <2>3
<1>8. g[Order[j]] = f[Order[j]]
  BY <1>4, <1>6, <1>7, FingerprintFacts
<1>. QED
  BY <1>3, <1>8

-----------------------------------------------------------------------------
(* What the steps of a run do to the trace of an artifact.                 *)

LEMMA TracedEmpty ==
  ASSUME NEW U, NEW v
  PROVE  Traced(U, EmptyArtifact, v)
<1>. DEFINE K == [i \in 1 .. Last |-> [s \in Steps |-> 0]]
<1>1. K \in [1 .. Last -> Configs]
  BY DEF Configs
<1>2. \A i \in 1 .. Last : EmptyArtifact.fp[Order[i]] = None
  BY OrderFacts DEF EmptyArtifact
<1>. HIDE DEF K
<1>3. Trace(U, EmptyArtifact, v, K, [i \in 1 .. Last |-> 0])
  BY <1>1, <1>2 DEF Trace
<1>. QED
  BY <1>3 DEF Traced

\* Under a later configuration, and with fewer steady steps.
LEMMA TracedLater ==
  ASSUME NEW U \in SUBSET Steps, NEW V \in SUBSET U, NEW a, NEW v \in Configs, NEW w \in Configs,
         Leq(V, v, w), Traced(U, a, v)
  PROVE  Traced(V, a, w)
<1>1. PICK K, F : Trace(U, a, v, K, F)
  BY DEF Traced
<1>2. \A i \in 1 .. Last : K[i] \in Configs
  BY <1>1 DEF Trace
<1>3. \A c, d : Leq(U, c, d) => Leq(V, c, d)
  BY DEF Leq
<1>4. \A c \in Configs : Leq(U, c, v) => Leq(V, c, w)
  BY <1>3, LeqFacts
<1>5. Trace(V, a, w, K, F)
  BY <1>1, <1>2, <1>3, <1>4 DEF Trace
<1>. QED
  BY <1>5 DEF Traced

LEMMA TracedStored ==
  ASSUME NEW U, NEW a, NEW v, Traced(U, a, v)
  PROVE  Traced(U, Stored(a), v)
<1>1. PICK K, F : Trace(U, a, v, K, F)
  BY DEF Traced
<1>2. Stored(a).fp = a.fp /\ Stored(a).fresh = a.fresh
  BY DEF Stored
<1>3. Trace(U, Stored(a), v, K, F)
  BY <1>1, <1>2 DEF Trace
<1>. QED
  BY <1>3 DEF Traced

\* The steps before position p are up to date.
PassedUpTo(a, c, p) ==
  \A j \in 1 .. Last : j < p => a.fp[Order[j]] = Fingerprint(a, c, Order[j])

\* x is what a becomes when the step at position p is executed.
ExecutedAt(a, c, f, p, x) == \E m : x = Executed(a, c, m, Order[p], f)

\* The checkpoints before position p are those of a, and so is every other one that
\* is still there.
KeepsOthers(a, f, p, x) ==
  /\ \A j \in 1 .. Last : j < p => x.fp[Order[j]] = a.fp[Order[j]]
  /\ \A i \in 1 .. Last : i # p /\ x.fp[Order[i]] # None =>
       /\ x.fp[Order[i]] = a.fp[Order[i]]
       /\ f => Order[i] \notin Downstream(Deps, Order[p])

\* The checkpoints after the step at position p was executed with all before it up
\* to date: those before it are kept, and so is every other that is still there.
LEMMA ExecutedCheckpoints ==
  ASSUME NEW a, NEW c, NEW f \in BOOLEAN, NEW p \in 1 .. Last,
         PassedUpTo(a, c, p),
         NEW x, ExecutedAt(a, c, f, p, x)
  PROVE  Canonical(x.fp, c, p) /\ KeepsOthers(a, f, p, x)
<1>x. PICK m : x = Executed(a, c, m, Order[p], f)
  BY DEF ExecutedAt
<1>0. p \in Nat /\ p >= 1 /\ p <= Last /\ Last \in Nat /\ Order[p] \in Steps
  BY OrderFacts
<1>1. \A i \in 1 .. Last : Order[i] \in Steps /\ (Order[i] = Order[p] => i = p)
  BY OrderFacts, OrchestratorAssumption DEF OrchestratorAssumption, IsTopological, Distinct
<1>2. \A i \in 1 .. Last :
        x.fp[Order[i]] = IF i = p THEN Fingerprint(a, c, Order[p])
                         ELSE IF f /\ Order[i] \in Downstream(Deps, Order[p]) THEN None
                         ELSE a.fp[Order[i]]
  BY <1>x, <1>1 DEF Executed, Dropped
<1>3. ASSUME NEW j \in 1 .. Last, j < p
      PROVE  x.fp[Order[j]] = a.fp[Order[j]]
  <2>1. j # p /\ Order[j] \notin Downstream(Deps, Order[p])
    BY <1>0, <1>3, DownstreamLater
  <2>. QED
    BY <1>2, <2>1
<1>4. ASSUME NEW j \in 1 .. p
      PROVE  x.fp[Order[j]] = FingerprintOf(x.fp, c, Order[j])
  <2>1. j \in 1 .. Last /\ j <= p /\ (j < p \/ j = p)
    BY <1>0
  <2>2. Fingerprint(x, c, Order[j]) = Fingerprint(a, c, Order[j])
    <3>1. SameElsewhere(a, x, Order[p])
      BY <1>x, ExecutedElsewhere
    <3>2. Order[j] \in Steps /\ Order[j] \notin Downstream(Deps, Order[p])
      BY <1>0, <1>1, <2>1, DownstreamLater
    <3>. QED
      BY <1>0, <3>1, <3>2, FingerprintKept
  <2>3. x.fp[Order[j]] = Fingerprint(a, c, Order[j])
    BY <1>2, <1>3, <2>1 DEF PassedUpTo
  <2>. QED
    BY <2>2, <2>3, FingerprintFacts
<1>. QED
  BY <1>2, <1>3, <1>4 DEF Canonical, KeepsOthers

LEMMA TracedExecuted ==
  ASSUME NEW U, UpstreamClosed(U), NEW a, OutputsKept(a), NEW c \in Configs, NEW m,
         NEW f \in BOOLEAN, NEW p \in 1 .. Last, PassedUpTo(a, c, p),
         f \/ ~Cached(a, c, Order[p]), Traced(U, a, c)
  PROVE  Traced(U, Executed(a, c, m, Order[p], f), c)
<1>. DEFINE s == Order[p]
<1>1. PICK x : x = Executed(a, c, m, Order[p], f)
  OBVIOUS
<1>0. U \in SUBSET Steps
  BY DEF UpstreamClosed
<1>2. PICK K, F : Trace(U, a, c, K, F)
  BY DEF Traced
<1>3. PICK L, G : /\ L = [i \in 1 .. Last |-> IF i = p THEN c ELSE K[i]]
                  /\ G = [i \in 1 .. Last |-> IF i = p THEN x.fp ELSE F[i]]
  OBVIOUS
<1>4. /\ Canonical(x.fp, c, p)
      /\ \A j \in 1 .. Last : j < p => x.fp[Order[j]] = a.fp[Order[j]]
      /\ \A i \in 1 .. Last : i # p /\ x.fp[Order[i]] # None =>
           /\ x.fp[Order[i]] = a.fp[Order[i]]
           /\ f => Order[i] \notin Downstream(Deps, Order[p])
  <2>1. ExecutedAt(a, c, f, p, x)
    BY <1>1 DEF ExecutedAt
  <2>2. Canonical(x.fp, c, p) /\ KeepsOthers(a, f, p, x)
    BY <2>1, ExecutedCheckpoints
  <2>. QED
    BY <2>2 DEF KeepsOthers
<1>5. /\ s \in Steps
      /\ \A i \in 1 .. Last : Order[i] \in Steps /\ (Order[i] = s => i = p)
  BY OrderFacts, OrchestratorAssumption DEF OrchestratorAssumption, IsTopological, Distinct
<1>6. p \in Nat /\ p >= 1 /\ p <= Last /\ Last \in Nat /\ p \in 1 .. p
  BY OrderFacts
<1>7. \A i \in 1 .. Last : K[i] \in Configs
  BY <1>2 DEF Trace
<1>8. L \in [1 .. Last -> Configs] /\ G = [i \in 1 .. Last |-> G[i]]
  BY <1>3, <1>7
<1>9. L[p] = c /\ G[p] = x.fp /\ \A i \in 1 .. Last : i # p => L[i] = K[i] /\ G[i] = F[i]
  BY <1>3
<1>10. x.fp[s] = FingerprintOf(x.fp, c, s) /\ x.fp[s] # None
  BY <1>4, <1>6, FingerprintFacts DEF Canonical
<1>11. ASSUME NEW i \in 1 .. Last, x.fp[Order[i]] # None
       PROVE  Leq(U, L[i], c) /\ Canonical(G[i], L[i], i) /\ x.fp[Order[i]] = G[i][Order[i]]
  <2>1. CASE i = p
    BY <1>0, <1>4, <1>9, <2>1, LeqFacts
  <2>2. CASE i # p
    BY <1>2, <1>4, <1>9, <1>11, <2>2 DEF Trace
  <2>. QED
    BY <2>1, <2>2
<1>12. ASSUME NEW d \in Deps[s]
       PROVE  /\ x.fp[d] # None
              /\ d \in Persisted => <<s, d>> \in x.fresh
  <2>1. PICK k \in 1 .. Last : k < p /\ d = Order[k]
    BY DependenciesEarlier
  <2>2. a.fp[d] = Fingerprint(a, c, d) /\ x.fp[d] = a.fp[d]
    BY <1>4, <2>1 DEF PassedUpTo
  <2>3. a.fp[d] # None
    BY <2>2, NoneIsNothing
  <2>4. d \in Persisted => d \in a.have
    BY <2>3 DEF OutputsKept
  <2>5. d \in a.have => <<s, d>> \in x.fresh
    BY <1>1 DEF Executed
  <2>. QED
    BY <2>2, <2>3, <2>4, <2>5
<1>13. ASSUME NEW i \in 1 .. Last, NEW k \in 1 .. Last, i # p,
              x.fp[Order[i]] # None, Order[k] \in Deps[Order[i]]
       PROVE  /\ x.fp[Order[k]] # None
              /\ x.fp[Order[k]] = G[i][Order[k]] \/ Leq(U, L[i], L[k])
              /\ x.fp[Order[k]] = G[i][Order[k]] /\ Order[k] \in Persisted \cap U =>
                   <<Order[i], Order[k]>> \in x.fresh
  <2>1. /\ x.fp[Order[i]] = a.fp[Order[i]]
        /\ f => Order[i] \notin Downstream(Deps, s)
    BY <1>4, <1>13
  <2>2. /\ a.fp[Order[i]] # None
        /\ Leq(U, K[i], c) /\ Canonical(F[i], K[i], i) /\ a.fp[Order[i]] = F[i][Order[i]]
        /\ a.fp[Order[k]] # None
        /\ a.fp[Order[k]] = F[i][Order[k]] \/ Leq(U, K[i], K[k])
        /\ a.fp[Order[k]] = F[i][Order[k]] /\ Order[k] \in Persisted \cap U =>
             <<Order[i], Order[k]>> \in a.fresh
    BY <1>2, <1>13, <2>1 DEF Trace
  <2>3. f => k # p /\ Order[k] \notin Downstream(Deps, s)
    BY <1>5, <1>13, <2>1, DownstreamClosed
  <2>4. L[i] = K[i] /\ G[i] = F[i]
    BY <1>9, <1>13
  <2>5. CASE k # p
    <3>1. x.fp[Order[k]] = a.fp[Order[k]]
      BY <1>1, <1>5, <2>3, <2>5 DEF Executed, Dropped
    <3>2. <<Order[i], Order[k]>> \in a.fresh => <<Order[i], Order[k]>> \in x.fresh
      BY <1>1, <1>5, <1>13, <2>5 DEF Executed
    <3>3. L[k] = K[k]
      BY <1>9, <2>5
    <3>. QED
      BY <2>2, <2>4, <3>1, <3>2, <3>3
  <2>6. CASE k = p
    <3>1. ~Cached(a, c, s) /\ a.fp[s] # None
      BY <2>2, <2>3, <2>6
    <3>2. x.fp[s] = Fingerprint(a, c, s)
      BY <1>1, <1>5 DEF Executed
    <3>3. x.fp[s] # a.fp[s]
      BY <3>1, <3>2 DEF Cached
    <3>4. ASSUME x.fp[s] = F[i][s], s \in U PROVE FALSE
      <4>1. Leq(U, K[i], K[p])
        BY <2>2, <2>6, <3>3, <3>4
      <4>2. /\ Leq(U, K[p], c) /\ Canonical(F[p], K[p], p) /\ a.fp[s] = F[p][s]
        BY <1>2, <3>1 DEF Trace
      <4>3. p < i
        BY <1>13, <2>6, OrderFacts, OrchestratorAssumption
           DEF OrchestratorAssumption, IsTopological
      <4>4. Canonical(F[i], K[i], p)
        <5>1. \A j \in 1 .. p : j \in 1 .. i
          BY <1>6, <4>3
        <5>. QED
          BY <2>2, <5>1 DEF Canonical
      <4>5. F[p][s] = F[i][s]
        BY <1>4, <1>7, <3>4, <4>1, <4>2, <4>4, NoReturn
      <4>. QED
        BY <3>3, <3>4, <4>2, <4>5
    <3>5. Leq(U, L[i], L[k])
      BY <1>9, <2>2, <2>4, <2>6
    <3>. QED
      BY <1>10, <2>4, <2>6, <3>4, <3>5
  <2>. QED
    BY <2>5, <2>6
<1>14. Trace(U, x, c, L, G)
  <2>1. ASSUME NEW i \in 1 .. Last, NEW k \in 1 .. Last,
               x.fp[Order[i]] # None, Order[k] \in Deps[Order[i]]
        PROVE  /\ x.fp[Order[k]] # None
               /\ x.fp[Order[k]] = G[i][Order[k]] \/ Leq(U, L[i], L[k])
               /\ x.fp[Order[k]] = G[i][Order[k]] /\ Order[k] \in Persisted \cap U =>
                    <<Order[i], Order[k]>> \in x.fresh
    <3>1. CASE i = p
      BY <1>9, <1>12, <2>1, <3>1
    <3>2. CASE i # p
      BY <1>13, <2>1, <3>2
    <3>. QED
      BY <3>1, <3>2
  <2>. QED
    BY <1>8, <1>11, <2>1 DEF Trace
<1>. QED
  BY <1>1, <1>14 DEF Traced

-----------------------------------------------------------------------------
(* The invariant of the orchestrator's steps.                              *)

\* The artifact a has a trace, and its configuration is not ahead, in the steps of U.
TraceKept(U, a, c, v) == Traced(U, a, c) /\ Leq(U, c, v)

TracesKept ==
  /\ Traced(Steady, row, version)
  /\ \A e \in Execs : TraceKept(Steady, art[e], config[e], version)

ConsistentInv == CompleteInv /\ TracesKept /\ Consistent

LEMMA ConfigsTyped ==
  ASSUME TypeOK
  PROVE  version \in Configs /\ \A e \in Execs : config[e] \in Configs
BY OrchestratorAssumption DEF TypeOK, Configs, OrchestratorAssumption

\* The artifact of an idle execution.
LEMMA EmptyTraceKept ==
  ASSUME NEW U \in SUBSET Steps, NEW v \in Configs
  PROVE  TraceKept(U, EmptyArtifact, [s \in Steps |-> 0], v)
<1>1. Leq(U, [s \in Steps |-> 0], v)
  BY DEF Leq, Configs
<1>. QED
  BY <1>1, TracedEmpty DEF TraceKept

LEMMA ConsistentInit == Init => TracesKept /\ Consistent
<1>. SUFFICES ASSUME Init PROVE TracesKept /\ Consistent
  OBVIOUS
<1>1. /\ row = EmptyArtifact /\ status # "done" /\ version = [s \in Steps |-> 0]
      /\ \A e \in Execs : art[e] = EmptyArtifact /\ config[e] = [s \in Steps |-> 0]
  BY DEF Init
<1>2. version \in Configs /\ Steady \in SUBSET Steps
  BY <1>1 DEF Configs, Steady
<1>. QED
  BY <1>1, <1>2, TracedEmpty, EmptyTraceKept DEF TracesKept, Consistent

\* A step of one execution leaves the traces of the others.
LEMMA TracesOthers ==
  ASSUME TypeOK, TracesKept, NEW e \in Execs, RunStep(e), UNCHANGED <<version, reverted>>,
         Traced(Steady, row', version), TraceKept(Steady, art'[e], config'[e], version)
  PROVE  TracesKept'
<1>1. Steady' = Steady
  BY DEF Steady
<1>2. ASSUME NEW f \in Execs PROVE TraceKept(Steady, art'[f], config'[f], version)
  <2>1. CASE f = e
    BY <2>1
  <2>2. CASE f # e
    <3>1. art'[f] = art[f] /\ config'[f] = config[f]
      BY <2>2, PassedOthers
    <3>. QED
      BY <3>1 DEF TracesKept
  <2>. QED
    BY <2>1, <2>2
<1>. QED
  BY <1>1, <1>2 DEF TracesKept

\* What a run commits is what it worked on, or the row as it was.
LEMMA CommitTraced ==
  ASSUME CompleteInv, TracesKept, NEW e \in Execs, NEW st, CommitRun(e, st)
  PROVE  /\ Traced(Steady, row', version)
         /\ TraceKept(Steady, art'[e], config'[e], version)
<1>0. Steady \in SUBSET Steps /\ TypeOK
  BY DEF Steady, CompleteInv, PassedInv
<1>1. version \in Configs /\ config[e] \in Configs
  BY <1>0, ConfigsTyped
<1>2. Traced(Steady, art[e], version)
  BY <1>0, <1>1, TracedLater DEF TracesKept, TraceKept
<1>3. row' = row \/ row' = Stored(art[e])
  BY DEF CommitRun, CompleteInv, PassedInv, PassedUpToDate, PassedBy
<1>4. art'[e] = EmptyArtifact /\ config'[e] = [s \in Steps |-> 0]
  BY <1>0 DEF CommitRun, EndRun, TypeOK
<1>. QED
  BY <1>0, <1>1, <1>2, <1>3, <1>4, TracedStored, EmptyTraceKept DEF TracesKept

\* A run that completes has every checkpoint up to date, so every output was
\* computed from the present output of each dependency.
LEMMA CompleteRunConsistent ==
  ASSUME CompleteInv, TracesKept, NEW e \in Execs, CompleteRun(e)
  PROVE  Consistent'
<1>0. Steady' = Steady
  BY DEF CompleteRun, CommitRun, Steady
<1>. SUFFICES ASSUME ~masked', NEW s \in Persisted, NEW d \in Deps[s] \cap Persisted \cap Steady
              PROVE  <<s, d>> \in row'.fresh
  BY <1>0 DEF Consistent
<1>1. PICK K, F : Trace(Steady, art[e], config[e], K, F)
  BY DEF TracesKept, TraceKept, Traced
<1>2. s \in Steps /\ art[e].fp[s] = Fingerprint(art[e], config[e], s)
  BY CompleteRunCommits, OrchestratorAssumption DEF CompleteInv, OrchestratorAssumption
<1>3. <<s, d>> \in art[e].fresh
  <2>1. PICK i \in 1 .. Last : Order[i] = s
    BY <1>2, OrderFacts, OrchestratorAssumption
       DEF OrchestratorAssumption, IsTopological, Distinct
  <2>2. PICK k \in 1 .. Last : Order[k] = d
    BY <2>1, DependenciesEarlier
  <2>3. art[e].fp[s] # None /\ art[e].fp[s] = FingerprintOf(art[e].fp, config[e], s)
    BY <1>2, NoneIsNothing, FingerprintFacts
  <2>4. Canonical(F[i], K[i], i) /\ art[e].fp[s] = F[i][s]
    BY <1>1, <2>1, <2>3 DEF Trace
  <2>5. F[i][s] = FingerprintOf(F[i], K[i], s)
    BY <2>1, <2>4, OrderFacts DEF Canonical
  <2>6. FingerprintOf(art[e].fp, config[e], s) = FingerprintOf(F[i], K[i], s)
    BY <2>3, <2>4, <2>5
  <2>7. art[e].fp[d] = F[i][d]
    BY <2>6, FingerprintFacts
  <2>. QED
    BY <1>1, <2>1, <2>2, <2>3, <2>7 DEF Trace
<1>4. row' = art[e] \/ row' = Stored(art[e])
  BY CompleteRunCommits DEF CompleteInv
<1>. QED
  BY <1>3, <1>4 DEF Stored

LEMMA ConsistentRunStep ==
  ASSUME ConsistentInv, NEW e \in Execs, RunStep(e)
  PROVE  TracesKept' /\ Consistent'
<1>. USE DEF ConsistentInv
<1>t. /\ TypeOK /\ PassedBy(e) /\ Consistent /\ CompleteInv /\ TracesKept
      /\ Steady \in SUBSET Steps
      /\ Traced(Steady, row, version) /\ TraceKept(Steady, art[e], config[e], version)
  BY DEF CompleteInv, PassedInv, PassedUpToDate, TracesKept, Steady
<1>1. CASE LoadArtifact(e)
  <2>1. /\ art'[e] = row /\ config'[e] = version
        /\ UNCHANGED <<row, status, version, reverted, masked>>
    BY <1>t, <1>1 DEF LoadArtifact, TypeOK
  <2>2. Leq(Steady, version, version)
    BY <1>t, ConfigsTyped, LeqFacts
  <2>3. TracesKept'
    BY <1>t, <2>1, <2>2, TracesOthers DEF TraceKept
  <2>. QED
    BY <1>t, <2>1, <2>3 DEF Consistent, Steady
<1>2. CASE BeginRun(e) \/ SkipCached(e)
  BY <1>t, <1>2 DEF BeginRun, SkipCached, TracesKept, Consistent, Steady
<1>3. CASE ExecuteStep(e)
  <2>1. PICK p : p = at[e]
    OBVIOUS
  <2>2. p \in 1 .. Last /\ Current(e) = Order[p]
    BY <1>t, <1>3, <2>1, CurrentIsStep DEF ExecuteStep, NotSkipped, Current
  <2>3. /\ art'[e] = Executed(art[e], config[e], asks[e], Order[p], force[e])
        /\ UNCHANGED <<row, status, version, config, reverted, masked>>
    BY <1>t, <1>3, <2>2 DEF ExecuteStep, TypeOK
  <2>4. PassedUpTo(art[e], config[e], p)
    BY <1>t, <2>1 DEF PassedBy, UpToDateAt, PassedUpTo
  <2>5. force[e] \/ ~Cached(art[e], config[e], Order[p])
    BY <1>3, <2>2 DEF ExecuteStep, NotSkipped
  <2>6. OutputsKept(art[e]) /\ config[e] \in Configs /\ force[e] \in BOOLEAN
    BY <1>t, ConfigsTyped DEF CompleteInv, ArtifactsKept, TypeOK
  <2>7. Traced(Steady, art[e], config[e])
    BY <1>t DEF TraceKept
  <2>8. UpstreamClosed(Steady)
    BY <1>t, SteadyClosed
  <2>9. Traced(Steady, Executed(art[e], config[e], asks[e], Order[p], force[e]), config[e])
    BY <2>2, <2>4, <2>5, <2>6, <2>7, <2>8, TracedExecuted
  <2>10. TraceKept(Steady, art'[e], config'[e], version)
    BY <1>t, <2>3, <2>9 DEF TraceKept
  <2>11. TracesKept'
    BY <1>t, <2>3, <2>10, TracesOthers
  <2>. QED
    BY <1>t, <2>3, <2>11 DEF Consistent, Steady
<1>4. CASE StepFails(e)
  <2>1. CommitRun(e, "failed") /\ status' # "done" /\ UNCHANGED <<version, reverted>>
    BY <1>4 DEF StepFails, CommitRun
  <2>. QED
    BY <1>t, <2>1, CommitTraced, TracesOthers DEF Consistent
<1>5. CASE CompleteRun(e)
  <2>1. CommitRun(e, "done") /\ UNCHANGED <<version, reverted>>
    BY <1>5 DEF CompleteRun, CommitRun
  <2>. QED
    BY <1>t, <1>5, <2>1, CommitTraced, TracesOthers, CompleteRunConsistent
<1>6. CASE LoseRun(e)
  <2>1. UNCHANGED <<row, status, version, reverted, masked>>
    BY <1>6 DEF LoseRun
  <2>2. art'[e] = EmptyArtifact /\ config'[e] = [s \in Steps |-> 0]
    BY <1>t, <1>6 DEF LoseRun, EndRun, TypeOK
  <2>3. TraceKept(Steady, art'[e], config'[e], version)
    BY <1>t, <2>2, ConfigsTyped, EmptyTraceKept
  <2>4. TracesKept'
    BY <1>t, <2>1, <2>3, TracesOthers
  <2>. QED
    BY <1>t, <2>1, <2>4 DEF Consistent, Steady
<1>. QED
  BY <1>1, <1>2, <1>3, <1>4, <1>5, <1>6 DEF RunStep

\* A version that goes up leaves every configuration behind it; the steps that one
\* that goes back concerns are steady no more.
LEMMA ConsistentChange ==
  ASSUME ConsistentInv, NEW s \in Steps, ChangeVersion(s)
  PROVE  TracesKept' /\ Consistent'
<1>1. UNCHANGED <<row, status, art, config, masked>>
  BY DEF ChangeVersion, runVars
<1>2. TypeOK /\ TypeOK'
  BY TypeNext DEF ConsistentInv, CompleteInv, PassedInv, Next
<1>3. /\ version \in Configs /\ version' \in Configs
      /\ \A e \in Execs : config[e] \in Configs
  <2>1. version' \in Configs
    BY <1>2, OrchestratorAssumption DEF TypeOK, Configs, OrchestratorAssumption
  <2>. QED
    BY <1>2, <2>1, ConfigsTyped
<1>4. Steady \in SUBSET Steps /\ Steady' \in SUBSET Steady
  BY DEF Steady, ChangeVersion
<1>5. Leq(Steady', version, version')
  <2>. SUFFICES ASSUME NEW t \in Steady' PROVE version[t] <= version'[t]
    BY DEF Leq
  <2>0. t \in Steps /\ version[t] \in Nat
    BY <1>3, <1>4 DEF Configs
  <2>1. PICK v \in 0 .. MaxVersion :
           /\ v = version[s] + 1 \/ v < version[s]
           /\ version' = [version EXCEPT ![s] = v]
           /\ reverted' = IF v < version[s] THEN reverted \cup {s} ELSE reverted
    BY DEF ChangeVersion
  <2>2. CASE t # s
    BY <1>3, <2>0, <2>1, <2>2 DEF Configs
  <2>3. CASE t = s
    <3>1. ~(v < version[s])
      BY <2>1, <2>3 DEF Steady
    <3>2. version'[s] = version[s] + 1
      BY <1>3, <2>1, <3>1 DEF Configs
    <3>. QED
      BY <2>0, <2>3, <3>2
  <2>. QED
    BY <2>2, <2>3
<1>6. PICK U, V : U = Steady /\ V = Steady'
  OBVIOUS
<1>7. U \in SUBSET Steps /\ V \in SUBSET U /\ V \in SUBSET Steps /\ Leq(V, version, version')
  BY <1>4, <1>5, <1>6
<1>8. Traced(V, row, version')
  BY <1>3, <1>6, <1>7, TracedLater DEF ConsistentInv, TracesKept
<1>9. ASSUME NEW e \in Execs
      PROVE  TraceKept(V, art[e], config[e], version')
  <2>1. Traced(U, art[e], config[e]) /\ Leq(U, config[e], version) /\ config[e] \in Configs
    BY <1>3, <1>6 DEF ConsistentInv, TracesKept, TraceKept
  <2>2. Leq(V, config[e], version)
    BY <1>7, <2>1 DEF Leq
  <2>3. Leq(V, config[e], version') /\ Leq(V, config[e], config[e])
    BY <1>3, <1>7, <2>1, <2>2, LeqFacts
  <2>4. Traced(V, art[e], config[e])
    BY <1>7, <2>1, <2>3, TracedLater
  <2>. QED
    BY <2>3, <2>4 DEF TraceKept
<1>10. TracesKept'
  BY <1>1, <1>6, <1>8, <1>9 DEF TracesKept
<1>11. Consistent'
  BY <1>1, <1>4 DEF ConsistentInv, Consistent
<1>. QED
  BY <1>10, <1>11

LEMMA ConsistentNext == ConsistentInv /\ [Next]_vars => ConsistentInv'
<1>. SUFFICES ASSUME ConsistentInv, [Next]_vars PROVE ConsistentInv'
  OBVIOUS
<1>1. TracesKept' /\ Consistent'
  <2>1. CASE UNCHANGED vars
    BY <2>1 DEF vars, runVars, ConsistentInv, TracesKept, Consistent, Steady
  <2>. QED
    BY <2>1, ConsistentRunStep, ConsistentChange DEF Next
<1>. QED
  BY <1>1, CompleteNext DEF ConsistentInv

(* A document marked done is consistent: every output the row keeps was    *)
(* computed from the very outputs of its dependencies that the row keeps,  *)
(* for any DAG, any number of overlapping executions and any history of    *)
(* skipped, failed, forced and lost runs.  Excused are the dependencies    *)
(* whose configuration, or that of a step upstream of them, ever went back *)
(* to an earlier one, and a document marked done by a run that flushed     *)
(* nothing over a row other than the one it had loaded.                    *)
THEOREM OrchestratorConsistent == Spec => []Consistent
<1>1. Init => ConsistentInv
  BY TypeInit, PassedInit, CompleteInit, ConsistentInit
     DEF ConsistentInv, CompleteInv, PassedInv
<1>2. ConsistentInv => Consistent
  BY DEF ConsistentInv
<1>. QED
  BY <1>1, <1>2, ConsistentNext, PTL DEF Spec

=============================================================================
