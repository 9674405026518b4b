------------------------- MODULE MCGraphProjection -------------------------
EXTENDS GraphProjection, TLC

CONSTANTS d1, d2, d3, l1, l2, k1, k2, t1, t2

\* d3 is a later revision of the lesson of d1.
MCLessonOf == [d \in Documents |-> IF d = d2 THEN l2 ELSE l1]

MCOneSummary == {[kind |-> "json", text |-> t1, points |-> {t1}]}

MCMapAnswers ==
  {[kind |-> "error"], [kind |-> "json", keys |-> {k1}, edges |-> {}],
   [kind |-> "json", keys |-> {k1, k2}, edges |-> {<<k1, k2>>}]}

\* Bound: a second fault, with which an event is given up, comes while one process at
\* most polls and nothing was rewritten by two.
Focus == faults > 1 => Cardinality(Polling) <= 1 /\ mixed = {}

IndexersAlike == Permutations(Indexers)

=============================================================================
