------------------------ MODULE MCOrchestrationGraph -------------------------
(* OrchestrationGraph for TLC: every graph over four steps, and every graph     *)
(* over two of them in which the first also names an unknown step.              *)
EXTENDS OrchestrationGraph, TLC

CONSTANTS n1, n2, n3, n4, stranger

FourSteps == {n1, n2, n3, n4}

WithStranger ==
  {(n1 :> d \cup {stranger}) @@ (n2 :> e) @@ [s \in FourSteps |-> {}] :
     d, e \in SUBSET {n1, n2}}

AllGraphs == [FourSteps -> SUBSET FourSteps] \cup WithStranger

=============================================================================
