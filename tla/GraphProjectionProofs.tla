------------------------ MODULE GraphProjectionProofs ------------------------
(***************************************************************************)
(* Proofs about the concept graph, for any documents, lessons, answers of  *)
(* the models, processes that index, batches, runs and faults.             *)
(*                                                                         *)
(* A lesson last rewritten with no other process writing is as far as the  *)
(* statements of the process that rewrites it have come, or was cut, or is *)
(* exactly its artifact's (LessonInv); the orphans and the edges of the    *)
(* whole graph follow the same course (WholeInv).  A process writes in a   *)
(* poll that has met no other's or its lesson is astray (WriterInv), so    *)
(* that of a lesson cut and not astray an event is due: behind the cursor, *)
(* in every batch fetched and begun in none (CutInv).  And an event        *)
(* passed, if it is the last of its lesson, shows its document's artifact  *)
(* (FreshInv).                                                             *)
(***************************************************************************)
EXTENDS GraphProjection, TLAPS

-----------------------------------------------------------------------------
(* What a pipeline run leaves.                                              *)

IsContext(x) ==
  /\ x = [cleaned |-> x.cleaned, validation |-> x.validation, images |-> x.images,
          articles |-> x.articles, summary |-> x.summary, map |-> x.map]
  /\ x.summary \in Summaries \cup {None} /\ x.map \in Maps \cup {None}

IsOutcome(o) == o.ok \in BOOLEAN /\ IsContext(o.context)

LEMMA SummarizeType ==
  ASSUME NEW x, IsContext(x), NEW a \in SummaryAnswers
  PROVE  IsOutcome(Summarize(x, a))
<1>1. a \in [kind : {"error", "misshapen"}] \cup [kind : {"text"}, text : Texts]
            \cup [kind : {"json"}, text : Texts, points : SUBSET Texts]
  BY ProjectionAssumption DEF ProjectionAssumption
<1>2. CASE a.kind \in {"error", "misshapen"}
  BY <1>2 DEF Summarize, Failed, IsOutcome
<1>3. ASSUME NEW s \in Summaries, Summarize(x, a) = Done([x EXCEPT !.summary = s])
      PROVE  IsOutcome(Summarize(x, a))
  BY <1>3 DEF Done, IsOutcome, IsContext
<1>4. CASE a.kind = "text"
  <2>1. [text |-> a.text, points |-> {}] \in Summaries
    BY <1>1, <1>4 DEF Summaries
  <2>. QED
    BY <1>3, <1>4, <2>1 DEF Summarize
<1>5. CASE a.kind = "json"
  <2>1. [text |-> a.text, points |-> a.points] \in Summaries
    BY <1>1, <1>5 DEF Summaries
  <2>. QED
    BY <1>3, <1>5, <2>1 DEF Summarize
<1>. QED
  BY <1>1, <1>2, <1>4, <1>5

LEMMA MapConceptsType ==
  ASSUME NEW x, IsContext(x), NEW a \in MapAnswers
  PROVE  /\ IsOutcome(MapConcepts(x, a))
         /\ MapConcepts(x, a).ok => MapConcepts(x, a).context.summary # None
<1>1. a \in [kind : NoContent] \cup [kind : {"json"}, keys : SUBSET Keys, edges : SUBSET (Keys \X Keys)]
  BY ProjectionAssumption DEF ProjectionAssumption
<1>2. CASE x.summary = None \/ a.kind = "error"
  BY <1>2 DEF MapConcepts, Failed, IsOutcome
<1>3. ASSUME NEW m \in Maps, x.summary # None, MapConcepts(x, a) = Done([x EXCEPT !.map = m])
      PROVE  /\ IsOutcome(MapConcepts(x, a))
             /\ MapConcepts(x, a).ok => MapConcepts(x, a).context.summary # None
  BY <1>3 DEF Done, IsOutcome, IsContext
<1>4. CASE x.summary # None /\ a.kind \in {"text", "misshapen"}
  <2>1. [keys |-> {}, edges |-> {}] \in Maps
    BY DEF Maps
  <2>. QED
    BY <1>3, <1>4, <2>1 DEF MapConcepts
<1>5. CASE x.summary # None /\ a.kind = "json"
  <2>. DEFINE valid == a.keys \ {Unknown}
  <2>1. valid \in SUBSET Keys /\ a.edges \cap (valid \X valid) \in SUBSET (Keys \X Keys)
    <3>1. a \in [kind : {"json"}, keys : SUBSET Keys, edges : SUBSET (Keys \X Keys)]
      BY <1>1, <1>5 DEF NoContent
    <3>2. a.keys \in SUBSET Keys /\ a.edges \in SUBSET (Keys \X Keys)
      BY <3>1
    <3>. QED
      BY <3>2
  <2>2. MapConcepts(x, a) = Done([x EXCEPT !.map = [keys |-> valid, edges |-> a.edges \cap (valid \X valid)]])
    BY <1>5 DEF MapConcepts
  <2>. HIDE DEF valid
  <2>3. [keys |-> valid, edges |-> a.edges \cap (valid \X valid)] \in Maps
    BY <2>1 DEF Maps
  <2>. QED
    BY <1>3, <1>5, <2>2, <2>3
<1>. QED
  BY <1>1, <1>2, <1>4, <1>5 DEF NoContent

LEMMA GuardRelevanceType ==
  ASSUME NEW x, IsContext(x), NEW concepts, NEW a
  PROVE  IsOutcome(GuardRelevance(x, concepts, a))
<1>1. \A v : IsContext([x EXCEPT !.validation = v])
  BY DEF IsContext
<1>. QED
  BY <1>1 DEF GuardRelevance, Done, Failed, IsOutcome

LEMMA PreparationTypes ==
  ASSUME NEW x, IsContext(x)
  PROVE  /\ IsOutcome(Preprocess(x, "text"))
         /\ IsOutcome(FetchArticles(AnalyzeImages(x, TRUE, {}, {}).context, TRUE, {}, "text", {}))
<1>1. \A v : IsContext([x EXCEPT !.cleaned = v])
  BY DEF IsContext
<1>2. \A s : IsContext([x EXCEPT !.images = s])
  BY DEF IsContext
<1>. DEFINE y == AnalyzeImages(x, TRUE, {}, {}).context
<1>3. IsContext(y)
  <2>1. y = [x EXCEPT !.images = {<<i, IF i \in {} THEN None ELSE i>> : i \in {}}]
    BY DEF AnalyzeImages, Done
  <2>. QED
    BY <1>2, <2>1
<1>. HIDE DEF y
<1>4. \A s : IsContext([y EXCEPT !.articles = s])
  BY <1>3 DEF IsContext
<1>5. IsOutcome(Preprocess(x, "text"))
  BY <1>1 DEF Preprocess, Done, IsOutcome
<1>6. IsOutcome(FetchArticles(y, TRUE, {}, "text", {}))
  BY <1>4 DEF FetchArticles, Done, IsOutcome
<1>. QED
  BY <1>5, <1>6 DEF y

LEMMA OutcomeType ==
  ASSUME TypeOK, NEW d \in Documents, NEW from \in {"guard", "summarizer", "mapper", "nothing"},
         NEW guard \in GuardAnswers, NEW summary \in SummaryAnswers, NEW map \in MapAnswers,
         row[d] = None => from = "guard"
  PROVE  LET out == Outcome(d, from, guard, summary, map)
         IN IsOutcome(out) /\ (out.ok /\ row[d] = None => out.context.summary # None)
<1>. DEFINE x == IF row[d] = None THEN EmptyContext
                 ELSE [EmptyContext EXCEPT !.summary = row[d].summary, !.map = row[d].map]
            Mapped(y) == MapConcepts(y, map)
            Summarized(y) == Then(Summarize(y, summary), Mapped)
            Prepared(y) == Then(FetchArticles(AnalyzeImages(y, TRUE, {}, {}).context, TRUE, {}, "text", {}),
                                Summarized)
            Cleaned(y) == Then(Preprocess(y, "text"), Prepared)
            Guarded(y) == Then(GuardRelevance(y, Concepts, guard), Cleaned)
            Good(o) == IsOutcome(o) /\ (o.ok => o.context.summary # None)
<1>1. IsContext(x)
  <2>1. CASE row[d] = None
    BY <2>1 DEF EmptyContext, IsContext
  <2>2. CASE row[d] # None
    <3>1. row[d].summary \in Summaries \cup {None} /\ row[d].map \in Maps \cup {None}
      BY <2>2 DEF TypeOK, Artifacts
    <3>. QED
      BY <2>2, <3>1 DEF EmptyContext, IsContext
  <2>. QED
    BY <2>1, <2>2
<1>. HIDE DEF x
<1>2. ASSUME NEW y, IsContext(y)
      PROVE  Good(Mapped(y))
  BY <1>2, MapConceptsType
<1>3. ASSUME NEW y, IsContext(y)
      PROVE  Good(Summarized(y))
  <2>1. IsOutcome(Summarize(y, summary))
    BY <1>3, SummarizeType
  <2>. HIDE DEF Mapped
  <2>. QED
    BY <1>2, <2>1 DEF Then, IsOutcome
<1>4. ASSUME NEW y, IsContext(y)
      PROVE  Good(Prepared(y))
  <2>1. IsOutcome(FetchArticles(AnalyzeImages(y, TRUE, {}, {}).context, TRUE, {}, "text", {}))
    BY <1>4, PreparationTypes
  <2>. HIDE DEF Summarized
  <2>. QED
    BY <1>3, <2>1 DEF Then, IsOutcome
<1>5. ASSUME NEW y, IsContext(y)
      PROVE  Good(Cleaned(y))
  <2>1. IsOutcome(Preprocess(y, "text"))
    BY <1>5, PreparationTypes
  <2>. HIDE DEF Prepared
  <2>. QED
    BY <1>4, <2>1 DEF Then, IsOutcome
<1>6. Good(Guarded(x))
  <2>1. IsOutcome(GuardRelevance(x, Concepts, guard))
    BY <1>1, GuardRelevanceType
  <2>. HIDE DEF Cleaned
  <2>. QED
    BY <1>5, <2>1 DEF Then, IsOutcome
<1>7. IsOutcome(Done(x))
  BY <1>1 DEF Done, IsOutcome
<1>8. Outcome(d, from, guard, summary, map)
        = CASE from = "guard" -> Guarded(x)
            [] from = "summarizer" -> Summarized(x)
            [] from = "mapper" -> Mapped(x)
            [] from = "nothing" -> Done(x)
  BY DEF Outcome, x
<1>. HIDE DEF Guarded, Summarized, Mapped
<1>. QED
  BY <1>1, <1>2, <1>3, <1>6, <1>7, <1>8

-----------------------------------------------------------------------------
(* What each statement of index_artifact leaves of the graph.               *)

LEMMA ArtifactParts ==
  ASSUME NEW l \in Lessons, NEW a \in Artifacts
  PROVE  /\ ConceptKeys(a) \subseteq Keys
         /\ Facts(l, a) \subseteq Nodes /\ Chunks(l, a) \subseteq Nodes /\ Relations(l, a) \subseteq Nodes
         /\ \A n \in Facts(l, a) : n[1] = "Fact" /\ n[2] = l
         /\ \A n \in Chunks(l, a) : n[1] = "Chunk" /\ n[2] = l
         /\ \A n \in Relations(l, a) :
              n[1] = "Relation" /\ n[2] = l /\ n[3] \in ConceptKeys(a) \X ConceptKeys(a)
<1>1. a.map = None \/ (a.map # None /\ a.map.keys \subseteq Keys /\ a.map.edges \subseteq Keys \X Keys)
  BY DEF Artifacts, Maps
<1>2. a.summary = None
      \/ (a.summary # None /\ a.summary.text \in Texts /\ a.summary.points \subseteq Texts)
  BY DEF Artifacts, Summaries
<1>3. ConceptKeys(a) \subseteq Keys
  BY <1>1 DEF ConceptKeys
<1>4. Facts(l, a) \subseteq Nodes /\ \A n \in Facts(l, a) : n[1] = "Fact" /\ n[2] = l
  BY <1>2 DEF Facts, Nodes
<1>5. Chunks(l, a) \subseteq Nodes /\ \A n \in Chunks(l, a) : n[1] = "Chunk" /\ n[2] = l
  BY <1>2 DEF Chunks, Nodes
<1>6. ASSUME NEW n \in Relations(l, a)
      PROVE  n \in Nodes /\ n[1] = "Relation" /\ n[2] = l /\ n[3] \in ConceptKeys(a) \X ConceptKeys(a)
  <2>1. PICK e \in a.map.edges :
          a.map # None /\ e[1] \in a.map.keys /\ e[2] \in a.map.keys /\ n = <<"Relation", l, e>>
    BY <1>6 DEF Relations
  <2>2. e \in Keys \X Keys
    BY <1>1, <2>1
  <2>3. e = <<e[1], e[2]>>
    BY <2>2
  <2>. QED
    BY <2>1, <2>2, <2>3 DEF Nodes, ConceptKeys
<1>. QED
  BY <1>3, <1>4, <1>5, <1>6

LEMMA DeleteEffect ==
  ASSUME NEW g \in Graphs, NEW l \in Lessons, NEW h, h = DeleteLessonEntities(g, l)
  PROVE  /\ h \in Graphs
         /\ h.lessons = g.lessons \ {l} /\ h.concepts = g.concepts
         /\ h.asserts = {x \in g.asserts : x[1] # l} /\ h.relates = g.relates
         /\ h.nodes = g.nodes \ {n \in g.linked : n[2] = l}
         /\ h.linked = {n \in g.linked : n[2] # l}
  BY DEF DeleteLessonEntities, OfLesson, Graphs

LEMMA OrphansEffect ==
  ASSUME NEW g \in Graphs, NEW h, h = DeleteOrphanedConcepts(g)
  PROVE  /\ h \in Graphs
         /\ h.lessons = g.lessons /\ h.concepts = g.concepts \cap {x[2] : x \in g.asserts}
         /\ h.asserts = g.asserts /\ h.nodes = g.nodes /\ h.linked = g.linked
<1>. DEFINE kept == {x[2] : x \in g.asserts}
            rest == g.relates \cap (kept \X kept)
<1>1. h = [g EXCEPT !.concepts = g.concepts \cap kept, !.relates = rest]
  BY DEF DeleteOrphanedConcepts, Graphs
<1>2. g.concepts \cap kept \subseteq Keys /\ rest \subseteq Keys \X Keys
  BY DEF Graphs
<1>. HIDE DEF rest, kept
<1>3. /\ h \in Graphs /\ h.lessons = g.lessons /\ h.concepts = g.concepts \cap kept
      /\ h.asserts = g.asserts /\ h.nodes = g.nodes /\ h.linked = g.linked
  BY <1>1, <1>2 DEF Graphs
<1>. QED
  BY <1>3 DEF kept

LEMMA LessonEffect ==
  ASSUME NEW g \in Graphs, NEW l \in Lessons, NEW h, h = MergeLesson(g, l)
  PROVE  /\ h \in Graphs
         /\ h.lessons = g.lessons \cup {l} /\ h.concepts = g.concepts /\ h.asserts = g.asserts
         /\ h.nodes = g.nodes /\ h.linked = g.linked
  BY DEF MergeLesson, Graphs

LEMMA ConceptsEffect ==
  ASSUME NEW g \in Graphs, NEW a \in Artifacts, NEW h, h = MergeConcepts(g, a)
  PROVE  /\ h \in Graphs
         /\ h.lessons = g.lessons /\ h.concepts = g.concepts \cup ConceptKeys(a)
         /\ h.asserts = g.asserts /\ h.nodes = g.nodes /\ h.linked = g.linked
<1>1. ConceptKeys(a) \subseteq Keys
  BY DEF ConceptKeys, Artifacts, Maps
<1>. QED
  BY <1>1 DEF MergeConcepts, Graphs

LEMMA AssertsEffect ==
  ASSUME NEW g \in Graphs, NEW l \in Lessons, NEW a \in Artifacts, NEW h, h = AssertConcepts(g, l, a)
  PROVE  /\ h \in Graphs
         /\ h.lessons = g.lessons /\ h.concepts = g.concepts
         /\ h.asserts = g.asserts \cup ({l} \cap g.lessons) \X (ConceptKeys(a) \cap g.concepts)
         /\ h.nodes = g.nodes /\ h.linked = g.linked
<1>. DEFINE new == ({l} \cap g.lessons) \X (ConceptKeys(a) \cap g.concepts)
<1>1. new \subseteq Lessons \X Keys
  BY DEF Graphs
<1>2. h = [g EXCEPT !.asserts = @ \cup new]
  BY DEF AssertConcepts
<1>. HIDE DEF new
<1>3. /\ h \in Graphs /\ h.lessons = g.lessons /\ h.concepts = g.concepts
      /\ h.asserts = g.asserts \cup new /\ h.nodes = g.nodes /\ h.linked = g.linked
  BY <1>1, <1>2 DEF Graphs
<1>. QED
  BY <1>3 DEF new

LEMMA NodesEffect ==
  ASSUME NEW g \in Graphs, NEW l \in Lessons, NEW nodes \in SUBSET Nodes, NEW h, h = MergeNodes(g, l, nodes)
  PROVE  /\ h \in Graphs
         /\ h.lessons = g.lessons /\ h.concepts = g.concepts /\ h.asserts = g.asserts
         /\ h.nodes = g.nodes \cup nodes
         /\ l \in g.lessons => h.linked = g.linked \cup nodes
         /\ l \notin g.lessons => h.linked = g.linked
  BY DEF MergeNodes, Graphs

LEMMA RebuildEffect ==
  ASSUME NEW g \in Graphs, NEW h, h = RebuildRelatesTo(g)
  PROVE  /\ h \in Graphs
         /\ h.lessons = g.lessons /\ h.concepts = g.concepts /\ h.asserts = g.asserts
         /\ h.nodes = g.nodes /\ h.linked = g.linked
         /\ h.relates = RebuildRelatesTo(h).relates
<1>. DEFINE edges == {n[3] : n \in {n \in g.nodes : n[1] = "Relation"}} \cap (g.concepts \X g.concepts)
<1>1. h = [g EXCEPT !.relates = edges]
  BY DEF RebuildRelatesTo
<1>2. edges \subseteq Keys \X Keys
  BY DEF Graphs
<1>3. h.nodes = g.nodes /\ h.concepts = g.concepts
  BY <1>1 DEF Graphs
<1>4. RebuildRelatesTo(h) = [h EXCEPT !.relates = edges]
  BY <1>3 DEF RebuildRelatesTo
<1>. HIDE DEF edges
<1>5. /\ h \in Graphs /\ h.lessons = g.lessons /\ h.asserts = g.asserts /\ h.linked = g.linked
      /\ h.relates = edges
  BY <1>1, <1>2 DEF Graphs
<1>6. RebuildRelatesTo(h).relates = edges
  BY <1>4, <1>5 DEF Graphs
<1>. QED
  BY <1>3, <1>5, <1>6

\* Which of them the n-th statement is.
LEMMA Statements ==
  ASSUME NEW g, NEW l, NEW a
  PROVE  /\ Execute(g, Steps[1], l, a) = DeleteLessonEntities(g, l)
         /\ Execute(g, Steps[2], l, a) = DeleteOrphanedConcepts(g)
         /\ Execute(g, Steps[3], l, a) = MergeLesson(g, l)
         /\ Execute(g, Steps[4], l, a) = MergeConcepts(g, a)
         /\ Execute(g, Steps[5], l, a) = AssertConcepts(g, l, a)
         /\ Execute(g, Steps[6], l, a) = MergeNodes(g, l, Relations(l, a))
         /\ Execute(g, Steps[7], l, a) = MergeNodes(g, l, Facts(l, a))
         /\ Execute(g, Steps[8], l, a) = MergeNodes(g, l, Chunks(l, a))
         /\ Execute(g, Steps[9], l, a) = RebuildRelatesTo(g)
<1>1. /\ Steps[1] = "delete" /\ Steps[2] = "orphans" /\ Steps[3] = "lesson" /\ Steps[4] = "concepts"
      /\ Steps[5] = "asserts" /\ Steps[6] = "relations" /\ Steps[7] = "facts" /\ Steps[8] = "chunks"
      /\ Steps[9] = "rebuild" /\ Len(Steps) = 9
  BY DEF Steps
<1>. QED
  BY <1>1 DEF Execute

-----------------------------------------------------------------------------
(* How far the rewriting of a lesson, or of the whole graph, has come before *)
(* statement n.                                                              *)

AssertsOf(g, l) == {x[2] : x \in {x \in g.asserts : x[1] = l}}

Stage(g, l, a, n) ==
  n >= 2 => /\ l \in g.lessons <=> n >= 4
            /\ AssertsOf(g, l) = IF n >= 6 THEN ConceptKeys(a) ELSE {}
            /\ OfLesson(g, l) = (IF n >= 7 THEN Relations(l, a) ELSE {})
                                \cup (IF n >= 8 THEN Facts(l, a) ELSE {})
                                \cup (IF n >= 9 THEN Chunks(l, a) ELSE {})
            /\ n >= 5 => ConceptKeys(a) \subseteq g.concepts

\* Edges lead to what is there, and what hangs on a lesson is a node.
Attached(g) ==
  /\ \A x \in g.asserts : x[1] \in g.lessons /\ x[2] \in g.concepts
  /\ g.linked \subseteq g.nodes /\ \A n \in g.linked : n[2] \in g.lessons

Kept(g) == {x[2] : x \in g.asserts}

GraphStage(g, a, n) ==
  /\ n >= 3 => g.concepts \subseteq Kept(g) \cup (IF n = 5 THEN ConceptKeys(a) ELSE {})
  /\ n = 10 => g.relates = RebuildRelatesTo(g).relates

LEMMA StatementCases ==
  ASSUME NEW n \in 1 .. Len(Steps)
  PROVE  n = 1 \/ n = 2 \/ n = 3 \/ n = 4 \/ n = 5 \/ n = 6 \/ n = 7 \/ n = 8 \/ n = 9
BY DEF Steps

LEMMA StatementType ==
  ASSUME NEW g \in Graphs, NEW l \in Lessons, NEW a \in Artifacts, NEW n \in 1 .. Len(Steps)
  PROVE  /\ Execute(g, Steps[n], l, a) \in Graphs
         /\ Execute(g, Steps[n], l, a).lessons \subseteq g.lessons \cup {l}
<1>1. /\ Relations(l, a) \in SUBSET Nodes /\ Facts(l, a) \in SUBSET Nodes /\ Chunks(l, a) \in SUBSET Nodes
  BY ArtifactParts
<1>2. CASE n = 1
  BY <1>2, Statements, DeleteEffect
<1>3. CASE n = 2
  BY <1>3, Statements, OrphansEffect
<1>4. CASE n = 3
  BY <1>4, Statements, LessonEffect
<1>5. CASE n = 4
  BY <1>5, Statements, ConceptsEffect
<1>6. CASE n = 5
  BY <1>6, Statements, AssertsEffect
<1>7. CASE n = 6
  BY <1>1, <1>7, Statements, NodesEffect
<1>8. CASE n = 7
  BY <1>1, <1>8, Statements, NodesEffect
<1>9. CASE n = 8
  BY <1>1, <1>9, Statements, NodesEffect
<1>10. CASE n = 9
  BY <1>10, Statements, RebuildEffect
<1>. QED
  BY <1>2, <1>3, <1>4, <1>5, <1>6, <1>7, <1>8, <1>9, <1>10, StatementCases

LEMMA StatementAttached ==
  ASSUME NEW g \in Graphs, Attached(g), NEW l \in Lessons, NEW a \in Artifacts, NEW n \in 1 .. Len(Steps),
         NEW h, h = Execute(g, Steps[n], l, a)
  PROVE  Attached(h)
<1>1. ASSUME NEW new \in SUBSET Nodes, \A x \in new : x[2] = l, h = MergeNodes(g, l, new)
      PROVE  Attached(h)
  <2>1. /\ h.lessons = g.lessons /\ h.concepts = g.concepts /\ h.asserts = g.asserts
        /\ h.nodes = g.nodes \cup new
        /\ l \in g.lessons => h.linked = g.linked \cup new
        /\ l \notin g.lessons => h.linked = g.linked
    BY <1>1, NodesEffect
  <2>. QED
    BY <1>1, <2>1 DEF Attached
<1>2. /\ Relations(l, a) \in SUBSET Nodes /\ Facts(l, a) \in SUBSET Nodes /\ Chunks(l, a) \in SUBSET Nodes
      /\ \A x \in Relations(l, a) : x[2] = l
      /\ \A x \in Facts(l, a) : x[2] = l
      /\ \A x \in Chunks(l, a) : x[2] = l
  BY ArtifactParts
<1>3. CASE n = 1
  <2>1. /\ h.lessons = g.lessons \ {l} /\ h.concepts = g.concepts
        /\ h.asserts = {x \in g.asserts : x[1] # l}
        /\ h.nodes = g.nodes \ {x \in g.linked : x[2] = l}
        /\ h.linked = {x \in g.linked : x[2] # l}
    BY <1>3, Statements, DeleteEffect
  <2>. QED
    BY <2>1 DEF Attached
<1>4. CASE n = 2
  <2>1. /\ h.lessons = g.lessons /\ h.concepts = g.concepts \cap {x[2] : x \in g.asserts}
        /\ h.asserts = g.asserts /\ h.nodes = g.nodes /\ h.linked = g.linked
    BY <1>4, Statements, OrphansEffect
  <2>. QED
    BY <2>1 DEF Attached
<1>5. CASE n = 3
  <2>1. /\ h.lessons = g.lessons \cup {l} /\ h.concepts = g.concepts
        /\ h.asserts = g.asserts /\ h.nodes = g.nodes /\ h.linked = g.linked
    BY <1>5, Statements, LessonEffect
  <2>. QED
    BY <2>1 DEF Attached
<1>6. CASE n = 4
  <2>1. /\ h.lessons = g.lessons /\ h.concepts = g.concepts \cup ConceptKeys(a)
        /\ h.asserts = g.asserts /\ h.nodes = g.nodes /\ h.linked = g.linked
    BY <1>6, Statements, ConceptsEffect
  <2>. QED
    BY <2>1 DEF Attached
<1>7. CASE n = 5
  <2>1. /\ h.lessons = g.lessons /\ h.concepts = g.concepts
        /\ h.asserts = g.asserts \cup ({l} \cap g.lessons) \X (ConceptKeys(a) \cap g.concepts)
        /\ h.nodes = g.nodes /\ h.linked = g.linked
    BY <1>7, Statements, AssertsEffect
  <2>. QED
    BY <2>1 DEF Attached
<1>8. CASE n = 6
  BY <1>1, <1>2, <1>8, Statements
<1>9. CASE n = 7
  BY <1>1, <1>2, <1>9, Statements
<1>10. CASE n = 8
  BY <1>1, <1>2, <1>10, Statements
<1>11. CASE n = 9
  <2>1. /\ h.lessons = g.lessons /\ h.concepts = g.concepts /\ h.asserts = g.asserts
        /\ h.nodes = g.nodes /\ h.linked = g.linked
    BY <1>11, Statements, RebuildEffect
  <2>. QED
    BY <2>1 DEF Attached
<1>. QED
  BY <1>3, <1>4, <1>5, <1>6, <1>7, <1>8, <1>9, <1>10, <1>11, StatementCases

\* The other lessons, once rewritten, stay as they are.
LEMMA StatementElsewhere ==
  ASSUME NEW g \in Graphs, NEW l \in Lessons, NEW a \in Artifacts, NEW n \in 1 .. Len(Steps),
         NEW m \in Lessons, m # l, NEW b \in Artifacts, Stage(g, m, b, 10),
         NEW h, h = Execute(g, Steps[n], l, a)
  PROVE  Stage(h, m, b, 10)
<1>1. /\ m \in g.lessons /\ AssertsOf(g, m) = ConceptKeys(b)
      /\ OfLesson(g, m) = Relations(m, b) \cup Facts(m, b) \cup Chunks(m, b)
      /\ ConceptKeys(b) \subseteq g.concepts
  BY DEF Stage
<1>2. ASSUME /\ m \in h.lessons /\ AssertsOf(h, m) = AssertsOf(g, m)
             /\ OfLesson(h, m) = OfLesson(g, m) /\ AssertsOf(g, m) \subseteq h.concepts
      PROVE  Stage(h, m, b, 10)
  BY <1>1, <1>2 DEF Stage
<1>3. ASSUME NEW new \in SUBSET Nodes, \A x \in new : x[2] = l, h = MergeNodes(g, l, new)
      PROVE  Stage(h, m, b, 10)
  <2>1. /\ h.lessons = g.lessons /\ h.concepts = g.concepts /\ h.asserts = g.asserts
        /\ l \in g.lessons => h.linked = g.linked \cup new
        /\ l \notin g.lessons => h.linked = g.linked
    BY <1>3, NodesEffect
  <2>. QED
    BY <1>1, <1>2, <1>3, <2>1 DEF AssertsOf, OfLesson
<1>4. /\ Relations(l, a) \in SUBSET Nodes /\ Facts(l, a) \in SUBSET Nodes /\ Chunks(l, a) \in SUBSET Nodes
      /\ \A x \in Relations(l, a) : x[2] = l
      /\ \A x \in Facts(l, a) : x[2] = l
      /\ \A x \in Chunks(l, a) : x[2] = l
  BY ArtifactParts
<1>5. CASE n = 1
  <2>1. /\ h.lessons = g.lessons \ {l} /\ h.concepts = g.concepts
        /\ h.asserts = {x \in g.asserts : x[1] # l}
        /\ h.linked = {x \in g.linked : x[2] # l}
    BY <1>5, Statements, DeleteEffect
  <2>2. {x \in h.asserts : x[1] = m} = {x \in g.asserts : x[1] = m}
    BY <2>1
  <2>. QED
    BY <1>1, <1>2, <2>1, <2>2 DEF AssertsOf, OfLesson
<1>6. CASE n = 2
  <2>1. /\ h.lessons = g.lessons /\ h.concepts = g.concepts \cap {x[2] : x \in g.asserts}
        /\ h.asserts = g.asserts /\ h.linked = g.linked
    BY <1>6, Statements, OrphansEffect
  <2>. QED
    BY <1>1, <1>2, <2>1 DEF AssertsOf, OfLesson
<1>7. CASE n = 3
  <2>1. /\ h.lessons = g.lessons \cup {l} /\ h.concepts = g.concepts
        /\ h.asserts = g.asserts /\ h.linked = g.linked
    BY <1>7, Statements, LessonEffect
  <2>. QED
    BY <1>1, <1>2, <2>1 DEF AssertsOf, OfLesson
<1>8. CASE n = 4
  <2>1. /\ h.lessons = g.lessons /\ h.concepts = g.concepts \cup ConceptKeys(a)
        /\ h.asserts = g.asserts /\ h.linked = g.linked
    BY <1>8, Statements, ConceptsEffect
  <2>. QED
    BY <1>1, <1>2, <2>1 DEF AssertsOf, OfLesson
<1>9. CASE n = 5
  <2>1. /\ h.lessons = g.lessons /\ h.concepts = g.concepts
        /\ h.asserts = g.asserts \cup ({l} \cap g.lessons) \X (ConceptKeys(a) \cap g.concepts)
        /\ h.linked = g.linked
    BY <1>9, Statements, AssertsEffect
  <2>2. {x \in h.asserts : x[1] = m} = {x \in g.asserts : x[1] = m}
    BY <2>1
  <2>. QED
    BY <1>1, <1>2, <2>1, <2>2 DEF AssertsOf, OfLesson
<1>10. CASE n = 6
  BY <1>3, <1>4, <1>10, Statements
<1>11. CASE n = 7
  BY <1>3, <1>4, <1>11, Statements
<1>12. CASE n = 8
  BY <1>3, <1>4, <1>12, Statements
<1>13. CASE n = 9
  <2>1. /\ h.lessons = g.lessons /\ h.concepts = g.concepts /\ h.asserts = g.asserts
        /\ h.linked = g.linked
    BY <1>13, Statements, RebuildEffect
  <2>. QED
    BY <1>1, <1>2, <2>1 DEF AssertsOf, OfLesson
<1>. QED
  BY <1>5, <1>6, <1>7, <1>8, <1>9, <1>10, <1>11, <1>12, <1>13, StatementCases

Ends(A) == {x[2] : x \in A}

LEMMA AddedEnds ==
  ASSUME NEW A, NEW B
  PROVE  Ends(A \cup B) = Ends(A) \cup Ends(B)
BY DEF Ends

LEMMA EndsOfProduct ==
  ASSUME NEW l, NEW K
  PROVE  Ends({l} \X K) = K
<1>1. \A k \in K : <<l, k>> \in {l} \X K /\ <<l, k>>[2] = k
  OBVIOUS
<1>. QED
  BY <1>1 DEF Ends

\* The lesson itself comes one stage further.
LEMMA StatementOwn ==
  ASSUME NEW g \in Graphs, NEW l \in Lessons, NEW a \in Artifacts, NEW n \in 1 .. Len(Steps),
         Stage(g, l, a, n), NEW h, h = Execute(g, Steps[n], l, a)
  PROVE  Stage(h, l, a, n + 1)
<1>. DEFINE R == Relations(l, a)
            F == Facts(l, a)
            C == Chunks(l, a)
            K == ConceptKeys(a)
<1>1. ASSUME NEW new \in SUBSET Nodes, \A x \in new : x[2] = l, h = MergeNodes(g, l, new), l \in g.lessons
      PROVE  /\ h.lessons = g.lessons /\ h.concepts = g.concepts
             /\ AssertsOf(h, l) = AssertsOf(g, l) /\ OfLesson(h, l) = OfLesson(g, l) \cup new
  <2>1. /\ h.lessons = g.lessons /\ h.concepts = g.concepts /\ h.asserts = g.asserts
        /\ h.linked = g.linked \cup new
    BY <1>1, NodesEffect
  <2>. QED
    BY <1>1, <2>1 DEF AssertsOf, OfLesson
<1>2. /\ R \in SUBSET Nodes /\ F \in SUBSET Nodes /\ C \in SUBSET Nodes
      /\ \A x \in R : x[2] = l
      /\ \A x \in F : x[2] = l
      /\ \A x \in C : x[2] = l
  BY ArtifactParts
<1>3. CASE n = 1
  <2>1. /\ h.lessons = g.lessons \ {l} /\ h.asserts = {x \in g.asserts : x[1] # l}
        /\ h.linked = {x \in g.linked : x[2] # l}
    BY <1>3, Statements, DeleteEffect
  <2>2. AssertsOf(h, l) = {} /\ OfLesson(h, l) = {} /\ l \notin h.lessons
    BY <2>1 DEF AssertsOf, OfLesson
  <2>. QED
    BY <1>3, <2>2 DEF Stage
<1>4. CASE n = 2
  <2>1. h.lessons = g.lessons /\ h.asserts = g.asserts /\ h.linked = g.linked
    BY <1>4, Statements, OrphansEffect
  <2>2. AssertsOf(h, l) = AssertsOf(g, l) /\ OfLesson(h, l) = OfLesson(g, l)
    BY <2>1 DEF AssertsOf, OfLesson
  <2>. QED
    BY <1>4, <2>1, <2>2 DEF Stage
<1>5. CASE n = 3
  <2>1. h.lessons = g.lessons \cup {l} /\ h.asserts = g.asserts /\ h.linked = g.linked
    BY <1>5, Statements, LessonEffect
  <2>2. AssertsOf(h, l) = AssertsOf(g, l) /\ OfLesson(h, l) = OfLesson(g, l)
    BY <2>1 DEF AssertsOf, OfLesson
  <2>. QED
    BY <1>5, <2>1, <2>2 DEF Stage
<1>6. CASE n = 4
  <2>1. /\ h.lessons = g.lessons /\ h.concepts = g.concepts \cup K
        /\ h.asserts = g.asserts /\ h.linked = g.linked
    BY <1>6, Statements, ConceptsEffect
  <2>2. AssertsOf(h, l) = AssertsOf(g, l) /\ OfLesson(h, l) = OfLesson(g, l)
    BY <2>1 DEF AssertsOf, OfLesson
  <2>. QED
    BY <1>6, <2>1, <2>2 DEF Stage
<1>7. CASE n = 5
  <2>1. /\ h.lessons = g.lessons /\ h.concepts = g.concepts
        /\ h.asserts = g.asserts \cup ({l} \cap g.lessons) \X (K \cap g.concepts)
        /\ h.linked = g.linked
    BY <1>7, Statements, AssertsEffect
  <2>2. l \in g.lessons /\ K \subseteq g.concepts /\ AssertsOf(g, l) = {}
    BY <1>7 DEF Stage
  <2>3. h.asserts = g.asserts \cup {l} \X K
    BY <2>1, <2>2
  <2>4. AssertsOf(h, l) = AssertsOf(g, l) \cup K
    <3>1. {x \in h.asserts : x[1] = l} = {x \in g.asserts : x[1] = l} \cup {l} \X K
      BY <2>3
    <3>2. Ends({x \in h.asserts : x[1] = l}) = Ends({x \in g.asserts : x[1] = l}) \cup Ends({l} \X K)
      BY <3>1, AddedEnds
    <3>3. Ends({l} \X K) = K
      BY EndsOfProduct
    <3>. QED
      BY <3>2, <3>3 DEF AssertsOf, Ends
  <2>5. OfLesson(h, l) = OfLesson(g, l)
    BY <2>1 DEF OfLesson
  <2>. QED
    BY <1>7, <2>1, <2>2, <2>4, <2>5 DEF Stage
<1>8. CASE n = 6
  <2>1. /\ h.lessons = g.lessons /\ h.concepts = g.concepts
        /\ AssertsOf(h, l) = AssertsOf(g, l) /\ OfLesson(h, l) = OfLesson(g, l) \cup R
    BY <1>1, <1>2, <1>8, Statements DEF Stage
  <2>2. l \in g.lessons /\ AssertsOf(g, l) = K /\ OfLesson(g, l) = {} /\ K \subseteq g.concepts
    BY <1>8 DEF Stage
  <2>3. OfLesson(h, l) = R
    BY <2>1, <2>2
  <2>. HIDE DEF R, K
  <2>4. /\ l \in h.lessons /\ AssertsOf(h, l) = K /\ OfLesson(h, l) = R /\ K \subseteq h.concepts
    BY <2>1, <2>2, <2>3
  <2>. USE DEF R, K
  <2>. QED
    BY <1>8, <2>4 DEF Stage
<1>9. CASE n = 7
  <2>1. /\ h.lessons = g.lessons /\ h.concepts = g.concepts
        /\ AssertsOf(h, l) = AssertsOf(g, l) /\ OfLesson(h, l) = OfLesson(g, l) \cup F
    BY <1>1, <1>2, <1>9, Statements DEF Stage
  <2>. QED
    BY <1>9, <2>1 DEF Stage
<1>10. CASE n = 8
  <2>1. /\ h.lessons = g.lessons /\ h.concepts = g.concepts
        /\ AssertsOf(h, l) = AssertsOf(g, l) /\ OfLesson(h, l) = OfLesson(g, l) \cup C
    BY <1>1, <1>2, <1>10, Statements DEF Stage
  <2>. QED
    BY <1>10, <2>1 DEF Stage
<1>11. CASE n = 9
  <2>1. /\ h.lessons = g.lessons /\ h.concepts = g.concepts /\ h.asserts = g.asserts
        /\ h.linked = g.linked
    BY <1>11, Statements, RebuildEffect
  <2>2. AssertsOf(h, l) = AssertsOf(g, l) /\ OfLesson(h, l) = OfLesson(g, l)
    BY <2>1 DEF AssertsOf, OfLesson
  <2>. QED
    BY <1>11, <2>1, <2>2 DEF Stage
<1>. QED
  BY <1>3, <1>4, <1>5, <1>6, <1>7, <1>8, <1>9, <1>10, <1>11, StatementCases

\* And so does the graph.
LEMMA StatementWhole ==
  ASSUME NEW g \in Graphs, NEW l \in Lessons, NEW a \in Artifacts, NEW n \in 1 .. Len(Steps),
         Stage(g, l, a, n), GraphStage(g, a, n), NEW h, h = Execute(g, Steps[n], l, a)
  PROVE  GraphStage(h, a, n + 1)
<1>. DEFINE K == ConceptKeys(a)
<1>1. n = 1 \/ n = 2 \/ n = 3 \/ n = 4 \/ n = 5 \/ n = 6 \/ n = 7 \/ n = 8 \/ n = 9
  BY StatementCases
<1>2. ASSUME n \in {3, 6, 7, 8}, h.concepts = g.concepts, h.asserts = g.asserts
      PROVE  GraphStage(h, a, n + 1)
  <2>1. n + 1 # 5 /\ n + 1 # 10 /\ n # 5 /\ n >= 3
    BY <1>2
  <2>. QED
    BY <1>2, <2>1 DEF GraphStage, Kept
<1>3. /\ Relations(l, a) \in SUBSET Nodes /\ Facts(l, a) \in SUBSET Nodes /\ Chunks(l, a) \in SUBSET Nodes
  BY ArtifactParts
<1>4. CASE n = 1
  BY <1>4 DEF GraphStage
<1>5. CASE n = 2
  <2>1. h.concepts = g.concepts \cap {x[2] : x \in g.asserts} /\ h.asserts = g.asserts
    BY <1>5, Statements, OrphansEffect
  <2>. QED
    BY <1>5, <2>1 DEF GraphStage, Kept
<1>6. CASE n = 3
  BY <1>2, <1>6, Statements, LessonEffect
<1>7. CASE n = 4
  <2>1. h.concepts = g.concepts \cup K /\ h.asserts = g.asserts
    BY <1>7, Statements, ConceptsEffect
  <2>. QED
    BY <1>7, <2>1 DEF GraphStage, Kept
<1>8. CASE n = 5
  <2>1. /\ h.concepts = g.concepts
        /\ h.asserts = g.asserts \cup ({l} \cap g.lessons) \X (K \cap g.concepts)
    BY <1>8, Statements, AssertsEffect
  <2>2. l \in g.lessons /\ K \subseteq g.concepts
    BY <1>8 DEF Stage
  <2>3. h.asserts = g.asserts \cup {l} \X K
    BY <2>1, <2>2
  <2>4. g.concepts \subseteq Kept(g) \cup K
    BY <1>8 DEF GraphStage
  <2>5. Kept(h) = Kept(g) \cup K
    <3>1. Ends(h.asserts) = Ends(g.asserts) \cup Ends({l} \X K)
      BY <2>3, AddedEnds
    <3>2. Ends({l} \X K) = K
      BY EndsOfProduct
    <3>. QED
      BY <3>1, <3>2 DEF Kept, Ends
  <2>. QED
    BY <1>8, <2>1, <2>4, <2>5 DEF GraphStage
<1>9. CASE n = 6
  BY <1>2, <1>3, <1>9, Statements, NodesEffect
<1>10. CASE n = 7
  BY <1>2, <1>3, <1>10, Statements, NodesEffect
<1>11. CASE n = 8
  BY <1>2, <1>3, <1>11, Statements, NodesEffect
<1>12. CASE n = 9
  <2>1. h.concepts = g.concepts /\ h.asserts = g.asserts /\ h.relates = RebuildRelatesTo(h).relates
    BY <1>12, Statements, RebuildEffect
  <2>. QED
    BY <1>12, <2>1 DEF GraphStage, Kept
<1>. QED
  BY <1>1, <1>4, <1>5, <1>6, <1>7, <1>8, <1>9, <1>10, <1>11, <1>12

-----------------------------------------------------------------------------
(* What each step does to the processes.                                    *)

TaskInv ==
  /\ cursor <= Len(events) /\ Len(events) <= runs
  /\ \A i \in DOMAIN events : row[events[i]] # None
  /\ \A p \in Polling : batch[p].event <= batch[p].last + 1 /\ batch[p].last <= Len(events)
  /\ \A p \in Writing : Handling(p) /\ index[p].lesson = LessonAt(p)
  /\ \A p \in alone : /\ Polling = {p} /\ cursor < batch[p].event
                      /\ batch[p].last <= cursor + BatchSize

LEMMA IdleNotIndexing == Idle \notin Indexing
BY DEF Idle, Indexing, Steps

LEMMA NoBatchNotBatch == NoBatch \notin Batches
BY DEF NoBatch, Batches

LEMMA ProcessTypes ==
  ASSUME TypeOK
  PROVE  /\ Polling \subseteq Indexers /\ Writing \subseteq Indexers
         /\ \A p \in Polling : batch[p] \in Batches /\ batch[p].event \in Nat \ {0}
                               /\ batch[p].last \in Nat \ {0}
         /\ \A p \in Writing : index[p] \in Indexing /\ index[p].pc \in 1 .. Len(Steps)
                               /\ index[p].lesson \in Lessons /\ index[p].artifact \in Artifacts
<1>1. \A p \in Polling : p \in Indexers /\ batch[p] \in Batches
  BY DEF TypeOK, Polling
<1>2. \A p \in Writing : p \in Indexers /\ index[p] \in Indexing
  BY DEF TypeOK, Writing
<1>. QED
  BY <1>1, <1>2 DEF Batches, Indexing

LEMMA EventTypes ==
  ASSUME TypeOK
  PROVE  /\ Len(events) \in Nat /\ DOMAIN events = 1 .. Len(events) /\ cursor \in Nat
         /\ \A i \in DOMAIN events : events[i] \in Documents /\ LessonOf[events[i]] \in Lessons
BY ProjectionAssumption DEF TypeOK, ProjectionAssumption

\* The event a process handles, its document and its lesson.
LEMMA HandlingTypes ==
  ASSUME TypeOK, TaskInv, NEW p \in Indexers, Handling(p)
  PROVE  /\ p \in Polling /\ batch[p] \in Batches
         /\ batch[p].event \in DOMAIN events /\ batch[p].event \in 1 .. MaxRuns
         /\ batch[p].event <= batch[p].last
         /\ DocumentAt(p) \in Documents /\ LessonAt(p) \in Lessons /\ row[DocumentAt(p)] \in Artifacts
<1>1. p \in Polling /\ batch[p].event <= batch[p].last
  BY DEF Handling
<1>2. batch[p] \in Batches /\ batch[p].event \in Nat \ {0} /\ batch[p].last \in Nat
  BY <1>1, ProcessTypes
<1>3. batch[p].last <= Len(events) /\ Len(events) <= runs
  BY <1>1 DEF TaskInv
<1>4. runs \in Nat /\ runs <= MaxRuns /\ MaxRuns \in Nat
  BY ProjectionAssumption DEF TypeOK, ProjectionAssumption
<1>5. batch[p].event \in DOMAIN events /\ batch[p].event \in 1 .. MaxRuns
  BY <1>1, <1>2, <1>3, <1>4, EventTypes
<1>6. row[DocumentAt(p)] \in Artifacts
  BY <1>5, EventTypes DEF TypeOK, TaskInv, DocumentAt
<1>. QED
  BY <1>1, <1>2, <1>5, <1>6, EventTypes DEF DocumentAt, LessonAt

LEMMA FetchEffect ==
  ASSUME TypeOK, TaskInv, NEW p \in Indexers, Fetch(p)
  PROVE  /\ p \notin Polling /\ p \notin Writing
         /\ cursor < Len(events)
         /\ batch'[p] \in Batches /\ batch'[p].event = cursor + 1
         /\ batch'[p].last \in cursor + 1 .. Len(events) /\ batch'[p].last <= cursor + BatchSize
         /\ cursor + BatchSize < Len(events) => batch'[p].last = cursor + BatchSize
         /\ cursor + BatchSize >= Len(events) => batch'[p].last = Len(events)
         /\ \A q \in Indexers \ {p} : batch'[q] = batch[q]
         /\ batch' \in [Indexers -> {NoBatch} \cup Batches]
         /\ Polling' = Polling \cup {p} /\ Writing' = Writing
         /\ alone' = IF Polling = {} THEN {p} ELSE {}
         /\ astray \subseteq astray' /\ astray' \subseteq Lessons
         /\ \A q \in alone : \A i \in cursor + 1 .. batch[q].last : LessonOf[events[i]] \in astray'
         /\ UNCHANGED <<row, events, cursor, index, failures, graph, runs, faults, shown, stale, mixed, cut>>
<1>. DEFINE last == IF cursor + BatchSize < Len(events) THEN cursor + BatchSize ELSE Len(events)
            fetched == [event |-> cursor + 1, last |-> last]
            met == UNION {cursor + 1 .. batch[q].last : q \in alone}
<1>1. /\ batch[p] = NoBatch /\ cursor < Len(events)
      /\ batch' = [batch EXCEPT ![p] = fetched]
      /\ alone' = IF Polling = {} THEN {p} ELSE {}
      /\ astray' = astray \cup {LessonOf[events[i]] : i \in met}
      /\ UNCHANGED <<row, events, cursor, index, failures, graph, runs, faults, shown, stale, mixed, cut>>
  BY DEF Fetch
<1>2. cursor \in Nat /\ Len(events) \in Nat /\ BatchSize \in Nat \ {0}
  BY EventTypes, ProjectionAssumption DEF ProjectionAssumption
<1>3. /\ last \in cursor + 1 .. Len(events) /\ last <= cursor + BatchSize /\ last \in Nat \ {0}
      /\ cursor + BatchSize < Len(events) => last = cursor + BatchSize
      /\ cursor + BatchSize >= Len(events) => last = Len(events)
  BY <1>1, <1>2
<1>. HIDE DEF last
<1>4. fetched \in Batches /\ fetched.event = cursor + 1 /\ fetched.last = last
  BY <1>2, <1>3 DEF Batches
<1>5. fetched # NoBatch
  BY <1>4, NoBatchNotBatch
<1>. HIDE DEF fetched
<1>6. p \notin Polling /\ p \notin Writing
  BY <1>1 DEF Polling, TaskInv, Handling
<1>7. /\ batch'[p] = fetched /\ \A q \in Indexers \ {p} : batch'[q] = batch[q]
      /\ batch' \in [Indexers -> {NoBatch} \cup Batches]
  BY <1>1, <1>4 DEF TypeOK
<1>8. Polling' = Polling \cup {p} /\ Writing' = Writing
  BY <1>1, <1>5, <1>7 DEF Polling, Writing
<1>9. \A q \in alone : \A i \in cursor + 1 .. batch[q].last : LessonOf[events[i]] \in astray'
  BY <1>1
<1>10. \A i \in met : i \in DOMAIN events
  <2>1. SUFFICES ASSUME NEW q \in alone, NEW i \in cursor + 1 .. batch[q].last
                 PROVE  i \in DOMAIN events
    OBVIOUS
  <2>2. batch[q].last \in Nat /\ batch[q].last <= Len(events)
    BY ProcessTypes DEF TaskInv
  <2>. QED
    BY <1>2, <2>2, EventTypes
<1>11. astray' \subseteq Lessons
  BY <1>1, <1>10, EventTypes DEF TypeOK
<1>. QED
  BY <1>1, <1>3, <1>4, <1>6, <1>7, <1>8, <1>9, <1>11

LEMMA LoadEffect ==
  ASSUME TypeOK, TaskInv, NEW p \in Indexers, LoadLatest(p), NEW l, l = LessonAt(p), NEW a, a = row[DocumentAt(p)]
  PROVE  /\ Handling(p) /\ p \in Polling /\ p \notin Writing
         /\ l \in Lessons /\ a \in Artifacts
         /\ index'[p] = [pc |-> 1, lesson |-> l, artifact |-> a] /\ index'[p] \in Indexing
         /\ \A q \in Indexers \ {p} : index'[q] = index[q]
         /\ index' \in [Indexers -> {Idle} \cup Indexing]
         /\ Writing' = Writing \cup {p} /\ Polling' = Polling
         /\ shown' \in [Lessons -> Artifacts \cup {None}]
         /\ shown'[l] = a /\ \A m \in Lessons \ {l} : shown'[m] = shown[m]
         /\ mixed' = IF Writing = {} THEN mixed \ {l} ELSE mixed \cup {l} \cup {index[q].lesson : q \in Writing}
         /\ cut' = cut \ {l}
         /\ astray' = IF p \in alone THEN astray \ {l} ELSE astray \cup {l}
         /\ UNCHANGED <<row, events, cursor, batch, failures, graph, runs, faults, stale, alone>>
<1>1. /\ Handling(p) /\ p \notin Writing
      /\ index' = [index EXCEPT ![p] = [pc |-> 1, lesson |-> l, artifact |-> a]]
      /\ shown' = [shown EXCEPT ![l] = a]
      /\ mixed' = IF Writing = {} THEN mixed \ {l} ELSE mixed \cup {l} \cup {index[q].lesson : q \in Writing}
      /\ cut' = cut \ {l}
      /\ astray' = IF p \in alone THEN astray \ {l} ELSE astray \cup {l}
      /\ UNCHANGED <<row, events, cursor, batch, failures, graph, runs, faults, stale, alone>>
  BY DEF LoadLatest
<1>2. p \in Polling /\ l \in Lessons /\ a \in Artifacts
  BY <1>1, HandlingTypes
<1>. DEFINE task == [pc |-> 1, lesson |-> l, artifact |-> a]
<1>3. task \in Indexing
  BY <1>2 DEF Indexing, Steps
<1>4. task # Idle
  BY <1>3, IdleNotIndexing
<1>5. index' = [index EXCEPT ![p] = task]
  BY <1>1
<1>. HIDE DEF task
<1>6. /\ index'[p] = task /\ \A q \in Indexers \ {p} : index'[q] = index[q]
      /\ index' \in [Indexers -> {Idle} \cup Indexing]
  BY <1>3, <1>5 DEF TypeOK
<1>7. Writing' = Writing \cup {p} /\ Polling' = Polling
  BY <1>1, <1>4, <1>6 DEF Writing, Polling
<1>8. /\ shown' \in [Lessons -> Artifacts \cup {None}]
      /\ shown'[l] = a /\ \A m \in Lessons \ {l} : shown'[m] = shown[m]
  BY <1>1, <1>2 DEF TypeOK
<1>. QED
  BY <1>1, <1>2, <1>3, <1>6, <1>7, <1>8 DEF task

LEMMA CountsReset ==
  ASSUME TypeOK, NEW p \in Indexers, NEW e
  PROVE  [failures[p] EXCEPT ![e] = 0] \in [1 .. MaxRuns -> 0 .. MaxRetries - 1]
<1>1. failures[p] \in [1 .. MaxRuns -> 0 .. MaxRetries - 1]
  BY DEF TypeOK
<1>2. 0 \in 0 .. MaxRetries - 1
  BY ProjectionAssumption DEF ProjectionAssumption
<1>. QED
  BY <1>1, <1>2

LEMMA StatementEffect ==
  ASSUME TypeOK, TaskInv, NEW p \in Indexers, RunStatement(p), NEW n, n = index[p].pc
  PROVE  /\ p \in Writing /\ Handling(p) /\ p \in Polling /\ n \in 1 .. Len(Steps)
         /\ index[p].lesson \in Lessons /\ index[p].artifact \in Artifacts
         /\ graph' = Execute(graph, Steps[n], index[p].lesson, index[p].artifact)
         /\ \A q \in Indexers \ {p} : index'[q] = index[q] /\ batch'[q] = batch[q]
         /\ index' \in [Indexers -> {Idle} \cup Indexing]
         /\ batch' \in [Indexers -> {NoBatch} \cup Batches]
         /\ failures' \in [Indexers -> [1 .. MaxRuns -> 0 .. MaxRetries - 1]]
         /\ Polling' = Polling
         /\ \/ /\ n < Len(Steps) /\ Writing' = Writing /\ batch' = batch
               /\ index'[p].pc = n + 1 /\ index'[p].lesson = index[p].lesson
               /\ index'[p].artifact = index[p].artifact
            \/ /\ n = Len(Steps) /\ Writing' = Writing \ {p}
               /\ batch'[p].event = batch[p].event + 1 /\ batch'[p].last = batch[p].last
         /\ UNCHANGED <<row, events, cursor, runs, faults, shown, stale, mixed, cut, alone, astray>>
<1>1. /\ p \in Writing
      /\ graph' = Execute(graph, Steps[n], index[p].lesson, index[p].artifact)
      /\ \/ /\ n < Len(Steps) /\ index' = [index EXCEPT ![p] = [index[p] EXCEPT !.pc = n + 1]]
            /\ batch' = batch /\ failures' = failures
         \/ /\ ~(n < Len(Steps)) /\ index' = [index EXCEPT ![p] = Idle]
            /\ batch' = [batch EXCEPT ![p] = [batch[p] EXCEPT !.event = batch[p].event + 1]]
            /\ failures' = [failures EXCEPT ![p] = [failures[p] EXCEPT ![batch[p].event] = 0]]
      /\ UNCHANGED <<row, events, cursor, runs, faults, shown, stale, mixed, cut, alone, astray>>
  BY DEF RunStatement, history
<1>2. /\ index[p] \in Indexing /\ n \in 1 .. Len(Steps)
      /\ index[p].lesson \in Lessons /\ index[p].artifact \in Artifacts
  BY <1>1, ProcessTypes
<1>3. Handling(p)
  BY <1>1 DEF TaskInv
<1>4. p \in Polling /\ batch[p] \in Batches /\ batch[p].event \in Nat /\ batch[p].last \in Nat \ {0}
  BY <1>3, ProcessTypes DEF Handling
<1>5. Len(Steps) = 9
  BY DEF Steps
<1>6. CASE n < Len(Steps) /\ index' = [index EXCEPT ![p] = [index[p] EXCEPT !.pc = n + 1]]
           /\ batch' = batch /\ failures' = failures
  <2>. DEFINE task == [index[p] EXCEPT !.pc = n + 1]
  <2>1. /\ task \in Indexing /\ task.pc = n + 1
        /\ task.lesson = index[p].lesson /\ task.artifact = index[p].artifact
    <3>1. n + 1 \in 1 .. Len(Steps)
      BY <1>2, <1>5, <1>6
    <3>. QED
      BY <1>2, <3>1 DEF Indexing
  <2>2. task # Idle
    BY <2>1, IdleNotIndexing
  <2>3. index' = [index EXCEPT ![p] = task]
    BY <1>6
  <2>. HIDE DEF task
  <2>4. /\ index'[p] = task /\ \A q \in Indexers \ {p} : index'[q] = index[q]
        /\ index' \in [Indexers -> {Idle} \cup Indexing]
    BY <2>1, <2>3 DEF TypeOK
  <2>5. Writing' = Writing /\ Polling' = Polling
    BY <1>1, <1>6, <2>2, <2>4 DEF Writing, Polling
  <2>. QED
    BY <1>1, <1>2, <1>3, <1>4, <1>6, <2>1, <2>4, <2>5 DEF TypeOK
<1>7. CASE ~(n < Len(Steps)) /\ index' = [index EXCEPT ![p] = Idle]
           /\ batch' = [batch EXCEPT ![p] = [batch[p] EXCEPT !.event = batch[p].event + 1]]
           /\ failures' = [failures EXCEPT ![p] = [failures[p] EXCEPT ![batch[p].event] = 0]]
  <2>. DEFINE rest == [batch[p] EXCEPT !.event = batch[p].event + 1]
              counts == [failures[p] EXCEPT ![batch[p].event] = 0]
  <2>1. rest \in Batches /\ rest.event = batch[p].event + 1 /\ rest.last = batch[p].last
    BY <1>4 DEF Batches
  <2>2. counts \in [1 .. MaxRuns -> 0 .. MaxRetries - 1]
    BY CountsReset
  <2>3. rest # NoBatch
    BY <2>1, NoBatchNotBatch
  <2>4. batch' = [batch EXCEPT ![p] = rest] /\ failures' = [failures EXCEPT ![p] = counts]
    BY <1>7
  <2>. HIDE DEF rest, counts
  <2>5. /\ index'[p] = Idle /\ \A q \in Indexers \ {p} : index'[q] = index[q]
        /\ index' \in [Indexers -> {Idle} \cup Indexing]
    BY <1>7 DEF TypeOK
  <2>6. /\ batch'[p] = rest /\ \A q \in Indexers \ {p} : batch'[q] = batch[q]
        /\ batch' \in [Indexers -> {NoBatch} \cup Batches]
        /\ failures' \in [Indexers -> [1 .. MaxRuns -> 0 .. MaxRetries - 1]]
    BY <2>1, <2>2, <2>4 DEF TypeOK
  <2>7. Writing' = Writing \ {p} /\ Polling' = Polling
    BY <1>4, <2>3, <2>5, <2>6 DEF Writing, Polling
  <2>8. n = Len(Steps)
    BY <1>2, <1>5, <1>7
  <2>. QED
    BY <1>1, <1>2, <1>3, <1>4, <2>1, <2>5, <2>6, <2>7, <2>8
<1>. QED
  BY <1>1, <1>6, <1>7

LEMMA EndEffect ==
  ASSUME TypeOK, TaskInv, NEW p \in Polling, EndPoll(p)
  PROVE  /\ p \in Indexers
         /\ \A q \in Indexers \ {p} : index'[q] = index[q] /\ batch'[q] = batch[q]
         /\ index' \in [Indexers -> {Idle} \cup Indexing]
         /\ batch' \in [Indexers -> {NoBatch} \cup Batches]
         /\ Polling' = Polling \ {p} /\ Writing' = Writing \ {p}
         /\ cut \subseteq cut' /\ cut' \subseteq Lessons
         /\ p \in Writing => cut' = cut \cup {index[p].lesson}
         /\ p \notin Writing => cut' = cut
         /\ alone' = alone \ {p}
         /\ UNCHANGED <<row, events, graph, runs, shown, stale, mixed, astray>>
<1>1. /\ batch' = [batch EXCEPT ![p] = NoBatch] /\ index' = [index EXCEPT ![p] = Idle]
      /\ cut' = cut \cup {index[q].lesson : q \in Writing \cap {p}}
      /\ alone' = alone \ {p}
      /\ UNCHANGED <<row, events, graph, runs, shown, stale, mixed, astray>>
  BY DEF EndPoll
<1>2. p \in Indexers /\ \A q \in Writing : index[q].lesson \in Lessons
  BY ProcessTypes
<1>3. /\ index'[p] = Idle /\ \A q \in Indexers \ {p} : index'[q] = index[q]
      /\ index' \in [Indexers -> {Idle} \cup Indexing]
      /\ batch'[p] = NoBatch /\ \A q \in Indexers \ {p} : batch'[q] = batch[q]
      /\ batch' \in [Indexers -> {NoBatch} \cup Batches]
  BY <1>1, <1>2 DEF TypeOK
<1>4. Polling' = Polling \ {p} /\ Writing' = Writing \ {p}
  BY <1>3 DEF Polling, Writing
<1>. QED
  BY <1>1, <1>2, <1>3, <1>4 DEF TypeOK

\* The ways a poll ends.
Ended(p) == SetCursor(p) \/ Fail(p) \/ Restart(p) \/ LoseCursor(p)

LEMMA EndedEffect ==
  ASSUME TypeOK, TaskInv, NEW p \in Indexers, Ended(p)
  PROVE  /\ p \in Polling /\ EndPoll(p)
         /\ \/ cursor' = cursor
            \/ /\ cursor' = batch[p].last /\ batch[p].event = batch[p].last + 1
               /\ p \notin Writing
         /\ faults' \in 0 .. MaxFaults
         /\ failures' \in [Indexers -> [1 .. MaxRuns -> 0 .. MaxRetries - 1]]
<1>1. CASE SetCursor(p)
  <2>1. /\ p \in Polling /\ EndPoll(p) /\ batch[p].event > batch[p].last /\ cursor' = batch[p].last
        /\ UNCHANGED <<failures, faults>>
    BY <1>1 DEF SetCursor
  <2>2. batch[p].event \in Nat /\ batch[p].last \in Nat /\ batch[p].event <= batch[p].last + 1
    BY <2>1, ProcessTypes DEF TaskInv
  <2>3. batch[p].event = batch[p].last + 1
    BY <2>1, <2>2
  <2>4. p \notin Writing
    BY <2>1, <2>2 DEF TaskInv, Handling
  <2>. QED
    BY <2>1, <2>3, <2>4 DEF TypeOK
<1>2. ASSUME faults < MaxFaults, faults' = faults + 1
      PROVE  faults' \in 0 .. MaxFaults
  BY <1>2, ProjectionAssumption DEF TypeOK, ProjectionAssumption
<1>3. CASE Fail(p)
  <2>1. /\ Handling(p) /\ Failures(p) < MaxRetries /\ EndPoll(p) /\ cursor' = cursor
        /\ faults < MaxFaults /\ faults' = faults + 1
        /\ failures' = [failures EXCEPT ![p] = [failures[p] EXCEPT ![batch[p].event] = Failures(p)]]
    BY <1>3 DEF Fail
  <2>2. batch[p].event \in 1 .. MaxRuns /\ p \in Polling
    BY <2>1, HandlingTypes
  <2>3. Failures(p) \in 0 .. MaxRetries - 1
    <3>1. failures[p][batch[p].event] \in 0 .. MaxRetries - 1
      BY <2>2 DEF TypeOK
    <3>. QED
      BY <2>1, <3>1, ProjectionAssumption DEF Failures, ProjectionAssumption
  <2>4. failures' \in [Indexers -> [1 .. MaxRuns -> 0 .. MaxRetries - 1]]
    BY <2>1, <2>3 DEF TypeOK
  <2>. QED
    BY <1>2, <2>1, <2>2, <2>4
<1>4. CASE Restart(p)
  <2>1. /\ p \in Polling /\ EndPoll(p) /\ cursor' = cursor /\ faults < MaxFaults /\ faults' = faults + 1
        /\ failures' = [failures EXCEPT ![p] = [e \in 1 .. MaxRuns |-> 0]]
    BY <1>4 DEF Restart
  <2>2. [e \in 1 .. MaxRuns |-> 0] \in [1 .. MaxRuns -> 0 .. MaxRetries - 1]
    BY ProjectionAssumption DEF ProjectionAssumption
  <2>3. failures' \in [Indexers -> [1 .. MaxRuns -> 0 .. MaxRetries - 1]]
    BY <2>1, <2>2 DEF TypeOK
  <2>. QED
    BY <1>2, <2>1, <2>3
<1>5. CASE LoseCursor(p)
  BY <1>2, <1>5 DEF LoseCursor, TypeOK
<1>. QED
  BY <1>1, <1>3, <1>4, <1>5 DEF Ended

LEMMA GiveUpEffect ==
  ASSUME TypeOK, TaskInv, NEW p \in Indexers, GiveUp(p)
  PROVE  /\ Handling(p) /\ p \in Polling /\ LessonAt(p) \in Lessons
         /\ \A q \in Indexers \ {p} : index'[q] = index[q] /\ batch'[q] = batch[q]
         /\ index' \in [Indexers -> {Idle} \cup Indexing]
         /\ batch' \in [Indexers -> {NoBatch} \cup Batches]
         /\ failures' \in [Indexers -> [1 .. MaxRuns -> 0 .. MaxRetries - 1]]
         /\ faults' \in 0 .. MaxFaults
         /\ batch'[p].event = batch[p].event + 1 /\ batch'[p].last = batch[p].last
         /\ Polling' = Polling /\ Writing' = Writing \ {p}
         /\ cut \subseteq cut' /\ cut' \subseteq Lessons
         /\ p \in Writing => cut' = cut \cup {index[p].lesson}
         /\ p \notin Writing => cut' = cut
         /\ astray' = astray \cup {LessonAt(p)}
         /\ UNCHANGED <<row, events, cursor, graph, runs, shown, stale, mixed, alone>>
<1>. DEFINE rest == [batch[p] EXCEPT !.event = batch[p].event + 1]
            counts == [failures[p] EXCEPT ![batch[p].event] = 0]
<1>1. /\ Handling(p) /\ faults < MaxFaults /\ faults' = faults + 1
      /\ failures' = [failures EXCEPT ![p] = counts]
      /\ batch' = [batch EXCEPT ![p] = rest] /\ index' = [index EXCEPT ![p] = Idle]
      /\ cut' = cut \cup {index[q].lesson : q \in Writing \cap {p}}
      /\ astray' = astray \cup {LessonAt(p)}
      /\ UNCHANGED <<row, events, cursor, graph, runs, shown, stale, mixed, alone>>
  BY DEF GiveUp
<1>2. /\ p \in Polling /\ batch[p] \in Batches /\ LessonAt(p) \in Lessons
      /\ \A q \in Writing : index[q].lesson \in Lessons
  BY <1>1, HandlingTypes, ProcessTypes
<1>3. rest \in Batches /\ rest.event = batch[p].event + 1 /\ rest.last = batch[p].last
  BY <1>2 DEF Batches
<1>4. counts \in [1 .. MaxRuns -> 0 .. MaxRetries - 1]
  BY CountsReset
<1>5. rest # NoBatch
  BY <1>3, NoBatchNotBatch
<1>6. faults' \in 0 .. MaxFaults
  BY <1>1, ProjectionAssumption DEF TypeOK, ProjectionAssumption
<1>. HIDE DEF rest, counts
<1>7. /\ index'[p] = Idle /\ \A q \in Indexers \ {p} : index'[q] = index[q]
      /\ index' \in [Indexers -> {Idle} \cup Indexing]
      /\ batch'[p] = rest /\ \A q \in Indexers \ {p} : batch'[q] = batch[q]
      /\ batch' \in [Indexers -> {NoBatch} \cup Batches]
      /\ failures' \in [Indexers -> [1 .. MaxRuns -> 0 .. MaxRetries - 1]]
  BY <1>1, <1>3, <1>4 DEF TypeOK
<1>8. Polling' = Polling /\ Writing' = Writing \ {p}
  BY <1>2, <1>5, <1>7 DEF Polling, Writing
<1>9. cut' \subseteq Lessons
  BY <1>1, <1>2 DEF TypeOK
<1>. QED
  BY <1>1, <1>2, <1>3, <1>6, <1>7, <1>8, <1>9

\* The row a run leaves, and what becomes of the event list.
LEMMA PipelineEffect ==
  ASSUME TypeOK, NEW d \in Documents, NEW from \in {"guard", "summarizer", "mapper", "nothing"},
         NEW guard \in GuardAnswers, NEW summary \in SummaryAnswers, NEW map \in MapAnswers,
         RunPipeline(d, from, guard, summary, map)
  PROVE  /\ row' \in [Documents -> Artifacts \cup {None}]
         /\ row[d] # None => row'[d] # None
         /\ \A c \in Documents \ {d} : row'[c] = row[c]
         /\ \/ events' = Append(events, d) /\ row'[d] # None /\ stale' = stale \ {d}
            \/ events' = events /\ row'[d] = row[d] /\ stale' = stale
            \/ events' = events /\ stale' = stale \cup {d}
         /\ runs' \in 0 .. MaxRuns /\ runs' = runs + 1
         /\ Writing' = Writing /\ Polling' = Polling
         /\ UNCHANGED <<cursor, batch, index, failures, graph, faults, shown, mixed, cut, alone, astray>>
<1>. DEFINE out == Outcome(d, from, guard, summary, map)
            flushed == IF out.context.summary = None THEN row[d] ELSE Stored(out.context)
<1>1. /\ row' = [row EXCEPT ![d] = flushed]
      /\ events' = IF out.ok THEN Append(events, d) ELSE events
      /\ stale' = IF out.ok THEN stale \ {d}
                  ELSE IF flushed = row[d] THEN stale ELSE stale \cup {d}
      /\ runs < MaxRuns /\ runs' = runs + 1 /\ (row[d] = None => from = "guard")
      /\ UNCHANGED <<cursor, batch, index, failures, graph, faults, shown, mixed, cut, alone, astray>>
  BY DEF RunPipeline
<1>2. IsOutcome(out) /\ (out.ok /\ row[d] = None => out.context.summary # None)
  BY <1>1, OutcomeType
<1>. HIDE DEF out
<1>3. /\ flushed \in Artifacts \cup {None}
      /\ row[d] # None \/ out.ok => flushed # None
  <2>1. CASE out.context.summary = None
    BY <1>2, <2>1 DEF TypeOK
  <2>2. CASE out.context.summary # None
    <3>1. out.context.summary \in Summaries \cup {None} /\ out.context.map \in Maps \cup {None}
      BY <1>2 DEF IsOutcome, IsContext
    <3>2. Stored(out.context) \in Artifacts
      BY <3>1 DEF Stored, Artifacts
    <3>3. None \notin Artifacts
      BY ProjectionAssumption DEF ProjectionAssumption
    <3>. QED
      BY <2>2, <3>2, <3>3
  <2>. QED
    BY <2>1, <2>2
<1>. HIDE DEF flushed
<1>4. /\ row' \in [Documents -> Artifacts \cup {None}]
      /\ row'[d] = flushed /\ \A c \in Documents \ {d} : row'[c] = row[c]
  BY <1>1, <1>3 DEF TypeOK
<1>5. runs' \in 0 .. MaxRuns
  BY <1>1, ProjectionAssumption DEF TypeOK, ProjectionAssumption
<1>6. Writing' = Writing /\ Polling' = Polling
  BY <1>1 DEF Writing, Polling
<1>7. out.ok \in BOOLEAN
  BY <1>2 DEF IsOutcome
<1>. QED
  BY <1>1, <1>3, <1>4, <1>5, <1>6, <1>7

LEMMA AppendEffect ==
  ASSUME TypeOK, NEW d \in Documents, events' = Append(events, d)
  PROVE  /\ Len(events') = Len(events) + 1 /\ DOMAIN events' = 1 .. Len(events) + 1
         /\ events'[Len(events) + 1] = d
         /\ \A i \in DOMAIN events : events'[i] = events[i]
         /\ events' \in Seq(Documents)
BY DEF TypeOK

LEMMA TypeStep ==
  ASSUME TypeOK, TaskInv, [Next]_vars
  PROVE  TypeOK'
<1>1. ASSUME NEW p \in Indexers, Fetch(p)
      PROVE  TypeOK'
  <2>1. /\ batch' \in [Indexers -> {NoBatch} \cup Batches] /\ astray' \subseteq Lessons
        /\ alone' = IF Polling = {} THEN {p} ELSE {}
        /\ UNCHANGED <<row, events, cursor, index, failures, graph, runs, faults, shown, stale, mixed, cut>>
    BY <1>1, FetchEffect
  <2>. QED
    BY <2>1 DEF TypeOK
<1>2. ASSUME NEW p \in Indexers, LoadLatest(p)
      PROVE  TypeOK'
  <2>1. PICK l, a : l = LessonAt(p) /\ a = row[DocumentAt(p)]
    OBVIOUS
  <2>2. /\ l \in Lessons
        /\ index' \in [Indexers -> {Idle} \cup Indexing]
        /\ shown' \in [Lessons -> Artifacts \cup {None}]
        /\ mixed' = IF Writing = {} THEN mixed \ {l} ELSE mixed \cup {l} \cup {index[q].lesson : q \in Writing}
        /\ cut' = cut \ {l}
        /\ astray' = IF p \in alone THEN astray \ {l} ELSE astray \cup {l}
        /\ UNCHANGED <<row, events, cursor, batch, failures, graph, runs, faults, stale, alone>>
    BY <1>2, <2>1, LoadEffect
  <2>3. mixed' \subseteq Lessons /\ cut' \subseteq Lessons /\ astray' \subseteq Lessons
    BY <2>2, ProcessTypes DEF TypeOK
  <2>. QED
    BY <2>2, <2>3 DEF TypeOK
<1>3. ASSUME NEW p \in Indexers, RunStatement(p)
      PROVE  TypeOK'
  <2>1. /\ index[p].pc \in 1 .. Len(Steps) /\ index[p].lesson \in Lessons /\ index[p].artifact \in Artifacts
        /\ graph' = Execute(graph, Steps[index[p].pc], index[p].lesson, index[p].artifact)
        /\ index' \in [Indexers -> {Idle} \cup Indexing]
        /\ batch' \in [Indexers -> {NoBatch} \cup Batches]
        /\ failures' \in [Indexers -> [1 .. MaxRuns -> 0 .. MaxRetries - 1]]
        /\ UNCHANGED <<row, events, cursor, runs, faults, shown, stale, mixed, cut, alone, astray>>
    BY <1>3, StatementEffect
  <2>2. graph' \in Graphs
    BY <2>1, StatementType DEF TypeOK
  <2>. QED
    BY <2>1, <2>2 DEF TypeOK
<1>4. ASSUME NEW p \in Indexers, Ended(p)
      PROVE  TypeOK'
  <2>1. /\ p \in Polling /\ EndPoll(p) /\ faults' \in 0 .. MaxFaults
        /\ failures' \in [Indexers -> [1 .. MaxRuns -> 0 .. MaxRetries - 1]]
        /\ cursor' = cursor \/ cursor' = batch[p].last
    BY <1>4, EndedEffect
  <2>2. /\ index' \in [Indexers -> {Idle} \cup Indexing]
        /\ batch' \in [Indexers -> {NoBatch} \cup Batches]
        /\ cut' \subseteq Lessons /\ alone' = alone \ {p}
        /\ UNCHANGED <<row, events, graph, runs, shown, stale, mixed, astray>>
    BY <2>1, EndEffect
  <2>3. cursor' \in Nat
    BY <2>1, ProcessTypes DEF TypeOK
  <2>. QED
    BY <2>1, <2>2, <2>3 DEF TypeOK
<1>5. ASSUME NEW p \in Indexers, GiveUp(p)
      PROVE  TypeOK'
  <2>1. /\ LessonAt(p) \in Lessons
        /\ index' \in [Indexers -> {Idle} \cup Indexing]
        /\ batch' \in [Indexers -> {NoBatch} \cup Batches]
        /\ failures' \in [Indexers -> [1 .. MaxRuns -> 0 .. MaxRetries - 1]]
        /\ faults' \in 0 .. MaxFaults /\ cut' \subseteq Lessons
        /\ astray' = astray \cup {LessonAt(p)}
        /\ UNCHANGED <<row, events, cursor, graph, runs, shown, stale, mixed, alone>>
    BY <1>5, GiveUpEffect
  <2>. QED
    BY <2>1 DEF TypeOK
<1>6. ASSUME NEW d \in Documents, NEW from \in {"guard", "summarizer", "mapper", "nothing"},
             NEW guard \in GuardAnswers, NEW summary \in SummaryAnswers, NEW map \in MapAnswers,
             RunPipeline(d, from, guard, summary, map)
      PROVE  TypeOK'
  <2>1. /\ row' \in [Documents -> Artifacts \cup {None}]
        /\ \/ events' = Append(events, d) /\ stale' = stale \ {d}
           \/ events' = events /\ stale' = stale
           \/ events' = events /\ stale' = stale \cup {d}
        /\ runs' \in 0 .. MaxRuns
        /\ UNCHANGED <<cursor, batch, index, failures, graph, faults, shown, mixed, cut, alone, astray>>
    BY <1>6, PipelineEffect
  <2>2. events' \in Seq(Documents) /\ stale' \subseteq Documents
    BY <2>1, AppendEffect DEF TypeOK
  <2>. QED
    BY <2>1, <2>2 DEF TypeOK
<1>7. CASE UNCHANGED vars
  BY <1>7 DEF vars, history, TypeOK
<1>. QED
  BY <1>1, <1>2, <1>3, <1>4, <1>5, <1>6, <1>7 DEF Next, Poll, Interrupt, Ended

\* What TaskInv says of one process.
Task(p) ==
  /\ p \in Polling => batch[p].event <= batch[p].last + 1 /\ batch[p].last <= Len(events)
  /\ p \in Writing => Handling(p) /\ index[p].lesson = LessonAt(p)

LEMMA TaskParts ==
  ASSUME TypeOK
  PROVE  TaskInv <=> /\ cursor <= Len(events) /\ Len(events) <= runs
                     /\ \A i \in DOMAIN events : row[events[i]] # None
                     /\ \A p \in Indexers : Task(p)
                     /\ \A p \in alone : /\ Polling = {p} /\ cursor < batch[p].event
                                         /\ batch[p].last <= cursor + BatchSize
BY ProcessTypes DEF TaskInv, Task

\* A process that does not move, while the events stay.
LEMMA TaskElsewhere ==
  ASSUME NEW q \in Indexers, Task(q), index'[q] = index[q], batch'[q] = batch[q], events' = events
  PROVE  Task(q)'
<1>1. /\ q \in Polling' <=> q \in Polling
      /\ q \in Writing' <=> q \in Writing
  BY DEF Polling, Writing
<1>2. Handling(q)' <=> Handling(q)
  BY <1>1 DEF Handling
<1>3. LessonAt(q)' = LessonAt(q)
  BY DEF LessonAt, DocumentAt
<1>. QED
  BY <1>1, <1>2, <1>3 DEF Task

LEMMA TaskStep ==
  ASSUME TypeOK, TaskInv, [Next]_vars
  PROVE  TaskInv'
<1>1. TypeOK'
  BY TypeStep
<1>2. ASSUME (cursor <= Len(events) /\ Len(events) <= runs)', (\A i \in DOMAIN events : row[events[i]] # None)',
             \A q \in Indexers : Task(q)',
             (\A p \in alone : /\ Polling = {p} /\ cursor < batch[p].event
                               /\ batch[p].last <= cursor + BatchSize)'
      PROVE  TaskInv'
  <2>. SUFFICES (\A p \in Polling : batch[p].event <= batch[p].last + 1 /\ batch[p].last <= Len(events))'
                /\ (\A p \in Writing : Handling(p) /\ index[p].lesson = LessonAt(p))'
    BY <1>2 DEF TaskInv
  <2>1. \A p \in Polling' : p \in Indexers
    BY DEF Polling
  <2>2. \A p \in Writing' : p \in Indexers
    BY DEF Writing
  <2>. QED
    BY <1>2, <2>1, <2>2 DEF Task
<1>3. /\ \A q \in Indexers : Task(q)
      /\ \A p \in alone : Polling = {p} /\ cursor < batch[p].event /\ batch[p].last <= cursor + BatchSize
      /\ cursor <= Len(events) /\ Len(events) <= runs
      /\ \A i \in DOMAIN events : row[events[i]] # None
      /\ cursor \in Nat /\ Len(events) \in Nat /\ runs \in Nat
      /\ BatchSize \in Nat /\ Polling \subseteq Indexers
  BY TaskParts, EventTypes, ProcessTypes, ProjectionAssumption DEF TypeOK, ProjectionAssumption
<1>4. ASSUME NEW p \in Indexers, Fetch(p)
      PROVE  TaskInv'
  <2>1. /\ p \notin Polling /\ p \notin Writing
        /\ batch'[p].event = cursor + 1
        /\ batch'[p].last \in cursor + 1 .. Len(events) /\ batch'[p].last <= cursor + BatchSize
        /\ \A q \in Indexers \ {p} : batch'[q] = batch[q]
        /\ Polling' = Polling \cup {p} /\ Writing' = Writing
        /\ alone' = IF Polling = {} THEN {p} ELSE {}
        /\ UNCHANGED <<row, events, cursor, index, runs>>
    BY <1>4, FetchEffect
  <2>2. Task(p)'
    BY <1>3, <2>1 DEF Task
  <2>3. \A q \in Indexers : Task(q)'
    BY <1>3, <2>1, <2>2, TaskElsewhere
  <2>4. (\A q \in alone : Polling = {q} /\ cursor < batch[q].event /\ batch[q].last <= cursor + BatchSize)'
    BY <1>3, <2>1
  <2>. QED
    BY <1>2, <1>3, <2>1, <2>3, <2>4
<1>5. ASSUME NEW p \in Indexers, LoadLatest(p)
      PROVE  TaskInv'
  <2>1. PICK l, a : l = LessonAt(p) /\ a = row[DocumentAt(p)]
    OBVIOUS
  <2>2. /\ Handling(p) /\ p \in Polling
        /\ index'[p] = [pc |-> 1, lesson |-> l, artifact |-> a]
        /\ \A q \in Indexers \ {p} : index'[q] = index[q]
        /\ Polling' = Polling
        /\ UNCHANGED <<row, events, cursor, batch, runs, alone>>
    BY <1>5, <2>1, LoadEffect
  <2>3. Task(p)'
    <3>1. Handling(p)' /\ LessonAt(p)' = l /\ index'[p].lesson = l
      BY <2>1, <2>2 DEF Handling, LessonAt, DocumentAt
    <3>. QED
      BY <1>3, <2>2, <3>1 DEF Task
  <2>4. \A q \in Indexers : Task(q)'
    BY <1>3, <2>2, <2>3, TaskElsewhere
  <2>. QED
    BY <1>2, <1>3, <2>2, <2>4
<1>6. ASSUME NEW p \in Indexers, RunStatement(p)
      PROVE  TaskInv'
  <2>1. /\ p \in Writing /\ Handling(p) /\ p \in Polling
        /\ \A q \in Indexers \ {p} : index'[q] = index[q] /\ batch'[q] = batch[q]
        /\ Polling' = Polling
        /\ \/ /\ Writing' = Writing /\ batch' = batch /\ index'[p].lesson = index[p].lesson
           \/ /\ Writing' = Writing \ {p}
              /\ batch'[p].event = batch[p].event + 1 /\ batch'[p].last = batch[p].last
        /\ UNCHANGED <<row, events, cursor, runs, alone>>
    BY <1>6, StatementEffect
  <2>2. batch[p].event \in Nat /\ batch[p].last \in Nat /\ batch[p].event <= batch[p].last
    BY <2>1, ProcessTypes DEF Handling
  <2>3. Task(p)'
    <3>1. CASE Writing' = Writing /\ batch' = batch /\ index'[p].lesson = index[p].lesson
      <4>1. (Handling(p)' <=> Handling(p)) /\ LessonAt(p)' = LessonAt(p)
        BY <2>1, <3>1 DEF Handling, LessonAt, DocumentAt
      <4>. QED
        BY <1>3, <2>1, <3>1, <4>1 DEF Task
    <3>2. CASE /\ Writing' = Writing \ {p}
               /\ batch'[p].event = batch[p].event + 1 /\ batch'[p].last = batch[p].last
      BY <1>3, <2>1, <2>2, <3>2 DEF Task
    <3>. QED
      BY <2>1, <3>1, <3>2
  <2>4. \A q \in Indexers : Task(q)'
    BY <1>3, <2>1, <2>3, TaskElsewhere
  <2>5. (\A q \in alone : Polling = {q} /\ cursor < batch[q].event /\ batch[q].last <= cursor + BatchSize)'
    BY <1>3, <2>1, <2>2
  <2>. QED
    BY <1>2, <1>3, <2>1, <2>4, <2>5
<1>7. ASSUME NEW p \in Indexers, Ended(p)
      PROVE  TaskInv'
  <2>1. p \in Polling /\ EndPoll(p) /\ (cursor' = cursor \/ cursor' = batch[p].last)
    BY <1>7, EndedEffect
  <2>2. /\ \A q \in Indexers \ {p} : index'[q] = index[q] /\ batch'[q] = batch[q]
        /\ Polling' = Polling \ {p} /\ Writing' = Writing \ {p} /\ alone' = alone \ {p}
        /\ UNCHANGED <<row, events, runs>>
    BY <2>1, EndEffect
  <2>3. Task(p)'
    BY <2>2 DEF Task
  <2>4. \A q \in Indexers : Task(q)'
    BY <1>3, <2>2, <2>3, TaskElsewhere
  <2>5. cursor' <= Len(events)
    BY <1>3, <2>1 DEF TaskInv
  <2>6. alone' = {}
    BY <1>3, <2>1, <2>2
  <2>. QED
    BY <1>2, <1>3, <2>2, <2>4, <2>5, <2>6
<1>8. ASSUME NEW p \in Indexers, GiveUp(p)
      PROVE  TaskInv'
  <2>1. /\ Handling(p) /\ p \in Polling
        /\ \A q \in Indexers \ {p} : index'[q] = index[q] /\ batch'[q] = batch[q]
        /\ batch'[p].event = batch[p].event + 1 /\ batch'[p].last = batch[p].last
        /\ Polling' = Polling /\ Writing' = Writing \ {p}
        /\ UNCHANGED <<row, events, cursor, runs, alone>>
    BY <1>8, GiveUpEffect
  <2>2. batch[p].event \in Nat /\ batch[p].last \in Nat /\ batch[p].event <= batch[p].last
    BY <2>1, ProcessTypes DEF Handling
  <2>3. Task(p)'
    BY <1>3, <2>1, <2>2 DEF Task
  <2>4. \A q \in Indexers : Task(q)'
    BY <1>3, <2>1, <2>3, TaskElsewhere
  <2>5. (\A q \in alone : Polling = {q} /\ cursor < batch[q].event /\ batch[q].last <= cursor + BatchSize)'
    BY <1>3, <2>1, <2>2
  <2>. QED
    BY <1>2, <1>3, <2>1, <2>4, <2>5
<1>9. ASSUME NEW d \in Documents, NEW from \in {"guard", "summarizer", "mapper", "nothing"},
             NEW guard \in GuardAnswers, NEW summary \in SummaryAnswers, NEW map \in MapAnswers,
             RunPipeline(d, from, guard, summary, map)
      PROVE  TaskInv'
  <2>1. /\ row[d] # None => row'[d] # None
        /\ \A c \in Documents \ {d} : row'[c] = row[c]
        /\ \/ events' = Append(events, d) /\ row'[d] # None
           \/ events' = events
        /\ runs' = runs + 1
        /\ Writing' = Writing /\ Polling' = Polling
        /\ UNCHANGED <<cursor, batch, index, alone>>
    BY <1>9, PipelineEffect
  <2>2. \A i \in DOMAIN events : row'[events[i]] # None
    BY <1>3, <2>1, EventTypes
  <2>3. \/ events' = events
        \/ /\ Len(events') = Len(events) + 1 /\ DOMAIN events' = 1 .. Len(events) + 1
           /\ events'[Len(events) + 1] = d /\ row'[d] # None
           /\ \A i \in DOMAIN events : events'[i] = events[i]
    BY <2>1, AppendEffect
  <2>4. cursor' <= Len(events') /\ Len(events') <= runs'
    BY <1>3, <2>1, <2>3
  <2>5. \A i \in DOMAIN events' : row'[events'[i]] # None
    <3>1. SUFFICES ASSUME NEW i \in DOMAIN events'
                   PROVE  row'[events'[i]] # None
      OBVIOUS
    <3>2. i \in DOMAIN events \/ (i = Len(events) + 1 /\ i \notin DOMAIN events)
      BY <1>3, <2>3, <3>1, EventTypes
    <3>. QED
      BY <2>2, <2>3, <3>1, <3>2
  <2>6. ASSUME NEW q \in Indexers
        PROVE  Task(q)'
    <3>1. Task(q)
      BY <1>3
    <3>2. q \in Polling => batch'[q].last <= Len(events')
      BY <1>3, <2>1, <2>3, <3>1, ProcessTypes DEF Task
    <3>3. Handling(q) => events'[batch[q].event] = events[batch[q].event]
      BY <2>3, HandlingTypes
    <3>4. Handling(q)' <=> Handling(q)
      BY <2>1 DEF Handling
    <3>5. Handling(q) => LessonAt(q)' = LessonAt(q)
      BY <2>1, <3>3 DEF LessonAt, DocumentAt
    <3>. QED
      BY <2>1, <3>1, <3>2, <3>4, <3>5 DEF Task
  <2>. QED
    BY <1>2, <1>3, <2>1, <2>4, <2>5, <2>6
<1>10. CASE UNCHANGED vars
  BY <1>10 DEF vars, history, TaskInv, Polling, Writing, Handling, LessonAt, DocumentAt
<1>. QED
  BY <1>4, <1>5, <1>6, <1>7, <1>8, <1>9, <1>10 DEF Next, Poll, Interrupt, Ended

\* Only a statement touches the graph.
LEMMA GraphSteps ==
  ASSUME TypeOK, TaskInv, [Next]_vars
  PROVE  graph' = graph \/ \E p \in Indexers : RunStatement(p)
<1>1. ASSUME NEW p \in Indexers, Ended(p)
      PROVE  graph' = graph
  BY <1>1, EndedEffect DEF EndPoll
<1>. QED
  BY <1>1 DEF Next, Poll, Interrupt, Ended, Fetch, LoadLatest, GiveUp, RunPipeline, vars

LEMMA AttachedStep ==
  ASSUME TypeOK, TaskInv, Attached(graph), [Next]_vars
  PROVE  Attached(graph')
<1>1. ASSUME NEW p \in Indexers, RunStatement(p)
      PROVE  Attached(graph')
  <2>1. /\ index[p].pc \in 1 .. Len(Steps) /\ index[p].lesson \in Lessons /\ index[p].artifact \in Artifacts
        /\ graph' = Execute(graph, Steps[index[p].pc], index[p].lesson, index[p].artifact)
    BY <1>1, StatementEffect
  <2>. QED
    BY <2>1, StatementAttached DEF TypeOK
<1>. QED
  BY <1>1, GraphSteps

\* What is being written, or has been, is shown.
ShownInv ==
  /\ \A l \in graph.lessons : shown[l] # None
  /\ \A p \in Writing : shown[index[p].lesson] # None

LEMMA ShownStep ==
  ASSUME TypeOK, TaskInv, ShownInv, [Next]_vars
  PROVE  ShownInv'
<1>1. graph.lessons \subseteq Lessons /\ Writing \subseteq Indexers
  BY ProcessTypes DEF TypeOK, Graphs
<1>2. ASSUME \A q \in Writing' : q \in Writing /\ index'[q].lesson = index[q].lesson,
             UNCHANGED <<graph, shown>>
      PROVE  ShownInv'
  BY <1>2 DEF ShownInv
<1>3. ASSUME NEW p \in Indexers, LoadLatest(p)
      PROVE  ShownInv'
  <2>1. PICK l, a : l = LessonAt(p) /\ a = row[DocumentAt(p)]
    OBVIOUS
  <2>2. /\ l \in Lessons /\ a \in Artifacts
        /\ index'[p] = [pc |-> 1, lesson |-> l, artifact |-> a]
        /\ \A q \in Indexers \ {p} : index'[q] = index[q]
        /\ Writing' = Writing \cup {p}
        /\ shown'[l] = a /\ \A m \in Lessons \ {l} : shown'[m] = shown[m]
        /\ graph' = graph
    BY <1>3, <2>1, LoadEffect
  <2>3. shown'[l] # None
    BY <2>2, ProjectionAssumption DEF ProjectionAssumption
  <2>4. \A m \in Lessons : shown[m] # None => shown'[m] # None
    BY <2>2, <2>3
  <2>5. index'[p].lesson = l
    BY <2>2
  <2>6. \A q \in Writing \ {p} : index'[q].lesson = index[q].lesson /\ index[q].lesson \in Lessons
    BY <1>1, <2>2, ProcessTypes
  <2>. QED
    BY <1>1, <2>2, <2>3, <2>4, <2>5, <2>6 DEF ShownInv
<1>4. ASSUME NEW p \in Indexers, RunStatement(p)
      PROVE  ShownInv'
  <2>1. /\ p \in Writing /\ index[p].pc \in 1 .. Len(Steps)
        /\ index[p].lesson \in Lessons /\ index[p].artifact \in Artifacts
        /\ graph' = Execute(graph, Steps[index[p].pc], index[p].lesson, index[p].artifact)
        /\ \A q \in Indexers \ {p} : index'[q] = index[q]
        /\ \/ Writing' = Writing /\ index'[p].lesson = index[p].lesson
           \/ Writing' = Writing \ {p}
        /\ shown' = shown
    BY <1>4, StatementEffect
  <2>2. graph'.lessons \subseteq graph.lessons \cup {index[p].lesson}
    BY <2>1, StatementType DEF TypeOK
  <2>. QED
    BY <1>1, <2>1, <2>2 DEF ShownInv
<1>5. ASSUME NEW p \in Indexers, Ended(p)
      PROVE  ShownInv'
  <2>1. p \in Polling /\ EndPoll(p)
    BY <1>5, EndedEffect
  <2>2. /\ \A q \in Indexers \ {p} : index'[q] = index[q]
        /\ Writing' = Writing \ {p} /\ UNCHANGED <<graph, shown>>
    BY <2>1, EndEffect
  <2>. QED
    BY <1>1, <1>2, <2>2
<1>6. ASSUME NEW p \in Indexers, GiveUp(p)
      PROVE  ShownInv'
  <2>1. /\ \A q \in Indexers \ {p} : index'[q] = index[q]
        /\ Writing' = Writing \ {p} /\ UNCHANGED <<graph, shown>>
    BY <1>6, GiveUpEffect
  <2>. QED
    BY <1>1, <1>2, <2>1
<1>7. CASE index' = index /\ graph' = graph /\ shown' = shown
  BY <1>7 DEF ShownInv, Writing
<1>. QED
  BY <1>3, <1>4, <1>5, <1>6, <1>7
     DEF Next, Poll, Interrupt, Ended, Fetch, RunPipeline, vars, history

-----------------------------------------------------------------------------
(* A lesson whose last rewriting has met no other process's.                *)

Rewriting(l, p) ==
  /\ Writing = {p} /\ index[p].lesson = l
  /\ index[p].artifact = shown[l] /\ Stage(graph, l, shown[l], index[p].pc)

Resting(l) ==
  /\ \A p \in Writing : index[p].lesson # l
  /\ l \in cut \/ Stage(graph, l, shown[l], 10)

LessonInv ==
  \A l \in Lessons \ mixed : shown[l] # None => (\E p \in Writing : Rewriting(l, p)) \/ Resting(l)

LEMMA LessonLoad ==
  ASSUME TypeOK, TaskInv, LessonInv, NEW p \in Indexers, LoadLatest(p)
  PROVE  LessonInv'
<1>1. PICK k, a : k = LessonAt(p) /\ a = row[DocumentAt(p)]
  OBVIOUS
<1>2. /\ index'[p] = [pc |-> 1, lesson |-> k, artifact |-> a]
      /\ \A q \in Indexers \ {p} : index'[q] = index[q]
      /\ p \notin Writing /\ Writing' = Writing \cup {p} /\ k \in Lessons
      /\ shown'[k] = a /\ \A m \in Lessons \ {k} : shown'[m] = shown[m]
      /\ mixed' = IF Writing = {} THEN mixed \ {k} ELSE mixed \cup {k} \cup {index[q].lesson : q \in Writing}
      /\ cut' = cut \ {k} /\ graph' = graph
  BY <1>1, LoadEffect
<1>3. index'[p].lesson = k /\ index'[p].pc = 1 /\ index'[p].artifact = shown'[k]
  BY <1>2
<1>4. \A q \in Writing : index'[q] = index[q]
  BY <1>2, ProcessTypes
<1>5. ASSUME k \notin mixed'
      PROVE  Rewriting(k, p)'
  <2>1. Writing' = {p}
    BY <1>2, <1>5
  <2>2. Stage(graph', k, shown'[k], index'[p].pc)
    BY <1>3 DEF Stage
  <2>. QED
    BY <1>3, <2>1, <2>2 DEF Rewriting
<1>6. ASSUME NEW l \in Lessons, l # k, l \notin mixed', shown'[l] # None
      PROVE  Resting(l)'
  <2>1. l \notin mixed /\ shown[l] # None /\ \A q \in Writing : index[q].lesson # l
    BY <1>2, <1>6
  <2>2. Resting(l)
    BY <2>1 DEF LessonInv, Rewriting
  <2>3. \A q \in Writing' : index'[q].lesson # l
    BY <1>2, <1>3, <1>4, <1>6, <2>1
  <2>. QED
    BY <1>2, <1>6, <2>2, <2>3 DEF Resting
<1>. QED
  BY <1>2, <1>5, <1>6 DEF LessonInv

LEMMA LessonStatement ==
  ASSUME TypeOK, TaskInv, LessonInv, NEW p \in Indexers, RunStatement(p)
  PROVE  LessonInv'
<1>. DEFINE k == index[p].lesson
            a == index[p].artifact
            n == index[p].pc
<1>1. /\ p \in Writing /\ n \in 1 .. Len(Steps) /\ k \in Lessons /\ a \in Artifacts
      /\ graph' = Execute(graph, Steps[n], k, a)
      /\ \A q \in Indexers \ {p} : index'[q] = index[q]
      /\ \/ /\ Writing' = Writing
            /\ index'[p].pc = n + 1 /\ index'[p].lesson = k /\ index'[p].artifact = a
         \/ n = Len(Steps) /\ Writing' = Writing \ {p}
      /\ UNCHANGED <<shown, mixed, cut>>
  BY StatementEffect
<1>2. graph \in Graphs /\ Writing \subseteq Indexers
  BY ProcessTypes DEF TypeOK
<1>3. \A q \in Writing' : q \in Writing /\ index'[q].lesson = index[q].lesson
  BY <1>1, <1>2
<1>4. ASSUME NEW l \in Lessons \ mixed, shown[l] # None
      PROVE  ((\E q \in Writing : Rewriting(l, q)) \/ Resting(l))'
  <2>1. CASE \E q \in Writing : Rewriting(l, q)
    <3>1. Rewriting(l, p)
      BY <1>1, <2>1 DEF Rewriting
    <3>2. l = k /\ shown[l] = a /\ Writing = {p} /\ Stage(graph, k, a, n)
      BY <3>1 DEF Rewriting
    <3>3. Stage(graph', k, a, n + 1)
      BY <1>1, <1>2, <3>2, StatementOwn
    <3>4. CASE Writing' = Writing /\ index'[p].pc = n + 1 /\ index'[p].lesson = k /\ index'[p].artifact = a
      <4>1. Rewriting(l, p)'
        BY <1>1, <3>2, <3>3, <3>4 DEF Rewriting
      <4>. QED
        BY <1>1, <3>4, <4>1
    <3>5. CASE n = Len(Steps) /\ Writing' = Writing \ {p}
      <4>1. n + 1 = 10
        BY <3>5 DEF Steps
      <4>2. Resting(l)'
        BY <1>1, <3>2, <3>3, <3>5, <4>1 DEF Resting
      <4>. QED
        BY <4>2
    <3>. QED
      BY <1>1, <3>4, <3>5
  <2>2. CASE Resting(l)
    <3>1. l # k /\ l \in Lessons
      BY <1>1, <2>2 DEF Resting
    <3>2. shown[l] \in Artifacts
      BY <1>4 DEF TypeOK
    <3>3. Stage(graph, l, shown[l], 10) => Stage(graph', l, shown[l], 10)
      BY <1>1, <1>2, <3>1, <3>2, StatementElsewhere
    <3>4. Resting(l)'
      BY <1>1, <1>3, <2>2, <3>3 DEF Resting
    <3>. QED
      BY <3>4
  <2>. QED
    BY <1>4, <2>1, <2>2 DEF LessonInv
<1>. QED
  BY <1>1, <1>4 DEF LessonInv

\* A process stops to write: what it was rewriting is cut.
LEMMA LessonStop ==
  ASSUME LessonInv, Writing \subseteq Indexers, NEW p \in Indexers,
         \A q \in Indexers \ {p} : index'[q] = index[q], Writing' = Writing \ {p},
         cut \subseteq cut', p \in Writing => index[p].lesson \in cut',
         UNCHANGED <<graph, shown, mixed>>
  PROVE  LessonInv'
<1>1. ASSUME NEW l \in Lessons \ mixed, shown[l] # None
      PROVE  ((\E q \in Writing : Rewriting(l, q)) \/ Resting(l))'
  <2>1. CASE \E q \in Writing : Rewriting(l, q)
    <3>1. PICK q \in Writing : Rewriting(l, q)
      BY <2>1
    <3>2. CASE q = p
      BY <3>1, <3>2 DEF Rewriting, Resting
    <3>3. CASE q # p
      <4>1. Writing' = Writing /\ index'[q] = index[q]
        BY <3>1, <3>3 DEF Rewriting
      <4>2. Rewriting(l, q)'
        BY <3>1, <4>1 DEF Rewriting
      <4>. QED
        BY <3>1, <4>1, <4>2
    <3>. QED
      BY <3>2, <3>3
  <2>2. CASE Resting(l)
    <3>1. Resting(l)'
      BY <2>2 DEF Resting
    <3>. QED
      BY <3>1
  <2>. QED
    BY <1>1, <2>1, <2>2 DEF LessonInv
<1>. QED
  BY <1>1 DEF LessonInv

LEMMA LessonStep ==
  ASSUME TypeOK, TaskInv, LessonInv, [Next]_vars
  PROVE  LessonInv'
<1>1. Writing \subseteq Indexers
  BY ProcessTypes
<1>2. ASSUME NEW p \in Indexers, Ended(p)
      PROVE  LessonInv'
  <2>1. p \in Polling /\ EndPoll(p)
    BY <1>2, EndedEffect
  <2>2. /\ \A q \in Indexers \ {p} : index'[q] = index[q]
        /\ Writing' = Writing \ {p} /\ cut \subseteq cut' /\ UNCHANGED <<graph, shown, mixed>>
        /\ p \in Writing => index[p].lesson \in cut'
    BY <2>1, EndEffect
  <2>. QED
    BY <1>1, <2>2, LessonStop
<1>3. ASSUME NEW p \in Indexers, GiveUp(p)
      PROVE  LessonInv'
  <2>1. /\ \A q \in Indexers \ {p} : index'[q] = index[q]
        /\ Writing' = Writing \ {p} /\ cut \subseteq cut' /\ UNCHANGED <<graph, shown, mixed>>
        /\ p \in Writing => index[p].lesson \in cut'
    BY <1>3, GiveUpEffect
  <2>. QED
    BY <1>1, <2>1, LessonStop
<1>4. CASE UNCHANGED <<index, graph, shown, mixed, cut>>
  BY <1>4 DEF LessonInv, Rewriting, Resting, Writing
<1>. QED
  BY <1>2, <1>3, <1>4, LessonLoad, LessonStatement
     DEF Next, Poll, Interrupt, Ended, Fetch, RunPipeline, vars, history

-----------------------------------------------------------------------------
(* The whole graph, once every lesson was last rewritten alone and whole.   *)

WholeInv ==
  mixed = {} /\ cut = {} =>
    \/ Writing = {} /\ GraphStage(graph, None, 10)
    \/ \E p \in Writing : Writing = {p} /\ GraphStage(graph, index[p].artifact, index[p].pc)

LEMMA WholeStep ==
  ASSUME TypeOK, TaskInv, ShownInv, LessonInv, WholeInv, [Next]_vars
  PROVE  WholeInv'
<1>1. Writing \subseteq Indexers
  BY ProcessTypes
<1>2. ASSUME NEW p \in Indexers, LoadLatest(p)
      PROVE  WholeInv'
  <2>1. PICK l, a : l = LessonAt(p) /\ a = row[DocumentAt(p)]
    OBVIOUS
  <2>2. /\ index'[p] = [pc |-> 1, lesson |-> l, artifact |-> a]
        /\ Writing' = Writing \cup {p}
        /\ mixed' = IF Writing = {} THEN mixed \ {l} ELSE mixed \cup {l} \cup {index[q].lesson : q \in Writing}
    BY <1>2, <2>1, LoadEffect
  <2>3. GraphStage(graph', index'[p].artifact, index'[p].pc)
    BY <2>2 DEF GraphStage
  <2>4. mixed' = {} => Writing' = {p}
    BY <2>2
  <2>. QED
    BY <2>2, <2>3, <2>4 DEF WholeInv
<1>3. ASSUME NEW p \in Indexers, RunStatement(p), mixed = {}, cut = {}
      PROVE  WholeInv'
  <2>. DEFINE l == index[p].lesson
              a == index[p].artifact
              n == index[p].pc
  <2>1. /\ p \in Writing /\ n \in 1 .. Len(Steps) /\ l \in Lessons /\ a \in Artifacts
        /\ graph' = Execute(graph, Steps[n], l, a)
        /\ \/ Writing' = Writing /\ index'[p].pc = n + 1 /\ index'[p].artifact = a
           \/ n = Len(Steps) /\ Writing' = Writing \ {p}
    BY <1>3, StatementEffect
  <2>2. Writing = {p} /\ GraphStage(graph, a, n)
    BY <1>3, <2>1 DEF WholeInv
  <2>3. shown[l] # None
    BY <2>1 DEF ShownInv
  <2>4. Stage(graph, l, a, n)
    BY <1>3, <2>1, <2>2, <2>3 DEF LessonInv, Rewriting, Resting
  <2>5. GraphStage(graph', a, n + 1)
    BY <2>1, <2>2, <2>4, StatementWhole DEF TypeOK
  <2>6. CASE Writing' = Writing /\ index'[p].pc = n + 1 /\ index'[p].artifact = a
    BY <2>1, <2>2, <2>5, <2>6 DEF WholeInv
  <2>7. CASE n = Len(Steps) /\ Writing' = Writing \ {p}
    <3>1. n + 1 = 10
      BY <2>7 DEF Steps
    <3>2. GraphStage(graph', None, 10)
      BY <2>5, <3>1 DEF GraphStage
    <3>. QED
      BY <2>2, <2>7, <3>2 DEF WholeInv
  <2>. QED
    BY <2>1, <2>6, <2>7
<1>4. ASSUME NEW p \in Indexers, Ended(p) \/ GiveUp(p)
      PROVE  WholeInv'
  <2>1. /\ p \in Indexers
        /\ \A q \in Indexers \ {p} : index'[q] = index[q]
        /\ Writing' = Writing \ {p} /\ UNCHANGED <<graph, mixed>>
        /\ cut \subseteq cut' /\ (p \in Writing => index[p].lesson \in cut')
    <3>1. ASSUME Ended(p)
          PROVE  p \in Polling /\ EndPoll(p)
      BY <3>1, EndedEffect
    <3>. QED
      BY <1>4, <3>1, EndEffect, GiveUpEffect
  <2>2. CASE p \in Writing
    BY <2>1, <2>2 DEF WholeInv
  <2>3. CASE p \notin Writing
    <3>1. Writing' = Writing /\ \A q \in Writing : index'[q] = index[q]
      BY <1>1, <2>1, <2>3
    <3>2. cut' = {} => cut = {}
      BY <2>1
    <3>. QED
      BY <2>1, <3>1, <3>2 DEF WholeInv
  <2>. QED
    BY <2>2, <2>3
<1>5. ASSUME NEW p \in Indexers, RunStatement(p), ~(mixed = {} /\ cut = {})
      PROVE  WholeInv'
  BY <1>5, StatementEffect DEF WholeInv
<1>6. CASE UNCHANGED <<index, graph, mixed, cut>>
  BY <1>6 DEF WholeInv, Writing
<1>. QED
  BY <1>2, <1>3, <1>4, <1>5, <1>6
     DEF Next, Poll, Interrupt, Ended, Fetch, RunPipeline, vars, history

-----------------------------------------------------------------------------
(* A rewriting cut short is repeated.                                       *)

\* A process writes in a poll that has met no other's, or its lesson is astray.
WriterInv == \A p \in Writing : p \in alone \/ index[p].lesson \in astray

LEMMA WriterElsewhere ==
  ASSUME WriterInv, \A q \in Writing' : q \in Writing /\ index'[q].lesson = index[q].lesson,
         astray \subseteq astray', \A q \in Writing' : q \in alone => q \in alone'
  PROVE  WriterInv'
BY DEF WriterInv

LEMMA WriterStep ==
  ASSUME TypeOK, TaskInv, WriterInv, [Next]_vars
  PROVE  WriterInv'
<1>1. Writing \subseteq Indexers /\ \A q \in Writing : q \in Polling /\ Handling(q) /\ index[q].lesson = LessonAt(q)
  BY ProcessTypes DEF TaskInv, Handling
<1>2. ASSUME NEW p \in Indexers, Fetch(p)
      PROVE  WriterInv'
  <2>1. /\ Writing' = Writing /\ astray \subseteq astray'
        /\ \A q \in alone : \A i \in cursor + 1 .. batch[q].last : LessonOf[events[i]] \in astray'
        /\ index' = index
    BY <1>2, FetchEffect
  <2>2. ASSUME NEW q \in Writing, q \in alone
        PROVE  index[q].lesson \in astray'
    <3>1. /\ cursor < batch[q].event /\ batch[q].event <= batch[q].last
          /\ index[q].lesson = LessonOf[events[batch[q].event]]
      BY <1>1, <2>2 DEF TaskInv, Handling, LessonAt, DocumentAt
    <3>2. cursor \in Nat /\ batch[q].event \in Nat /\ batch[q].last \in Nat
      BY <1>1, <2>2, ProcessTypes, EventTypes
    <3>3. batch[q].event \in cursor + 1 .. batch[q].last
      BY <3>1, <3>2
    <3>. QED
      BY <2>1, <2>2, <3>1, <3>3
  <2>. QED
    BY <2>1, <2>2 DEF WriterInv
<1>3. ASSUME NEW p \in Indexers, LoadLatest(p)
      PROVE  WriterInv'
  <2>1. PICK l, a : l = LessonAt(p) /\ a = row[DocumentAt(p)]
    OBVIOUS
  <2>2. /\ p \in Polling
        /\ index'[p] = [pc |-> 1, lesson |-> l, artifact |-> a]
        /\ \A q \in Indexers \ {p} : index'[q] = index[q]
        /\ p \notin Writing /\ Writing' = Writing \cup {p} /\ alone' = alone
        /\ astray' = IF p \in alone THEN astray \ {l} ELSE astray \cup {l}
    BY <1>3, <2>1, LoadEffect
  <2>3. index'[p].lesson = l
    BY <2>2
  <2>4. CASE p \in alone
    <3>1. Polling = {p}
      BY <2>4 DEF TaskInv
    <3>2. Writing' = {p}
      BY <1>1, <2>2, <3>1
    <3>. QED
      BY <2>2, <2>4, <3>2 DEF WriterInv
  <2>5. CASE p \notin alone
    BY <1>1, <2>2, <2>3, <2>5 DEF WriterInv
  <2>. QED
    BY <2>4, <2>5
<1>4. ASSUME NEW p \in Indexers, RunStatement(p)
      PROVE  WriterInv'
  <2>1. /\ \A q \in Indexers \ {p} : index'[q] = index[q]
        /\ \/ Writing' = Writing /\ index'[p].lesson = index[p].lesson
           \/ Writing' = Writing \ {p}
        /\ alone' = alone /\ astray' = astray
    BY <1>4, StatementEffect
  <2>2. \A q \in Writing' : q \in Writing /\ index'[q].lesson = index[q].lesson
    BY <1>1, <2>1
  <2>. QED
    BY <2>1, <2>2, WriterElsewhere
<1>5. ASSUME NEW p \in Indexers, Ended(p)
      PROVE  WriterInv'
  <2>1. p \in Polling /\ EndPoll(p)
    BY <1>5, EndedEffect
  <2>2. /\ \A q \in Indexers \ {p} : index'[q] = index[q]
        /\ Writing' = Writing \ {p} /\ alone' = alone \ {p} /\ astray' = astray
    BY <2>1, EndEffect
  <2>3. \A q \in Writing' : q \in Writing /\ index'[q].lesson = index[q].lesson
    BY <1>1, <2>2
  <2>. QED
    BY <2>2, <2>3, WriterElsewhere
<1>6. ASSUME NEW p \in Indexers, GiveUp(p)
      PROVE  WriterInv'
  <2>1. /\ \A q \in Indexers \ {p} : index'[q] = index[q]
        /\ Writing' = Writing \ {p} /\ alone' = alone /\ astray \subseteq astray'
    BY <1>6, GiveUpEffect
  <2>2. \A q \in Writing' : q \in Writing /\ index'[q].lesson = index[q].lesson
    BY <1>1, <2>1
  <2>. QED
    BY <2>1, <2>2, WriterElsewhere
<1>7. CASE UNCHANGED <<index, alone, astray>>
  BY <1>7 DEF WriterInv, Writing
<1>. QED
  BY <1>2, <1>3, <1>4, <1>5, <1>6, <1>7
     DEF Next, Poll, Interrupt, Ended, RunPipeline, vars, history

\* An event of the lesson l that every poll under way has fetched and that none has
\* begun to handle.
Due(l, e) ==
  /\ cursor < e /\ e <= Len(events) /\ e <= cursor + BatchSize /\ LessonOf[events[e]] = l
  /\ \A q \in Polling : /\ batch[q].event <= e /\ e <= batch[q].last
                        /\ batch[q].event = e => q \notin Writing

CutInv == \A l \in cut \ astray : \E e \in DOMAIN events : Due(l, e)

LEMMA CutStep ==
  ASSUME TypeOK, TaskInv, WriterInv, CutInv, [Next]_vars
  PROVE  CutInv'
<1>1. /\ cursor \in Nat /\ Len(events) \in Nat /\ DOMAIN events = 1 .. Len(events)
      /\ BatchSize \in Nat /\ Polling \subseteq Indexers
      /\ \A q \in Polling : batch[q].event \in Nat \ {0} /\ batch[q].last \in Nat
  BY EventTypes, ProcessTypes, ProjectionAssumption DEF ProjectionAssumption
<1>2. ASSUME NEW p \in Indexers, Fetch(p)
      PROVE  CutInv'
  <2>1. /\ p \notin Polling /\ p \notin Writing
        /\ batch'[p].event = cursor + 1
        /\ cursor + BatchSize < Len(events) => batch'[p].last = cursor + BatchSize
        /\ cursor + BatchSize >= Len(events) => batch'[p].last = Len(events)
        /\ \A q \in Indexers \ {p} : batch'[q] = batch[q]
        /\ Polling' = Polling \cup {p} /\ Writing' = Writing
        /\ astray \subseteq astray'
        /\ UNCHANGED <<events, cursor, cut>>
    BY <1>2, FetchEffect
  <2>2. ASSUME NEW l, NEW e \in DOMAIN events, Due(l, e)
        PROVE  Due(l, e)'
    <3>1. batch'[p].event <= e /\ e <= batch'[p].last
      BY <1>1, <2>1, <2>2 DEF Due
    <3>. QED
      BY <1>1, <2>1, <2>2, <3>1 DEF Due
  <2>. QED
    BY <2>1, <2>2 DEF CutInv
<1>3. ASSUME NEW p \in Indexers, LoadLatest(p)
      PROVE  CutInv'
  <2>1. PICK k, a : k = LessonAt(p) /\ a = row[DocumentAt(p)]
    OBVIOUS
  <2>2. /\ Writing' = Writing \cup {p} /\ Polling' = Polling
        /\ cut' = cut \ {k}
        /\ astray' = IF p \in alone THEN astray \ {k} ELSE astray \cup {k}
        /\ UNCHANGED <<events, cursor, batch>>
    BY <1>3, <2>1, LoadEffect
  <2>3. ASSUME NEW l, l # k, NEW e \in DOMAIN events, Due(l, e)
        PROVE  Due(l, e)'
    <3>1. batch[p].event # e
      BY <2>1, <2>3 DEF Due, LessonAt, DocumentAt
    <3>. QED
      BY <2>2, <2>3, <3>1 DEF Due
  <2>. QED
    BY <2>2, <2>3 DEF CutInv
<1>4. ASSUME NEW p \in Indexers, RunStatement(p)
      PROVE  CutInv'
  <2>1. /\ p \in Writing /\ p \in Polling
        /\ \A q \in Indexers \ {p} : batch'[q] = batch[q]
        /\ Polling' = Polling
        /\ \/ Writing' = Writing /\ batch' = batch
           \/ /\ Writing' = Writing \ {p}
              /\ batch'[p].event = batch[p].event + 1 /\ batch'[p].last = batch[p].last
        /\ UNCHANGED <<events, cursor, cut, astray>>
    BY <1>4, StatementEffect
  <2>2. ASSUME NEW l, NEW e \in DOMAIN events, Due(l, e)
        PROVE  Due(l, e)'
    <3>1. batch[p].event + 1 <= e /\ e <= batch[p].last
      BY <1>1, <2>1, <2>2 DEF Due
    <3>2. CASE Writing' = Writing /\ batch' = batch
      BY <2>1, <2>2, <3>2 DEF Due
    <3>3. CASE /\ Writing' = Writing \ {p}
               /\ batch'[p].event = batch[p].event + 1 /\ batch'[p].last = batch[p].last
      BY <1>1, <2>1, <2>2, <3>1, <3>3 DEF Due
    <3>. QED
      BY <2>1, <3>2, <3>3
  <2>. QED
    BY <2>1, <2>2 DEF CutInv
<1>5. ASSUME NEW p \in Indexers, Ended(p)
      PROVE  CutInv'
  <2>1. /\ p \in Polling /\ EndPoll(p)
        /\ \/ cursor' = cursor
           \/ cursor' = batch[p].last /\ batch[p].event = batch[p].last + 1 /\ p \notin Writing
    BY <1>5, EndedEffect
  <2>2. /\ \A q \in Indexers \ {p} : batch'[q] = batch[q]
        /\ Polling' = Polling \ {p} /\ Writing' = Writing \ {p}
        /\ p \in Writing => cut' = cut \cup {index[p].lesson}
        /\ p \notin Writing => cut' = cut
        /\ UNCHANGED <<events, astray>>
    BY <2>1, EndEffect
  <2>3. CASE cursor' = cursor
    <3>1. ASSUME NEW l, NEW e \in DOMAIN events, Due(l, e)
          PROVE  Due(l, e)'
      BY <1>1, <2>2, <2>3, <3>1 DEF Due
    <3>2. ASSUME NEW l, l = index[p].lesson, p \in Writing, l \notin astray
          PROVE  \E e \in DOMAIN events : Due(l, e)'
      <4>1. PICK e \in DOMAIN events : e = batch[p].event
        BY <3>2, HandlingTypes DEF TaskInv
      <4>2. /\ Polling = {p} /\ cursor < e /\ batch[p].last <= cursor + BatchSize
            /\ e <= batch[p].last /\ batch[p].last <= Len(events)
            /\ LessonOf[events[e]] = l
        BY <3>2, <4>1 DEF WriterInv, TaskInv, Handling, LessonAt, DocumentAt
      <4>3. e <= cursor + BatchSize /\ e <= Len(events) /\ Polling' = {}
        BY <1>1, <2>1, <2>2, <4>1, <4>2
      <4>4. Due(l, e)'
        BY <2>2, <2>3, <4>2, <4>3 DEF Due
      <4>. QED
        BY <4>4
    <3>3. ASSUME NEW l \in cut' \ astray'
          PROVE  \E e \in DOMAIN events' : Due(l, e)'
      <4>1. l \notin astray /\ (l \in cut \/ (p \in Writing /\ l = index[p].lesson))
        BY <2>2, <3>3
      <4>2. CASE l \in cut
        BY <2>2, <3>1, <4>1, <4>2 DEF CutInv
      <4>3. CASE p \in Writing /\ l = index[p].lesson
        BY <2>2, <3>2, <4>1, <4>3
      <4>. QED
        BY <4>1, <4>2, <4>3
    <3>. QED
      BY <3>3 DEF CutInv
  <2>4. CASE batch[p].event = batch[p].last + 1 /\ p \notin Writing
    <3>1. ASSUME NEW l, NEW e \in DOMAIN events, Due(l, e)
          PROVE  FALSE
      BY <1>1, <2>1, <2>4, <3>1 DEF Due
    <3>. QED
      BY <2>2, <2>4, <3>1 DEF CutInv
  <2>. QED
    BY <2>1, <2>3, <2>4
<1>6. ASSUME NEW p \in Indexers, GiveUp(p)
      PROVE  CutInv'
  <2>1. /\ Handling(p) /\ p \in Polling
        /\ \A q \in Indexers \ {p} : batch'[q] = batch[q]
        /\ batch'[p].event = batch[p].event + 1 /\ batch'[p].last = batch[p].last
        /\ Polling' = Polling /\ Writing' = Writing \ {p}
        /\ p \in Writing => cut' = cut \cup {index[p].lesson}
        /\ p \notin Writing => cut' = cut
        /\ astray' = astray \cup {LessonAt(p)}
        /\ UNCHANGED <<events, cursor>>
    BY <1>6, GiveUpEffect
  <2>2. p \in Writing => index[p].lesson = LessonAt(p)
    BY DEF TaskInv
  <2>3. ASSUME NEW l, l # LessonAt(p), NEW e \in DOMAIN events, Due(l, e)
        PROVE  Due(l, e)'
    <3>1. batch[p].event # e
      BY <2>3 DEF Due, LessonAt, DocumentAt
    <3>2. batch[p].event + 1 <= e /\ e <= batch[p].last
      BY <1>1, <2>1, <2>3, <3>1 DEF Due
    <3>. QED
      BY <1>1, <2>1, <2>3, <3>2 DEF Due
  <2>. QED
    BY <2>1, <2>2, <2>3 DEF CutInv
<1>7. ASSUME NEW d \in Documents, NEW from \in {"guard", "summarizer", "mapper", "nothing"},
             NEW guard \in GuardAnswers, NEW summary \in SummaryAnswers, NEW map \in MapAnswers,
             RunPipeline(d, from, guard, summary, map)
      PROVE  CutInv'
  <2>1. /\ events' = Append(events, d) \/ events' = events
        /\ Writing' = Writing /\ Polling' = Polling
        /\ UNCHANGED <<cursor, batch, cut, astray>>
    BY <1>7, PipelineEffect
  <2>2. \A e \in DOMAIN events : e \in DOMAIN events' /\ events'[e] = events[e] /\ e <= Len(events')
    BY <1>1, <2>1, AppendEffect
  <2>3. ASSUME NEW l, NEW e \in DOMAIN events, Due(l, e)
        PROVE  Due(l, e)'
    BY <2>1, <2>2, <2>3 DEF Due
  <2>. QED
    BY <2>1, <2>2, <2>3 DEF CutInv
<1>8. CASE UNCHANGED vars
  BY <1>8 DEF vars, history, CutInv, Due, Polling, Writing
<1>. QED
  BY <1>2, <1>3, <1>4, <1>5, <1>6, <1>7, <1>8 DEF Next, Poll, Interrupt, Ended

-----------------------------------------------------------------------------
(* A lesson shows the last run's artifact.                                  *)

\* The event i has been indexed, is being indexed or will not be any more.
Passed(i) ==
  \/ i <= cursor
  \/ \E p \in Polling : i < batch[p].event \/ (i = batch[p].event /\ p \in Writing)

Last(i) == \A j \in i + 1 .. Len(events) : LessonOf[events[j]] # LessonOf[events[i]]

Fresh(i) ==
  \/ shown[LessonOf[events[i]]] = row[events[i]]
  \/ events[i] \in stale
  \/ LessonOf[events[i]] \in astray

FreshInv == \A i \in DOMAIN events : Passed(i) /\ Last(i) => Fresh(i)

LEMMA FreshStep ==
  ASSUME TypeOK, TaskInv, FreshInv, [Next]_vars
  PROVE  FreshInv'
<1>1. /\ cursor \in Nat /\ Len(events) \in Nat /\ DOMAIN events = 1 .. Len(events)
      /\ cursor <= Len(events) /\ Polling \subseteq Indexers /\ Writing \subseteq Indexers
      /\ \A q \in Polling : batch[q].event \in Nat \ {0} /\ batch[q].last \in Nat
  BY EventTypes, ProcessTypes DEF TaskInv
<1>2. ASSUME events' = events, \A i \in DOMAIN events : Passed(i)' => Passed(i),
             UNCHANGED <<row, shown, stale>>, astray \subseteq astray'
      PROVE  FreshInv'
  BY <1>2 DEF FreshInv, Fresh, Last
<1>3. ASSUME NEW p \in Indexers, Fetch(p)
      PROVE  FreshInv'
  <2>1. /\ p \notin Writing
        /\ batch'[p].event = cursor + 1
        /\ \A q \in Indexers \ {p} : batch'[q] = batch[q]
        /\ Polling' = Polling \cup {p} /\ Writing' = Writing
        /\ astray \subseteq astray'
        /\ UNCHANGED <<row, events, cursor, shown, stale>>
    BY <1>3, FetchEffect
  <2>2. ASSUME NEW i \in DOMAIN events, Passed(i)'
        PROVE  Passed(i)
    <3>1. i < batch'[p].event => i <= cursor
      BY <1>1, <2>1
    <3>. QED
      BY <1>1, <2>1, <2>2, <3>1 DEF Passed
  <2>. QED
    BY <1>2, <2>1, <2>2
<1>4. ASSUME NEW p \in Indexers, LoadLatest(p)
      PROVE  FreshInv'
  <2>1. PICK l, a : l = LessonAt(p) /\ a = row[DocumentAt(p)]
    OBVIOUS
  <2>2. /\ Handling(p) /\ l \in Lessons
        /\ Writing' = Writing \cup {p} /\ Polling' = Polling
        /\ shown'[l] = a /\ \A m \in Lessons \ {l} : shown'[m] = shown[m]
        /\ astray' = IF p \in alone THEN astray \ {l} ELSE astray \cup {l}
        /\ UNCHANGED <<row, events, cursor, batch, stale>>
    <3>1. /\ Handling(p) /\ l \in Lessons
          /\ Writing' = Writing \cup {p} /\ Polling' = Polling
          /\ astray' = IF p \in alone THEN astray \ {l} ELSE astray \cup {l}
          /\ UNCHANGED <<row, events, cursor, batch, stale>>
      BY <1>4, <2>1, LoadEffect
    <3>2. shown' = [shown EXCEPT ![l] = a]
      BY <1>4, <2>1 DEF LoadLatest
    <3>. QED
      BY <3>1, <3>2 DEF TypeOK
  <2>3. PICK e \in DOMAIN events : e = batch[p].event /\ l = LessonOf[events[e]] /\ a = row[events[e]]
    BY <2>1, <2>2, HandlingTypes DEF LessonAt, DocumentAt
  <2>4. ASSUME NEW i \in DOMAIN events, Passed(i)', Last(i)'
        PROVE  Fresh(i)'
    <3>1. Passed(i) \/ i = e
      BY <2>2, <2>3, <2>4 DEF Passed
    <3>2. Last(i)
      BY <2>2, <2>4 DEF Last
    <3>3. CASE i = e
      BY <2>2, <2>3, <3>3 DEF Fresh
    <3>4. CASE i # e /\ LessonOf[events[i]] = l
      <4>1. ~(i < e)
        <5>1. i < e => e \in i + 1 .. Len(events)
          BY <1>1
        <5>. QED
          BY <2>3, <3>2, <3>4, <5>1 DEF Last
      <4>2. e < i
        BY <1>1, <3>4, <4>1
      <4>3. p \notin alone
        <5>1. SUFFICES ASSUME p \in alone PROVE FALSE
          OBVIOUS
        <5>2. Polling = {p} /\ cursor < e
          BY <2>3, <5>1 DEF TaskInv
        <5>3. ~(i <= cursor) /\ ~(i < e)
          BY <1>1, <4>2, <5>2
        <5>. QED
          BY <2>3, <3>1, <3>4, <5>2, <5>3 DEF Passed
      <4>. QED
        BY <2>2, <3>4, <4>3 DEF Fresh
    <3>5. CASE i # e /\ LessonOf[events[i]] # l
      <4>1. Fresh(i)
        BY <3>1, <3>2, <3>5 DEF FreshInv
      <4>2. LessonOf[events[i]] \in Lessons
        BY EventTypes
      <4>. QED
        BY <2>2, <3>5, <4>1, <4>2 DEF Fresh
    <3>. QED
      BY <3>3, <3>4, <3>5
  <2>. QED
    BY <2>2, <2>4 DEF FreshInv
<1>5. ASSUME NEW p \in Indexers, RunStatement(p)
      PROVE  FreshInv'
  <2>1. /\ p \in Writing /\ p \in Polling
        /\ \A q \in Indexers \ {p} : batch'[q] = batch[q]
        /\ Polling' = Polling
        /\ \/ Writing' = Writing /\ batch' = batch
           \/ Writing' = Writing \ {p} /\ batch'[p].event = batch[p].event + 1
        /\ UNCHANGED <<row, events, cursor, shown, stale, astray>>
    BY <1>5, StatementEffect
  <2>2. ASSUME NEW i \in DOMAIN events, Passed(i)'
        PROVE  Passed(i)
    <3>1. CASE Writing' = Writing /\ batch' = batch
      BY <2>1, <2>2, <3>1 DEF Passed
    <3>2. CASE Writing' = Writing \ {p} /\ batch'[p].event = batch[p].event + 1
      <4>1. i < batch'[p].event => i < batch[p].event \/ i = batch[p].event
        BY <1>1, <2>1, <3>2
      <4>. QED
        BY <1>1, <2>1, <2>2, <3>2, <4>1 DEF Passed
    <3>. QED
      BY <2>1, <3>1, <3>2
  <2>. QED
    BY <1>2, <2>1, <2>2
<1>6. ASSUME NEW p \in Indexers, Ended(p)
      PROVE  FreshInv'
  <2>1. /\ p \in Polling /\ EndPoll(p)
        /\ cursor' = cursor \/ (cursor' = batch[p].last /\ batch[p].event = batch[p].last + 1)
    BY <1>6, EndedEffect
  <2>2. /\ \A q \in Indexers \ {p} : batch'[q] = batch[q]
        /\ Polling' = Polling \ {p} /\ Writing' = Writing \ {p}
        /\ UNCHANGED <<row, events, shown, stale, astray>>
    BY <2>1, EndEffect
  <2>3. ASSUME NEW i \in DOMAIN events, Passed(i)'
        PROVE  Passed(i)
    <3>1. i <= cursor' => i <= cursor \/ i < batch[p].event
      BY <1>1, <2>1
    <3>. QED
      BY <1>1, <2>1, <2>2, <2>3, <3>1 DEF Passed
  <2>. QED
    BY <1>2, <2>2, <2>3
<1>7. ASSUME NEW p \in Indexers, GiveUp(p)
      PROVE  FreshInv'
  <2>1. /\ Handling(p) /\ p \in Polling
        /\ \A q \in Indexers \ {p} : batch'[q] = batch[q]
        /\ batch'[p].event = batch[p].event + 1
        /\ Polling' = Polling /\ Writing' = Writing \ {p}
        /\ astray' = astray \cup {LessonAt(p)}
        /\ UNCHANGED <<row, events, cursor, shown, stale>>
    BY <1>7, GiveUpEffect
  <2>2. ASSUME NEW i \in DOMAIN events, Passed(i)', Last(i)'
        PROVE  Fresh(i)'
    <3>1. CASE i = batch[p].event
      BY <2>1, <3>1 DEF Fresh, LessonAt, DocumentAt
    <3>2. CASE i # batch[p].event
      <4>1. i < batch'[p].event => i < batch[p].event
        BY <1>1, <2>1, <3>2
      <4>2. Passed(i)
        BY <1>1, <2>1, <2>2, <4>1 DEF Passed
      <4>3. Last(i)
        BY <2>1, <2>2 DEF Last
      <4>. QED
        BY <2>1, <4>2, <4>3 DEF FreshInv, Fresh
    <3>. QED
      BY <3>1, <3>2
  <2>. QED
    BY <2>1, <2>2 DEF FreshInv
<1>8. ASSUME NEW d \in Documents, NEW from \in {"guard", "summarizer", "mapper", "nothing"},
             NEW guard \in GuardAnswers, NEW summary \in SummaryAnswers, NEW map \in MapAnswers,
             RunPipeline(d, from, guard, summary, map)
      PROVE  FreshInv'
  <2>1. /\ \A c \in Documents \ {d} : row'[c] = row[c]
        /\ \/ events' = Append(events, d) /\ stale' = stale \ {d}
           \/ events' = events /\ row'[d] = row[d] /\ stale' = stale
           \/ events' = events /\ stale' = stale \cup {d}
        /\ Writing' = Writing /\ Polling' = Polling
        /\ UNCHANGED <<cursor, batch, shown, astray>>
    BY <1>8, PipelineEffect
  <2>2. \A i : Passed(i)' <=> Passed(i)
    BY <2>1 DEF Passed
  <2>3. \A i \in DOMAIN events : events[i] \in Documents
    BY EventTypes
  <2>4. CASE events' = events
    BY <2>1, <2>2, <2>3, <2>4 DEF FreshInv, Fresh, Last
  <2>5. CASE events' = Append(events, d) /\ stale' = stale \ {d}
    <3>1. /\ Len(events') = Len(events) + 1 /\ DOMAIN events' = 1 .. Len(events) + 1
          /\ events'[Len(events) + 1] = d
          /\ \A i \in DOMAIN events : events'[i] = events[i]
      BY <2>5, AppendEffect
    <3>2. ~Passed(Len(events) + 1)
      <4>1. ASSUME NEW q \in Polling
            PROVE  ~(Len(events) + 1 < batch[q].event)
                   /\ ~(Len(events) + 1 = batch[q].event /\ q \in Writing)
        <5>1. batch[q].event <= batch[q].last + 1 /\ batch[q].last <= Len(events)
          BY DEF TaskInv
        <5>2. q \in Writing => batch[q].event <= batch[q].last
          BY DEF TaskInv, Handling
        <5>. QED
          BY <1>1, <5>1, <5>2
      <4>2. ~(Len(events) + 1 <= cursor)
        BY <1>1
      <4>. QED
        BY <4>1, <4>2 DEF Passed
    <3>3. ASSUME NEW i \in DOMAIN events, Passed(i), Last(i)'
          PROVE  Fresh(i)'
      <4>1. Len(events) + 1 \in i + 1 .. Len(events')
        BY <1>1, <3>1
      <4>2. events[i] # d
        BY <3>1, <3>3, <4>1 DEF Last
      <4>3. \A j \in i + 1 .. Len(events) : j \in i + 1 .. Len(events') /\ j \in DOMAIN events
        BY <1>1, <3>1
      <4>4. Last(i)
        BY <3>1, <3>3, <4>3 DEF Last
      <4>5. Fresh(i)
        BY <3>3, <4>4 DEF FreshInv
      <4>. QED
        BY <2>1, <2>3, <2>5, <3>1, <4>2, <4>5 DEF Fresh
    <3>4. \A i \in DOMAIN events' : i \in DOMAIN events \/ i = Len(events) + 1
      BY <1>1, <3>1
    <3>. QED
      BY <2>2, <3>2, <3>3, <3>4 DEF FreshInv
  <2>. QED
    BY <2>1, <2>4, <2>5
<1>9. CASE UNCHANGED vars
  BY <1>9 DEF vars, history, FreshInv, Fresh, Passed, Last, Polling, Writing
<1>. QED
  BY <1>3, <1>4, <1>5, <1>6, <1>7, <1>8, <1>9 DEF Next, Poll, Interrupt, Ended

-----------------------------------------------------------------------------
(* All of it.                                                               *)

ProjectionInv ==
  /\ TypeOK /\ TaskInv /\ Attached(graph) /\ ShownInv /\ LessonInv /\ WholeInv
  /\ WriterInv /\ CutInv /\ FreshInv

LEMMA ProjectionInit ==
  ASSUME Init
  PROVE  ProjectionInv
<1>1. Polling = {} /\ Writing = {} /\ Len(events) = 0 /\ DOMAIN events = {}
  BY DEF Init, Polling, Writing
<1>2. EmptyGraph \in Graphs
  BY DEF EmptyGraph, Graphs
<1>3. TypeOK
  <2>1. [e \in 1 .. MaxRuns |-> 0] \in [1 .. MaxRuns -> 0 .. MaxRetries - 1]
    BY ProjectionAssumption DEF ProjectionAssumption
  <2>. QED
    BY <1>2, <2>1, ProjectionAssumption DEF Init, TypeOK, ProjectionAssumption
<1>4. TaskInv
  BY <1>1 DEF Init, TaskInv
<1>5. Attached(graph) /\ ShownInv
  BY <1>1 DEF Init, Attached, ShownInv, EmptyGraph
<1>6. LessonInv
  BY DEF Init, LessonInv
<1>7. WholeInv
  <2>1. RebuildRelatesTo(EmptyGraph).relates = {}
    BY DEF RebuildRelatesTo, EmptyGraph
  <2>2. GraphStage(EmptyGraph, None, 10)
    BY <2>1 DEF GraphStage, EmptyGraph
  <2>. QED
    BY <1>1, <2>2 DEF Init, WholeInv
<1>8. WriterInv /\ CutInv /\ FreshInv
  BY <1>1 DEF Init, WriterInv, CutInv, FreshInv
<1>. QED
  BY <1>3, <1>4, <1>5, <1>6, <1>7, <1>8 DEF ProjectionInv

LEMMA ProjectionStep ==
  ASSUME ProjectionInv, [Next]_vars
  PROVE  ProjectionInv'
<1>1. Attached(graph)'
  BY AttachedStep DEF ProjectionInv
<1>. QED
  BY <1>1, TypeStep, TaskStep, ShownStep, LessonStep, WholeStep, WriterStep, CutStep, FreshStep
     DEF ProjectionInv

LEMMA ProjectionInvariant == Spec => []ProjectionInv
<1>1. Init => ProjectionInv
  BY ProjectionInit
<1>2. ProjectionInv /\ [Next]_vars => ProjectionInv'
  BY ProjectionStep
<1>. QED
  BY <1>1, <1>2, PTL DEF Spec

\* Everything keeps to its type: in particular the document of an event that is
\* handled always has an artifact to index (GraphIndexerConsumer.handle).
THEOREM ProjectionTypeCorrect == Spec => []TypeOK
<1>1. ProjectionInv => TypeOK
  BY DEF ProjectionInv
<1>. QED
  BY <1>1, ProjectionInvariant, PTL

\* A lesson nobody is rewriting, and whose last rewriting was undisturbed, has been
\* rewritten to the end.
LEMMA UndisturbedWhole ==
  ASSUME ProjectionInv, NEW l \in Lessons, Undisturbed(l)
  PROVE  /\ l \in graph.lessons
         /\ AssertsOf(graph, l) = ConceptKeys(shown[l])
         /\ OfLesson(graph, l) = Relations(l, shown[l]) \cup Facts(l, shown[l]) \cup Chunks(l, shown[l])
         /\ ConceptKeys(shown[l]) \subseteq graph.concepts
<1>1. (\E p \in Writing : Rewriting(l, p)) \/ Resting(l)
  BY DEF ProjectionInv, LessonInv, Undisturbed
<1>2. Resting(l)
  BY <1>1 DEF Rewriting, Undisturbed
<1>3. Stage(graph, l, shown[l], 10)
  BY <1>2 DEF Resting, Undisturbed
<1>. QED
  BY <1>3 DEF Stage

\* Whatever crashes, is given up or happens to other lessons, a lesson in the graph
\* that was last rewritten alone and to the end is exactly one artifact's.
THEOREM ProjectionLessonShown == Spec => []LessonShown
<1>1. ProjectionInv => LessonShown
  <2>1. SUFFICES ASSUME ProjectionInv, NEW l \in Lessons, Undisturbed(l)
                 PROVE  /\ l \in graph.lessons
                        /\ {x[2] : x \in {x \in graph.asserts : x[1] = l}} = ConceptKeys(shown[l])
                        /\ OfLesson(graph, l) = Facts(l, shown[l]) \cup Chunks(l, shown[l])
                                                \cup Relations(l, shown[l])
    BY DEF LessonShown
  <2>2. AssertsOf(graph, l) = {x[2] : x \in {x \in graph.asserts : x[1] = l}}
    BY DEF AssertsOf
  <2>3. /\ l \in graph.lessons /\ AssertsOf(graph, l) = ConceptKeys(shown[l])
        /\ OfLesson(graph, l) = Relations(l, shown[l]) \cup Facts(l, shown[l]) \cup Chunks(l, shown[l])
    BY <2>1, UndisturbedWhole
  <2>. QED
    BY <2>2, <2>3
<1>. QED
  BY <1>1, ProjectionInvariant, PTL

\* While other lessons are rewritten, a search for a concept of the lesson finds
\* the lesson's key points, and one that names no concept finds its texts.
THEOREM ProjectionRetrievalFinds == Spec => []RetrievalFinds
<1>1. ProjectionInv => RetrievalFinds
  <2>1. SUFFICES ASSUME ProjectionInv, NEW l \in Lessons, Undisturbed(l)
                 PROVE  /\ \A k \in ConceptKeys(shown[l]) : \A f \in Facts(l, shown[l]) :
                             f[3] \in Retrieve({k}, None)
                        /\ \A c \in Chunks(l, shown[l]) : c[3] \in Retrieve({}, c[3])
    BY DEF RetrievalFinds
  <2>. DEFINE a == shown[l]
  <2>2. a \in Artifacts /\ graph \in Graphs
    BY <2>1 DEF ProjectionInv, TypeOK, Undisturbed
  <2>3. /\ AssertsOf(graph, l) = ConceptKeys(a) /\ ConceptKeys(a) \subseteq graph.concepts
        /\ Facts(l, a) \subseteq OfLesson(graph, l) /\ Chunks(l, a) \subseteq OfLesson(graph, l)
    BY <2>1, UndisturbedWhole
  <2>4. OfLesson(graph, l) \subseteq graph.linked /\ graph.linked \subseteq graph.nodes
    BY <2>1 DEF OfLesson, ProjectionInv, Attached
  <2>5. /\ \A n \in Facts(l, a) : n[1] = "Fact" /\ n[2] = l
        /\ \A n \in Chunks(l, a) : n[1] = "Chunk" /\ n[2] = l
    BY <2>2, ArtifactParts
  <2>. HIDE DEF a
  <2>6. ASSUME NEW k \in ConceptKeys(a), NEW f \in Facts(l, a)
        PROVE  f[3] \in Retrieve({k}, None)
    <3>1. Named({k}) = {k}
      BY <2>3 DEF Named, Concepts
    <3>2. PICK x \in graph.asserts : x[1] = l /\ x[2] = k
      BY <2>3 DEF AssertsOf
    <3>3. x = <<l, k>>
      BY <2>2, <3>2 DEF Graphs
    <3>4. f \in graph.linked /\ f[1] = "Fact" /\ <<f[2], k>> \in graph.asserts
      BY <2>3, <2>4, <2>5, <3>2, <3>3
    <3>5. f[3] \in Neighborhood(k).facts
      BY <3>4 DEF Neighborhood
    <3>. QED
      BY <3>1, <3>5 DEF Retrieve
  <2>7. ASSUME NEW c \in Chunks(l, a)
        PROVE  c[3] \in Retrieve({}, c[3])
    <3>1. Named({}) = {}
      BY DEF Named
    <3>2. c \in FulltextSearch(c[3])
      BY <2>3, <2>4, <2>5 DEF FulltextSearch
    <3>. QED
      BY <3>1, <3>2 DEF Retrieve
  <2>. QED
    BY <2>6, <2>7 DEF a
<1>. QED
  BY <1>1, ProjectionInvariant, PTL

\* A rewriting that ended half-way is repeated, unless the event is given up or the
\* poll met another process's (DurableConsumer._process_batch).
THEOREM ProjectionCutIsRepeated == Spec => []CutIsRepeated
<1>1. ProjectionInv => CutIsRepeated
  <2>1. SUFFICES ASSUME ProjectionInv, NEW l \in cut \ astray
                 PROVE  \E i \in Pending : LessonOf[events[i]] = l
    BY DEF CutIsRepeated
  <2>2. PICK e \in DOMAIN events : Due(l, e)
    BY <2>1 DEF ProjectionInv, CutInv
  <2>3. e \in Pending /\ LessonOf[events[e]] = l
    BY <2>1, <2>2, EventTypes DEF ProjectionInv, Due, Pending
  <2>. QED
    BY <2>3
<1>. QED
  BY <1>1, ProjectionInvariant, PTL

\* When the events are handled, the lesson of the last one shows its document's
\* artifact (GraphIndexerConsumer.handle, load_latest).
THEOREM ProjectionShowsLatest == Spec => []ShowsLatest
<1>1. ProjectionInv => ShowsLatest
  <2>1. SUFFICES ASSUME ProjectionInv, Pending = {}, NEW i \in DOMAIN events,
                        \A j \in i + 1 .. Len(events) : LessonOf[events[j]] # LessonOf[events[i]]
                 PROVE  Fresh(i)
    BY DEF ShowsLatest, Fresh
  <2>2. cursor \in Nat /\ Len(events) \in Nat /\ DOMAIN events = 1 .. Len(events)
    BY <2>1, EventTypes DEF ProjectionInv
  <2>3. ~(cursor < i)
    <3>1. cursor < i => i \in Pending
      BY <2>2 DEF Pending
    <3>. QED
      BY <2>1, <3>1
  <2>4. Passed(i)
    BY <2>2, <2>3 DEF Passed
  <2>5. Last(i)
    BY <2>1 DEF Last
  <2>. QED
    BY <2>1, <2>4, <2>5 DEF ProjectionInv, FreshInv
<1>. QED
  BY <1>1, ProjectionInvariant, PTL

\* Every lesson having been rewritten alone and to the end, the graph is the
\* artifacts', but for nodes left over and the edges they bring back.
THEOREM ProjectionGraphExact == Spec => []GraphExact
<1>1. ProjectionInv => GraphExact
  <2>1. SUFFICES ASSUME ProjectionInv, Writing = {}, mixed = {}, cut = {}
                 PROVE  /\ graph.lessons = There
                        /\ graph.concepts = UNION {ConceptKeys(shown[l]) : l \in There}
                        /\ graph.relates = Told \cup ({n[3] : n \in {n \in Leftover : n[1] = "Relation"}}
                                                        \cap (graph.concepts \X graph.concepts))
    BY DEF GraphExact
  <2>2. graph \in Graphs /\ Attached(graph)
    BY <2>1 DEF ProjectionInv, TypeOK
  <2>3. \A l \in There : l \in Lessons /\ Undisturbed(l)
    BY <2>1 DEF Undisturbed, There
  <2>4. ASSUME NEW l \in There
        PROVE  /\ l \in graph.lessons /\ shown[l] \in Artifacts
               /\ AssertsOf(graph, l) = ConceptKeys(shown[l])
               /\ OfLesson(graph, l) = Relations(l, shown[l]) \cup Facts(l, shown[l]) \cup Chunks(l, shown[l])
               /\ ConceptKeys(shown[l]) \subseteq graph.concepts
    <3>1. shown[l] \in Artifacts
      BY <2>1, <2>3 DEF ProjectionInv, TypeOK, There
    <3>. QED
      BY <2>1, <2>3, <3>1, UndisturbedWhole
  <2>5. graph.lessons = There
    <3>1. graph.lessons \subseteq There
      BY <2>1, <2>2 DEF ProjectionInv, ShownInv, Graphs, There
    <3>. QED
      BY <2>4, <3>1
  <2>6. GraphStage(graph, None, 10)
    BY <2>1 DEF ProjectionInv, WholeInv
  <2>7. graph.concepts = UNION {ConceptKeys(shown[l]) : l \in There}
    <3>1. ASSUME NEW k \in graph.concepts
          PROVE  \E l \in There : k \in ConceptKeys(shown[l])
      <4>1. PICK x \in graph.asserts : x[2] = k
        BY <2>6, <3>1 DEF GraphStage, Kept
      <4>2. x[1] \in There
        BY <2>2, <2>5, <4>1 DEF Attached
      <4>3. k \in AssertsOf(graph, x[1])
        BY <4>1 DEF AssertsOf
      <4>. QED
        BY <2>4, <4>2, <4>3
    <3>. QED
      BY <2>4, <3>1
  <2>. DEFINE Left == {n[3] : n \in {n \in Leftover : n[1] = "Relation"}}
  <2>8. graph.relates = Told \cup (Left \cap (graph.concepts \X graph.concepts))
    <3>1. graph.relates = {n[3] : n \in {n \in graph.nodes : n[1] = "Relation"}}
                            \cap (graph.concepts \X graph.concepts)
      <4>1. graph.relates = RebuildRelatesTo(graph).relates
        BY <2>6 DEF GraphStage
      <4>. QED
        BY <2>2, <4>1 DEF RebuildRelatesTo, Graphs
    <3>2. ASSUME NEW n \in graph.linked, n[1] = "Relation"
          PROVE  n[3] \in Told
      <4>1. PICK l \in There : l = n[2]
        BY <2>2, <2>5 DEF Attached
      <4>2. n \in OfLesson(graph, l)
        BY <4>1 DEF OfLesson
      <4>3. n \notin Facts(l, shown[l]) /\ n \notin Chunks(l, shown[l])
        BY <2>3, <2>4, <3>2, ArtifactParts
      <4>4. n \in Relations(l, shown[l])
        BY <2>4, <4>2, <4>3
      <4>. QED
        BY <4>4 DEF Told
    <3>3. ASSUME NEW l \in There, NEW r \in Relations(l, shown[l])
          PROVE  r[3] \in graph.relates
      <4>1. l \in Lessons /\ shown[l] \in Artifacts
        BY <2>3, <2>4
      <4>2. r[1] = "Relation" /\ r[3] \in ConceptKeys(shown[l]) \X ConceptKeys(shown[l])
        BY <4>1, ArtifactParts
      <4>3. r \in OfLesson(graph, l)
        BY <2>4
      <4>4. r \in graph.nodes
        BY <2>2, <4>3 DEF OfLesson, Attached
      <4>5. ConceptKeys(shown[l]) \subseteq graph.concepts
        BY <2>4
      <4>. QED
        BY <3>1, <4>2, <4>4, <4>5
    <3>4. Told \subseteq graph.relates
      BY <3>3 DEF Told
    <3>5. Left \cap (graph.concepts \X graph.concepts) \subseteq graph.relates
      BY <3>1 DEF Leftover
    <3>6. ASSUME NEW x \in graph.relates
          PROVE  x \in Told \/ x \in Left
      <4>1. PICK n \in graph.nodes : n[1] = "Relation" /\ x = n[3]
        BY <3>1
      <4>2. CASE n \in graph.linked
        BY <3>2, <4>1, <4>2
      <4>3. CASE n \notin graph.linked
        BY <4>1, <4>3 DEF Leftover
      <4>. QED
        BY <4>2, <4>3
    <3>7. graph.relates \subseteq graph.concepts \X graph.concepts
      BY <3>1
    <3>. HIDE DEF Left
    <3>. QED
      BY <3>4, <3>5, <3>6, <3>7
  <2>. QED
    BY <2>5, <2>7, <2>8
<1>. QED
  BY <1>1, ProjectionInvariant, PTL

=============================================================================
