-------------------------- MODULE GraphProjection --------------------------
(***************************************************************************)
(* The concept graph of one knowledge base: pipeline runs store artifacts  *)
(* and publish ProcessingCompleted; processes of the graph indexer         *)
(* consumer poll for the events, a batch at a time, and handle each by     *)
(* loading the document's artifact and rewriting its lesson in the graph,  *)
(* statement by statement, each committed by itself.  An event that fails  *)
(* is handled again and in the end given up.  Searches read the graph      *)
(* meanwhile.                                                              *)
(***************************************************************************)
EXTENDS Agents, Integers, Sequences, FiniteSets

CONSTANTS Documents, Lessons, LessonOf,
          Indexers,      \* processes that run the graph indexer consumer
          Texts, Keys,   \* of summaries and key points; of concepts
          GuardAnswers, SummaryAnswers, MapAnswers,  \* what the models may answer
          BatchSize, MaxRetries,  \* _BATCH_SIZE, _MAX_RETRIES_PER_EVENT
          MaxRuns, MaxFaults      \* bounds

Summaries == [text : Texts, points : SUBSET Texts]
Maps == [keys : SUBSET Keys, edges : SUBSET (Keys \X Keys)]

\* The columns of an artifact that are projected.
Artifacts == [summary : Summaries \cup {None}, map : Maps \cup {None}]

Nodes == ({"Fact", "Chunk"} \X Lessons \X Texts) \cup ({"Relation"} \X Lessons \X (Keys \X Keys))
Graphs == [lessons : SUBSET Lessons, concepts : SUBSET Keys, asserts : SUBSET (Lessons \X Keys),
           nodes : SUBSET Nodes, linked : SUBSET Nodes, relates : SUBSET (Keys \X Keys)]

ASSUME ProjectionAssumption ==
  /\ LessonOf \in [Documents -> Lessons]
  /\ SummaryAnswers \subseteq [kind : {"error", "misshapen"}] \cup [kind : {"text"}, text : Texts]
                              \cup [kind : {"json"}, text : Texts, points : SUBSET Texts]
  /\ MapAnswers \subseteq [kind : NoContent]
                          \cup [kind : {"json"}, keys : SUBSET Keys, edges : SUBSET (Keys \X Keys)]
  /\ None \notin Summaries /\ None \notin Artifacts
  /\ BatchSize \in Nat \ {0} /\ MaxRetries \in Nat \ {0}
  /\ MaxRuns \in Nat /\ MaxFaults \in Nat

VARIABLES row,      \* per document, its artifact as committed
          events,   \* the ProcessingCompleted events, in order of sequence number
          cursor,   \* the sequence number the consumer has stored
          batch,    \* per process, the events it has fetched and is to handle
          index,    \* per process, the index_artifact it is executing
          failures, \* per process, _retry_counts, by event
          graph,    \* what Neo4j holds
          runs, faults,
          shown,    \* history: per lesson, the artifact whose indexing began last
          stale,    \* history: documents whose row a failed run has changed since
          mixed,    \* history: lessons last rewritten while another process was rewriting
          cut,      \* history: lessons whose last rewriting ended half-way
          alone,    \* history: the process whose poll has met no other's, if any
          astray    \* history: lessons whose event was given up, or was last handled
                    \* in a poll that met another's

history == <<shown, stale, mixed, cut, alone, astray>>
vars == <<row, events, cursor, batch, index, failures, graph, runs, faults, history>>

NoBatch == [event |-> 0, last |-> 0]
Idle == [pc |-> 0, lesson |-> None, artifact |-> None]

EmptyGraph ==
  [lessons  |-> {},   \* Lesson nodes
   concepts |-> {},   \* Concept nodes, by key
   asserts  |-> {},   \* ASSERTS_CONCEPT, as <<lesson, key>>
   nodes    |-> {},   \* Fact, Chunk and RelationAssertion nodes, as <<kind, lesson, value>>
   linked   |-> {},   \* those that hang on their lesson
   relates  |-> {}]   \* RELATES_TO, as pairs of keys

Stored(x) == [summary |-> x.summary, map |-> x.map]

Facts(l, a) == IF a.summary = None THEN {} ELSE {<<"Fact", l, p>> : p \in a.summary.points}
Chunks(l, a) == IF a.summary = None THEN {}
                ELSE {<<"Chunk", l, p>> : p \in a.summary.points \cup {a.summary.text}}
ConceptKeys(a) == IF a.map = None THEN {} ELSE a.map.keys
Relations(l, a) ==
  IF a.map = None THEN {}
  ELSE {<<"Relation", l, e>> : e \in {e \in a.map.edges : e[1] \in a.map.keys /\ e[2] \in a.map.keys}}

-----------------------------------------------------------------------------
(* Statements on the graph g, each atomic.                                  *)

OfLesson(g, l) == {n \in g.linked : n[2] = l}

\* Mutant of DeleteLessonEntities: only the lesson itself is deleted.
DeleteLessonOnly(g, l) ==
  [g EXCEPT !.lessons = @ \ {l}, !.asserts = {a \in @ : a[1] # l}]

DeleteLessonEntities(g, l) ==
  [g EXCEPT !.lessons = @ \ {l}, !.asserts = {a \in @ : a[1] # l},
            !.nodes = @ \ OfLesson(g, l), !.linked = @ \ OfLesson(g, l)]

\* Mutant of DeleteOrphanedConcepts: concepts of more than one lesson are not spared.
DeleteEveryConcept(g) == [g EXCEPT !.concepts = {}, !.asserts = {}, !.relates = {}]

\* Mutant of DeleteOrphanedConcepts: left out.
KeepOrphanedConcepts(g) == g

DeleteOrphanedConcepts(g) ==
  LET kept == {a[2] : a \in g.asserts}
  IN [g EXCEPT !.concepts = @ \cap kept, !.relates = @ \cap (kept \X kept)]

MergeLesson(g, l) == [g EXCEPT !.lessons = @ \cup {l}]

MergeConcepts(g, a) == [g EXCEPT !.concepts = @ \cup ConceptKeys(a)]

\* The lesson and the concept are MATCHed: without them nothing happens.
AssertConcepts(g, l, a) ==
  [g EXCEPT !.asserts = @ \cup ({l} \cap g.lessons) \X (ConceptKeys(a) \cap g.concepts)]

\* The nodes are MERGEd, the lesson they are to hang on is MATCHed.
MergeNodes(g, l, nodes) ==
  [g EXCEPT !.nodes = @ \cup nodes, !.linked = IF l \in g.lessons THEN @ \cup nodes ELSE @]

\* In one transaction: delete all edges, create them anew from the assertions.
RebuildRelatesTo(g) ==
  [g EXCEPT !.relates = {n[3] : n \in {n \in g.nodes : n[1] = "Relation"}} \cap (g.concepts \X g.concepts)]

Steps == <<"delete", "orphans", "lesson", "concepts", "asserts", "relations", "facts", "chunks", "rebuild">>

\* The statements of index_artifact.
Execute(g, step, l, a) ==
  CASE step = "delete" -> DeleteLessonEntities(g, l)
    [] step = "orphans" -> DeleteOrphanedConcepts(g)
    [] step = "lesson" -> MergeLesson(g, l)
    [] step = "concepts" -> MergeConcepts(g, a)
    [] step = "asserts" -> AssertConcepts(g, l, a)
    [] step = "relations" -> MergeNodes(g, l, Relations(l, a))
    [] step = "facts" -> MergeNodes(g, l, Facts(l, a))
    [] step = "chunks" -> MergeNodes(g, l, Chunks(l, a))
    [] step = "rebuild" -> RebuildRelatesTo(g)

-----------------------------------------------------------------------------
Init ==
  /\ row = [d \in Documents |-> None]
  /\ events = <<>> /\ cursor = 0
  /\ batch = [p \in Indexers |-> NoBatch]
  /\ index = [p \in Indexers |-> Idle]
  /\ failures = [p \in Indexers |-> [e \in 1 .. MaxRuns |-> 0]]
  /\ graph = EmptyGraph
  /\ runs = 0 /\ faults = 0
  /\ shown = [l \in Lessons |-> None]
  /\ stale = {} /\ mixed = {} /\ cut = {} /\ alone = {} /\ astray = {}

\* get_concepts
Concepts == graph.concepts

\* The pipeline on a document without a checkpoint, or with those before the
\* summarizer, or before the concept mapper, or with all of them.  The worker
\* hands over neither images nor, here, links.
Outcome(d, from, guard, summary, map) ==
  LET x == IF row[d] = None THEN EmptyContext
           ELSE [EmptyContext EXCEPT !.summary = row[d].summary, !.map = row[d].map]
      Mapped(y) == MapConcepts(y, map)
      Summarized(y) == Then(Summarize(y, summary), Mapped)
      Prepared(y) == Then(FetchArticles(AnalyzeImages(y, TRUE, {}, {}).context, TRUE, {}, "text", {}),
                          Summarized)
      Cleaned(y) == Then(Preprocess(y, "text"), Prepared)
  IN CASE from = "guard" -> Then(GuardRelevance(x, Concepts, guard), Cleaned)
       [] from = "summarizer" -> Summarized(x)
       [] from = "mapper" -> Mapped(x)
       [] from = "nothing" -> Done(x)

\* A pipeline run ends: what its steps flushed is committed, and the event if it
\* completed.
RunPipeline(d, from, guard, summary, map) ==
  /\ runs < MaxRuns
  /\ row[d] = None => from = "guard"
  /\ LET out == Outcome(d, from, guard, summary, map)
         flushed == IF out.context.summary = None THEN row[d] ELSE Stored(out.context)
     IN /\ row' = [row EXCEPT ![d] = flushed]
        /\ events' = IF out.ok THEN Append(events, d) ELSE events
        /\ stale' = IF out.ok THEN stale \ {d}
                    ELSE IF flushed = row[d] THEN stale ELSE stale \cup {d}
  /\ runs' = runs + 1
  /\ UNCHANGED <<cursor, batch, index, failures, graph, faults, shown, mixed, cut, alone, astray>>

Polling == {p \in Indexers : batch[p] # NoBatch}
Writing == {p \in Indexers : index[p] # Idle}

\* The document and the lesson of the event that p is to handle or handles.
DocumentAt(p) == events[batch[p].event]
LessonAt(p) == LessonOf[DocumentAt(p)]
Handling(p) == p \in Polling /\ batch[p].event <= batch[p].last

\* _get_cursor and _fetch_batch: the next events after the stored position.
Fetch(p) ==
  /\ batch[p] = NoBatch /\ cursor < Len(events)
  /\ batch' = [batch EXCEPT ![p] =
       [event |-> cursor + 1,
        last  |-> IF cursor + BatchSize < Len(events) THEN cursor + BatchSize ELSE Len(events)]]
  /\ alone' = IF Polling = {} THEN {p} ELSE {}
  /\ astray' = astray \cup {LessonOf[events[i]] : i \in UNION {cursor + 1 .. batch[q].last : q \in alone}}
  /\ UNCHANGED <<row, events, cursor, index, failures, graph, runs, faults, shown, stale, mixed, cut>>

\* handle: the latest artifact of the event's document, whatever its revision, as
\* the row has it by now.
LoadLatest(p) ==
  /\ Handling(p) /\ p \notin Writing
  /\ LET l == LessonAt(p)
         a == row[DocumentAt(p)]
     IN /\ index' = [index EXCEPT ![p] = [pc |-> 1, lesson |-> l, artifact |-> a]]
        /\ shown' = [shown EXCEPT ![l] = a]
        /\ mixed' = IF Writing = {} THEN mixed \ {l}
                    ELSE mixed \cup {l} \cup {index[q].lesson : q \in Writing}
        /\ cut' = cut \ {l}
        /\ astray' = IF p \in alone THEN astray \ {l} ELSE astray \cup {l}
  /\ UNCHANGED <<row, events, cursor, batch, failures, graph, runs, faults, stale, alone>>

\* One statement of index_artifact; after the last one the count of the event's
\* failures is dropped and the next event is taken.
RunStatement(p) ==
  /\ p \in Writing
  /\ graph' = Execute(graph, Steps[index[p].pc], index[p].lesson, index[p].artifact)
  /\ IF index[p].pc < Len(Steps)
     THEN /\ index' = [index EXCEPT ![p].pc = @ + 1]
          /\ UNCHANGED <<batch, failures>>
     ELSE /\ index' = [index EXCEPT ![p] = Idle]
          /\ batch' = [batch EXCEPT ![p].event = @ + 1]
          /\ failures' = [failures EXCEPT ![p][batch[p].event] = 0]
  /\ UNCHANGED <<row, events, cursor, runs, faults, history>>

\* The poll of p is over; a lesson it was rewriting stays as it is.
EndPoll(p) ==
  /\ batch' = [batch EXCEPT ![p] = NoBatch]
  /\ index' = [index EXCEPT ![p] = Idle]
  /\ cut' = cut \cup {index[q].lesson : q \in Writing \cap {p}}
  /\ alone' = alone \ {p}
  /\ UNCHANGED <<row, events, graph, runs, shown, stale, mixed, astray>>

\* Mutant of SetCursor: all events there are by now count as handled.
SetCursorToEnd(p) ==
  /\ p \in Polling /\ batch[p].event > batch[p].last
  /\ cursor' = Len(events)
  /\ EndPoll(p)
  /\ UNCHANGED <<failures, faults>>

\* _set_cursor, an upsert that looks at nothing.
SetCursor(p) ==
  /\ p \in Polling /\ batch[p].event > batch[p].last
  /\ cursor' = batch[p].last
  /\ EndPoll(p)
  /\ UNCHANGED <<failures, faults>>

Failures(p) == failures[p][batch[p].event] + 1

\* Mutant of Fail: the event that failed is passed.
FailPassing(p) ==
  /\ Handling(p) /\ Failures(p) < MaxRetries /\ faults < MaxFaults
  /\ faults' = faults + 1
  /\ failures' = [failures EXCEPT ![p][batch[p].event] = Failures(p)]
  /\ batch' = [batch EXCEPT ![p].event = @ + 1]
  /\ index' = [index EXCEPT ![p] = Idle]
  /\ cut' = cut \cup {index[q].lesson : q \in Writing \cap {p}}
  /\ UNCHANGED <<row, events, cursor, graph, runs, shown, stale, mixed, alone, astray>>

\* Loading the artifact or a statement fails: the poll is given up and the event
\* will be fetched again.
Fail(p) ==
  /\ Handling(p) /\ Failures(p) < MaxRetries /\ faults < MaxFaults
  /\ faults' = faults + 1
  /\ failures' = [failures EXCEPT ![p][batch[p].event] = Failures(p)]
  /\ EndPoll(p)
  /\ UNCHANGED cursor

\* Or it has failed too often: the poll goes on with the next event.
GiveUp(p) ==
  /\ Handling(p) /\ Failures(p) >= MaxRetries /\ faults < MaxFaults
  /\ faults' = faults + 1
  /\ failures' = [failures EXCEPT ![p][batch[p].event] = 0]
  /\ batch' = [batch EXCEPT ![p].event = @ + 1]
  /\ index' = [index EXCEPT ![p] = Idle]
  /\ cut' = cut \cup {index[q].lesson : q \in Writing \cap {p}}
  /\ astray' = astray \cup {LessonAt(p)}
  /\ UNCHANGED <<row, events, cursor, graph, runs, shown, stale, mixed, alone>>

\* The process dies and is started anew, its counts are lost.
Restart(p) ==
  /\ p \in Polling /\ faults < MaxFaults
  /\ faults' = faults + 1
  /\ failures' = [failures EXCEPT ![p] = [e \in 1 .. MaxRuns |-> 0]]
  /\ EndPoll(p)
  /\ UNCHANGED cursor

\* The transaction that stores the cursor fails.
LoseCursor(p) ==
  /\ p \in Polling /\ batch[p].event > batch[p].last /\ faults < MaxFaults
  /\ faults' = faults + 1
  /\ EndPoll(p)
  /\ UNCHANGED <<cursor, failures>>

Poll(p) == Fetch(p) \/ LoadLatest(p) \/ RunStatement(p) \/ SetCursor(p)

Interrupt(p) == Fail(p) \/ GiveUp(p) \/ Restart(p) \/ LoseCursor(p)

Next ==
  \/ \E p \in Indexers : Poll(p) \/ Interrupt(p)
  \/ \E d \in Documents, from \in {"guard", "summarizer", "mapper", "nothing"},
        guard \in GuardAnswers, summary \in SummaryAnswers, map \in MapAnswers :
       RunPipeline(d, from, guard, summary, map)

Spec == Init /\ [][Next]_vars

-----------------------------------------------------------------------------
(* Searches, at the moment they are made.                                   *)

\* RETRIEVE_CONCEPT_NEIGHBORHOOD: the concept, its neighbours over edges of either
\* direction, and the facts of all lessons that assert it.
Neighborhood(k) ==
  [neighbors |-> {n \in graph.concepts : <<k, n>> \in graph.relates \/ <<n, k>> \in graph.relates},
   facts |-> {n[3] : n \in {n \in graph.linked : n[1] = "Fact" /\ <<n[2], k>> \in graph.asserts}}]

\* FULLTEXT_SEARCH finds the text in facts and chunks, hanging on a lesson or not.
FulltextSearch(text) == {n \in graph.nodes : n[1] \in {"Fact", "Chunk"} /\ n[3] = text}

\* _extract_concept_keys: the concepts of the graph that a query names.
Named(keys) == keys \cap Concepts

\* retrieve: the neighborhoods of the concepts named in the query; only if there is
\* none the full text.
Retrieve(keys, text) ==
  IF Named(keys) # {}
  THEN UNION {Neighborhood(k).facts : k \in Named(keys)}
  ELSE {n[3] : n \in FulltextSearch(text)}

-----------------------------------------------------------------------------
Batches == [event : Nat \ {0}, last : Nat \ {0}]
Indexing == [pc : 1 .. Len(Steps), lesson : Lessons, artifact : Artifacts]

TypeOK ==
  /\ row \in [Documents -> Artifacts \cup {None}]
  /\ events \in Seq(Documents) /\ cursor \in Nat
  /\ batch \in [Indexers -> {NoBatch} \cup Batches]
  /\ index \in [Indexers -> {Idle} \cup Indexing]
  /\ failures \in [Indexers -> [1 .. MaxRuns -> 0 .. MaxRetries - 1]]
  /\ graph \in Graphs
  /\ runs \in 0 .. MaxRuns /\ faults \in 0 .. MaxFaults
  /\ shown \in [Lessons -> Artifacts \cup {None}]
  /\ stale \subseteq Documents /\ mixed \subseteq Lessons /\ cut \subseteq Lessons
  /\ alone \subseteq Indexers /\ astray \subseteq Lessons

Pending == cursor + 1 .. Len(events)

\* Nobody is rewriting the lesson l, and its last rewriting was not cut short and met
\* no other process's.
Undisturbed(l) ==
  /\ shown[l] # None /\ l \notin mixed \cup cut
  /\ \A p \in Writing : index[p].lesson # l

\* Whatever crashes, is given up, is indexed a second time from an old batch or
\* happens to other lessons, such a lesson is one artifact's in the graph: all of its
\* concepts, relations, facts and chunks, and none of an earlier artifact's.
LessonShown ==
  \A l \in Lessons : Undisturbed(l) =>
    LET a == shown[l]
    IN /\ l \in graph.lessons
       /\ {x[2] : x \in {x \in graph.asserts : x[1] = l}} = ConceptKeys(a)
       /\ OfLesson(graph, l) = Facts(l, a) \cup Chunks(l, a) \cup Relations(l, a)

\* While other lessons are being rewritten, or have been left half-way, every concept
\* of the lesson is found with the lesson's key points, and its texts are found by
\* full text.
RetrievalFinds ==
  \A l \in Lessons : Undisturbed(l) =>
    /\ \A k \in ConceptKeys(shown[l]) : \A f \in Facts(l, shown[l]) :
         f[3] \in Retrieve({k}, None)
    /\ \A c \in Chunks(l, shown[l]) : c[3] \in Retrieve({}, c[3])

\* A rewriting that ended half-way, by a failure or a crash, is repeated: an event of
\* the lesson is still to come.  Not so if the event was given up after too many
\* failures, or if the poll met another process's, which may have passed it.
CutIsRepeated ==
  \A l \in cut \ astray : \E i \in Pending : LessonOf[events[i]] = l

There == {l \in Lessons : shown[l] # None}
Told == {r[3] : r \in UNION {Relations(l, shown[l]) : l \in There}}

\* Nodes that hang on no lesson, left by processes that rewrote a lesson together:
\* indexing the lesson again does not find them.
Leftover == graph.nodes \ graph.linked

\* When nobody is writing and every lesson was last rewritten to its end with no other
\* process writing: the lessons and concepts of the graph are exactly those of the
\* artifacts shown; concepts are related if these say so, or if a relation left over
\* says so, and not otherwise.
GraphExact ==
  Writing = {} /\ mixed = {} /\ cut = {} =>
    /\ graph.lessons = There
    /\ graph.concepts = UNION {ConceptKeys(shown[l]) : l \in There}
    /\ graph.relates = Told \cup ({n[3] : n \in {n \in Leftover : n[1] = "Relation"}}
                                    \cap (graph.concepts \X graph.concepts))

\* Once all events are handled, each lesson shows the artifact of the last run that
\* completed for it, as that document's row has it by now, unless a failed run has
\* changed the row since, its event was given up, or it was last handled in a poll
\* that met another's.
ShowsLatest ==
  Pending = {} /\ Polling = {} =>
    \A i \in DOMAIN events :
      LET d == events[i]
      IN (\A j \in i + 1 .. Len(events) : LessonOf[events[j]] # LessonOf[d])
         => shown[LessonOf[d]] = row[d] \/ d \in stale \/ LessonOf[d] \in astray

\* What the architecture document says of the graph ("no concurrent write can
\* interleave between cleanup and rebuild", so that nothing stale accumulates): when
\* every lesson was rewritten to its end alone, every node hangs on its lesson.
NothingLeftOver ==
  Writing = {} /\ mixed = {} /\ cut = {} => Leftover = {}

=============================================================================
