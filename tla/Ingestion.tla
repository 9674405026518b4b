----------------------------- MODULE Ingestion -----------------------------
(***************************************************************************)
(* Document ingestion: concurrent upload requests, each a transaction of   *)
(* several statements under READ COMMITTED, with the constraints of the    *)
(* documents table, beside reprocess requests, pipeline runs that hold the *)
(* row of their document, and the life of knowledge bases.                 *)
(*                                                                         *)
(* docs holds committed rows.  What an open transaction has changed is     *)
(* kept in its request: from "deactivated" on it owns the row of revision  *)
(* prev (0 when it found no active revision), from "saved" on also a new   *)
(* row.  A statement that runs into another transaction's row waits.       *)
(***************************************************************************)
EXTENDS UploadFile, FiniteSets

CONSTANTS KBs, Users, Names,
          Owner,       \* the user each knowledge base belongs to
          Requests,    \* upload requests served at one time
          MaxPending,  \* max_pending_tasks_per_user
          MaxFaults    \* bound on requests cut off in the middle

ASSUME IngestionAssumption ==
  /\ MaxPending \in Nat /\ MaxFaults \in Nat
  /\ Owner \in [KBs -> Users]
  /\ None \notin Names
  /\ IsFiniteSet(Requests) /\ Requests # {}

VARIABLES kbName,  \* per knowledge base, its name; None while it does not exist
          docs,    \* committed rows of documents
          tasks,   \* pending or running pipeline tasks, as <<kb, content, kind>>
          runs,    \* the tasks whose pipeline run holds its document's row
          req,     \* per request, what it is doing
          faults

vars == <<kbName, docs, tasks, runs, req, faults>>

Idle == [pc |-> "idle"]

Lessons == {LessonOf[f] : f \in Files} \ {None}
Contents == {f.content : f \in Files}

Docs == [kb : KBs, lesson : Lessons, rev : 1 .. Cardinality(Contents),
         hash : Contents, active : BOOLEAN, by : Users]

Tasks == KBs \X Contents \X {"upload", "reprocess"}

-----------------------------------------------------------------------------
(* Rows, locks and constraints.                                             *)

Lesson(r) == LessonOf[req[r].file]

OfLesson(k, l) == {d \in docs : d.kb = k /\ d.lesson = l}

Active(k, l) == {d \in OfLesson(k, l) : d.active}

InTransaction(r) == req[r].pc \in {"deactivated", "saved"}

\* The revision an open upload has deactivated is locked until it ends.
Owns(r, d) == InTransaction(r) /\ req[r].kb = d.kb /\ Lesson(r) = d.lesson /\ req[r].prev = d.rev

\* update_status in a pipeline run locks the row of its document for the whole run.
RunHolds(d) == \E t \in runs : t[1] = d.kb /\ t[2] = d.hash

Locked(d) == RunHolds(d) \/ \E r \in Requests : Owns(r, d)

\* Row locks are handed over in the order they were asked for.
Awaited(d) == \E r \in Requests : req[r].pc = "waiting" /\ req[r].kb = d.kb
                                  /\ Lesson(r) = d.lesson /\ req[r].prev = d.rev

NewDoc(r) == [kb |-> req[r].kb, lesson |-> Lesson(r), rev |-> req[r].prev + 1,
              hash |-> req[r].file.content, active |-> TRUE, by |-> req[r].user]

\* Mutants of Clash: without the two constraints on lessons, without the one on content.
ClashByContent(d, e) == d.kb = e.kb /\ d.hash = e.hash
ClashByLesson(d, e) ==
  d.kb = e.kb /\ d.lesson = e.lesson /\ (d.rev = e.rev \/ (d.active /\ e.active))

\* The unique constraints (kb, content), (kb, lesson, revision) and, partial,
\* (kb, lesson) of active rows.
Clash(d, e) ==
  /\ d.kb = e.kb
  /\ \/ d.hash = e.hash
     \/ d.lesson = e.lesson /\ (d.rev = e.rev \/ (d.active /\ e.active))

\* The committed rows as r sees them after its own UPDATE.
SeenBy(r) == {IF Owns(r, d) THEN [d EXCEPT !.active = FALSE] ELSE d : d \in docs}

\* kb_repo.get_by_id with an owner: nobody finds another user's knowledge base.
Found(k, u) == kbName[k] # None /\ Owner[k] = u

\* The unique constraint (owner, name).
NameFree(k, n) == \A j \in KBs \ {k} : Owner[j] = Owner[k] => kbName[j] # n

\* get_by_content_hash: among all revisions of all lessons of the knowledge base.
Known(k, c) == \E d \in docs : d.kb = k /\ d.hash = c

\* count_pending_for_user: pending or running tasks of the user's documents.
Pending(u) == {t \in tasks : \E d \in docs : d.kb = t[1] /\ d.hash = t[2] /\ d.by = u}

-----------------------------------------------------------------------------
Init ==
  /\ kbName = [k \in KBs |-> None]
  /\ docs = {} /\ tasks = {} /\ runs = {}
  /\ req = [r \in Requests |-> Idle]
  /\ faults = 0

Answer(r) == req' = [req EXCEPT ![r] = Idle]

Goto(r, pc) == req' = [req EXCEPT ![r].pc = pc]

\* upload_document: the ownership test, in a session of its own; 404 otherwise.
VerifyOwner(r, u, k, f) ==
  /\ req[r] = Idle
  /\ Found(k, u)
  /\ req' = [req EXCEPT ![r] = [pc |-> "verified", user |-> u, kb |-> k, file |-> f, prev |-> 0]]
  /\ UNCHANGED <<kbName, docs, tasks, runs, faults>>

\* ingest, steps 1 to 4: 400 for the sanitizer, 409 for a known content.
CheckContent(r) ==
  /\ req[r].pc = "verified"
  /\ IF Validated(req[r].file) /\ ~Known(req[r].kb, req[r].file.content)
     THEN Goto(r, "unique") ELSE Answer(r)
  /\ UNCHANGED <<kbName, docs, tasks, runs, faults>>

\* Mutant of CheckPending: one more than the limit.
CheckPendingLoosely(r) ==
  /\ req[r].pc = "unique"
  /\ IF Cardinality(Pending(req[r].user)) <= MaxPending
        /\ Parses(req[r].file) /\ Lesson(r) # None
     THEN Goto(r, "allowed") ELSE Answer(r)
  /\ UNCHANGED <<kbName, docs, tasks, runs, faults>>

\* ingest, steps 5 to 7: 429 at the limit, 500 if it cannot be parsed or placed.
CheckPending(r) ==
  /\ req[r].pc = "unique"
  /\ IF Cardinality(Pending(req[r].user)) < MaxPending
        /\ Parses(req[r].file) /\ Lesson(r) # None
     THEN Goto(r, "allowed") ELSE Answer(r)
  /\ UNCHANGED <<kbName, docs, tasks, runs, faults>>

\* deactivate_lesson: UPDATE ... WHERE is_active RETURNING revision.  If the row
\* is locked, or others wait for it, the statement waits.
Deactivate(r) ==
  /\ req[r].pc = "allowed"
  /\ IF Active(req[r].kb, Lesson(r)) = {}
     THEN Goto(r, "deactivated")
     ELSE \E d \in Active(req[r].kb, Lesson(r)) :
            req' = [req EXCEPT ![r].prev = d.rev,
                               ![r].pc = IF Locked(d) \/ Awaited(d) THEN "waiting" ELSE "deactivated"]
  /\ UNCHANGED <<kbName, docs, tasks, runs, faults>>

\* Mutant of Resume: a row that is no longer active is waited for again.
ResumeActive(r) ==
  /\ req[r].pc = "waiting"
  /\ \E d \in Active(req[r].kb, Lesson(r)) : d.rev = req[r].prev /\ ~Locked(d)
  /\ Goto(r, "deactivated")
  /\ UNCHANGED <<kbName, docs, tasks, runs, faults>>

\* The lock is free.  PostgreSQL tests the row again: if its holder deactivated
\* it, the UPDATE matches nothing, for the newer revision is not in its snapshot.
Resume(r) ==
  /\ req[r].pc = "waiting"
  /\ \E d \in OfLesson(req[r].kb, Lesson(r)) :
       /\ d.rev = req[r].prev /\ ~Locked(d)
       /\ req' = [req EXCEPT ![r].pc = "deactivated", ![r].prev = IF d.active THEN @ ELSE 0]
  /\ UNCHANGED <<kbName, docs, tasks, runs, faults>>

\* save and create_task: the INSERT waits for an open transaction with a clashing
\* row; a committed one, or a knowledge base that is gone, ends the request (500).
Save(r) ==
  /\ req[r].pc = "deactivated"
  /\ \A s \in Requests : req[s].pc = "saved" => ~Clash(NewDoc(r), NewDoc(s))
  /\ IF kbName[req[r].kb] # None /\ \A e \in SeenBy(r) : ~Clash(NewDoc(r), e)
     THEN Goto(r, "saved") ELSE Answer(r)
  /\ UNCHANGED <<kbName, docs, tasks, runs, faults>>

\* session.commit(), after the event is published in the same transaction: 202.
CommitUpload(r) ==
  /\ req[r].pc = "saved"
  /\ docs' = SeenBy(r) \cup {NewDoc(r)}
  /\ tasks' = tasks \cup {<<req[r].kb, req[r].file.content, "upload">>}
  /\ Answer(r)
  /\ UNCHANGED <<kbName, runs, faults>>

\* The request is cut off: a database error, or the process dies.
CutOff(r) ==
  /\ req[r] # Idle /\ faults < MaxFaults
  /\ faults' = faults + 1
  /\ Answer(r)
  /\ UNCHANGED <<kbName, docs, tasks, runs>>

\* reprocess_document: any document of the knowledge base, active or not, and no
\* limit.  (Bound: one such task at a time.)
Reprocess(d) ==
  /\ d \in docs
  /\ \A t \in tasks : t[3] # "reprocess"
  /\ tasks' = tasks \cup {<<d.kb, d.hash, "reprocess">>}
  /\ UNCHANGED <<kbName, docs, runs, req, faults>>

\* A pipeline run updates the document's status, and so locks its row ...
StartRun(t) ==
  /\ t \in tasks \ runs
  /\ \A d \in docs : d.kb = t[1] /\ d.hash = t[2] => ~Locked(d) /\ ~Awaited(d)
  /\ runs' = runs \cup {t}
  /\ UNCHANGED <<kbName, docs, tasks, req, faults>>

\* ... until it ends, done or failed.
EndRun(t) ==
  /\ t \in runs
  /\ runs' = runs \ {t} /\ tasks' = tasks \ {t}
  /\ UNCHANGED <<kbName, docs, req, faults>>

\* create_knowledge_base: 409 for a name its owner has used.
CreateKB(k, n) ==
  /\ kbName[k] = None /\ NameFree(k, n)
  /\ kbName' = [kbName EXCEPT ![k] = n]
  /\ UNCHANGED <<docs, tasks, runs, req, faults>>

\* update_knowledge_base: the same constraint, but the error is a 500.
RenameKB(k, n) ==
  /\ kbName[k] # None /\ NameFree(k, n)
  /\ kbName' = [kbName EXCEPT ![k] = n]
  /\ UNCHANGED <<docs, tasks, runs, req, faults>>

\* delete: fails on a knowledge base with documents, waits for an open INSERT.
DeleteKB(k) ==
  /\ kbName[k] # None
  /\ \A d \in docs : d.kb # k
  /\ \A r \in Requests : req[r].pc = "saved" => req[r].kb # k
  /\ kbName' = [kbName EXCEPT ![k] = None]
  /\ UNCHANGED <<docs, tasks, runs, req, faults>>

ServeUpload(r) ==
  \/ CheckContent(r) \/ CheckPending(r) \/ Deactivate(r) \/ Resume(r)
  \/ Save(r) \/ CommitUpload(r)

Next ==
  \/ \E r \in Requests :
       \/ ServeUpload(r) \/ CutOff(r)
       \/ \E u \in Users, k \in KBs, f \in Files : VerifyOwner(r, u, k, f)
  \/ \E d \in docs : Reprocess(d)
  \/ \E t \in Tasks : StartRun(t) \/ EndRun(t)
  \/ \E k \in KBs : DeleteKB(k) \/ \E n \in Names : CreateKB(k, n) \/ RenameKB(k, n)

Spec == Init /\ [][Next]_vars

\* Every request goes on, and every pipeline run ends.
FairSpec ==
  /\ Spec
  /\ \A r \in Requests : WF_vars(ServeUpload(r))
  /\ \A t \in Tasks : WF_vars(EndRun(t))

-----------------------------------------------------------------------------
TypeOK ==
  /\ kbName \in [KBs -> Names \cup {None}]
  /\ docs \subseteq Docs
  /\ runs \subseteq tasks /\ tasks \subseteq Tasks
  /\ \A r \in Requests :
       \/ req[r] = Idle
       \/ /\ req[r] \in [pc : {"verified", "unique", "allowed", "waiting", "deactivated", "saved"},
                         user : Users, kb : KBs, file : Files, prev : 0 .. Cardinality(Contents)]
          /\ req[r].pc \notin {"verified", "unique"} => Lesson(r) \in Lessons
  /\ faults \in 0 .. MaxFaults

\* A lesson that has documents has exactly one active one, and it is the newest,
\* however uploads of the lesson, failures and pipeline runs interleave.
ActiveIsLatest ==
  \A d \in docs : \E e \in OfLesson(d.kb, d.lesson) :
    /\ Active(d.kb, d.lesson) = {e}
    /\ d.rev <= e.rev

\* The limit on pending tasks is tested long before the task is inserted, so a
\* user can exceed it, but only by requests that were being served together.
PendingOvershootBounded ==
  \A u \in Users :
    Cardinality({t \in Pending(u) : t[3] = "upload"}) < MaxPending + Cardinality(Requests)

\* Ingestion implements LessonHistory.  A revision is the content of the
\* committed row with that number; what is served is the active row.
ContentOf(k, l, n) == (CHOOSE d \in OfLesson(k, l) : d.rev = n).hash

History == INSTANCE LessonHistory WITH
  NoContent <- None,
  bases <- {k \in KBs : kbName[k] # None},
  revisions <- [p \in KBs \X Lessons |->
                  [n \in 1 .. Cardinality(OfLesson(p[1], p[2])) |-> ContentOf(p[1], p[2], n)]],
  served <- [p \in KBs \X Lessons |->
               IF Active(p[1], p[2]) = {} THEN None
               ELSE (CHOOSE d \in Active(p[1], p[2]) : TRUE).hash]

\* Every upload that commits appends one content to its lesson and serves it;
\* nothing else changes a lesson, and no knowledge base takes a content twice.
HistoryRefined == History!HistorySpec

\* Every upload is answered: no request waits forever for another one's row, for
\* a pipeline run, or for a row that stopped being the active one.
EveryUploadAnswered == \A r \in Requests : []<>(req[r] = Idle)

=============================================================================
