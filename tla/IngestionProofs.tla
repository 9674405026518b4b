-------------------------- MODULE IngestionProofs ---------------------------
(***************************************************************************)
(* Proofs about document ingestion, for any knowledge bases, files,        *)
(* lessons, users and number of requests.  The inductive invariant         *)
(* IngestInv numbers the revisions of a lesson without gaps, the last one  *)
(* being the active one (Numbered), and says what an open upload may rely  *)
(* on: the revision it has deactivated stays the last one, nobody else has *)
(* deactivated it, and the row it has saved clashes with no other.  From   *)
(* it follow ActiveIsLatest and that ingestion implements LessonHistory.   *)
(* LimitInv counts the requests past the limit's test with the tasks they  *)
(* lead to; from it follows PendingOvershootBounded.                       *)
(***************************************************************************)
EXTENDS Ingestion, FiniteSetTheorems, TLAPS

Row == [kb : KBs, lesson : Lessons, rev : Nat \ {0}, hash : Contents, active : BOOLEAN, by : Users]

Uploading == [pc : {"verified", "unique", "allowed", "waiting", "deactivated", "saved"},
              user : Users, kb : KBs, file : Files, prev : Nat]

RowsOK ==
  /\ docs \subseteq Row
  /\ \A d, e \in docs : d.kb = e.kb /\ d.lesson = e.lesson /\ d.rev = e.rev => d = e

RequestsOK ==
  /\ req \in [Requests -> {Idle} \cup Uploading]
  /\ \A r \in Requests :
       /\ req[r].pc \in {"allowed", "waiting", "deactivated", "saved"} => Lesson(r) \in Lessons
       /\ req[r].pc \in {"verified", "unique", "allowed"} => req[r].prev = 0

\* The lesson has the revisions 1 to n, and the last one is the active one.
Numbered(k, l, n) ==
  /\ {d.rev : d \in OfLesson(k, l)} = 1 .. n
  /\ \A d \in OfLesson(k, l) : d.active <=> d.rev = n

LessonsOK == \A k \in KBs, l \in Lessons : \E n \in Nat : Numbered(k, l, n)

Open == {r \in Requests : InTransaction(r)}
Saved == {r \in Requests : req[r].pc = "saved"}

OwnersOK ==
  /\ \A r \in Open : req[r].prev # 0 => Numbered(req[r].kb, Lesson(r), req[r].prev)
  /\ \A r, s \in Open :
       /\ req[r].prev # 0
       /\ req[r].kb = req[s].kb /\ Lesson(r) = Lesson(s) /\ req[r].prev = req[s].prev
       => r = s

SavedOK ==
  /\ \A r \in Saved :
       /\ Numbered(req[r].kb, Lesson(r), req[r].prev)
       /\ kbName[req[r].kb] # None
       /\ \A d \in docs : d.kb = req[r].kb => d.hash # req[r].file.content
  /\ \A r, s \in Saved : Clash(NewDoc(r), NewDoc(s)) => r = s

BasesOK == kbName \in [KBs -> Names \cup {None}]

IngestInv == BasesOK /\ RowsOK /\ RequestsOK /\ LessonsOK /\ OwnersOK /\ SavedOK

LEMMA NumberedUnique ==
  ASSUME NEW k, NEW l, NEW m \in Nat, NEW n \in Nat, Numbered(k, l, m), Numbered(k, l, n)
  PROVE  m = n
<1>1. 1 .. m = 1 .. n
  BY DEF Numbered
<1>. QED
  BY <1>1

LEMMA IngestInit == Init => IngestInv
<1>. SUFFICES ASSUME Init PROVE IngestInv
  OBVIOUS
<1>1. BasesOK /\ RowsOK /\ RequestsOK
  BY DEF Init, BasesOK, RowsOK, RequestsOK, Idle
<1>2. \A k \in KBs, l \in Lessons : Numbered(k, l, 0)
  BY DEF Init, Numbered, OfLesson
<1>3. Open = {} /\ Saved = {}
  BY DEF Init, Open, Saved, InTransaction, Idle
<1>. QED
  BY <1>1, <1>2, <1>3 DEF IngestInv, LessonsOK, OwnersOK, SavedOK

-----------------------------------------------------------------------------
(* Steps of a request that commit nothing.                                  *)

\* What the others have done stays as it is.
LEMMA OthersStay ==
  ASSUME IngestInv, NEW r \in Requests, NEW q \in {Idle} \cup Uploading,
         req' = [req EXCEPT ![r] = q]
  PROVE  /\ \A s \in Requests \ {r} : req'[s] = req[s]
         /\ req'[r] = q
         /\ req' \in [Requests -> {Idle} \cup Uploading]
  BY DEF IngestInv, RequestsOK

\* A request that ends, or goes on before it owns anything.
LEMMA StepOutside ==
  ASSUME IngestInv, NEW r \in Requests, NEW q \in {Idle} \cup Uploading,
         req' = [req EXCEPT ![r] = q], UNCHANGED <<docs, kbName>>,
         q.pc \notin {"deactivated", "saved"},
         q.pc \in {"allowed", "waiting"} => LessonOf[q.file] \in Lessons,
         q.pc \in {"verified", "unique", "allowed"} => q.prev = 0
  PROVE  IngestInv'
<1>1. Open' \subseteq Open /\ Saved' \subseteq Saved /\ r \notin Open'
  BY OthersStay DEF Open, Saved, InTransaction
<1>2. \A s \in Open' : req'[s] = req[s] /\ Lesson(s)' = Lesson(s) /\ NewDoc(s)' = NewDoc(s)
  BY <1>1, OthersStay DEF Lesson, NewDoc, Open
<1>3. \A k, l, n : Numbered(k, l, n)' <=> Numbered(k, l, n)
  BY DEF Numbered, OfLesson
<1>4. BasesOK' /\ RowsOK' /\ LessonsOK'
  BY <1>3 DEF IngestInv, BasesOK, RowsOK, LessonsOK
<1>5. RequestsOK'
  <2>1. \A s \in Requests \ {r} : req'[s] = req[s] /\ Lesson(s)' = Lesson(s)
    BY OthersStay DEF Lesson
  <2>2. Lesson(r)' = LessonOf[q.file]
    BY OthersStay DEF Lesson
  <2>. QED
    BY <2>1, <2>2, OthersStay DEF IngestInv, RequestsOK
<1>6. OwnersOK'
  BY <1>1, <1>2, <1>3 DEF IngestInv, OwnersOK
<1>7. Saved' \subseteq Open'
  BY DEF Saved, Open, InTransaction
<1>8. SavedOK'
  BY <1>1, <1>2, <1>3, <1>7 DEF IngestInv, SavedOK
<1>. QED
  BY <1>4, <1>5, <1>6, <1>8 DEF IngestInv

LEMMA AnswerKeeps ==
  ASSUME IngestInv, NEW r \in Requests, Answer(r), UNCHANGED <<docs, kbName>>
  PROVE  IngestInv'
  BY StepOutside DEF Answer, Idle

\* A request takes the lock of revision n, or of nothing when n = 0.
LEMMA StepIn ==
  ASSUME IngestInv, NEW r \in Requests, req[r] \in Uploading, r \notin Open,
         Lesson(r) \in Lessons, NEW n \in Nat,
         req' = [req EXCEPT ![r] = [req[r] EXCEPT !.pc = "deactivated", !.prev = n]],
         UNCHANGED <<docs, kbName>>,
         n # 0 => \E d \in OfLesson(req[r].kb, Lesson(r)) : d.active /\ d.rev = n /\ ~Locked(d)
  PROVE  IngestInv'
<1>. DEFINE q == [req[r] EXCEPT !.pc = "deactivated", !.prev = n]
<1>1. /\ q \in Uploading /\ q.pc = "deactivated" /\ q.prev = n
      /\ q.kb = req[r].kb /\ q.file = req[r].file
  BY DEF Uploading
<1>2. /\ \A s \in Requests \ {r} : req'[s] = req[s]
      /\ req'[r] = q /\ req' \in [Requests -> {Idle} \cup Uploading]
  BY <1>1, OthersStay
<1>. HIDE DEF q
<1>3. Open' = Open \cup {r} /\ Saved' = Saved /\ r \notin Saved
  BY <1>1, <1>2 DEF Open, Saved, InTransaction
<1>4. /\ Lesson(r)' = Lesson(r)
      /\ \A s \in Requests \ {r} : Lesson(s)' = Lesson(s) /\ NewDoc(s)' = NewDoc(s)
  BY <1>1, <1>2 DEF Lesson, NewDoc
<1>5. \A k, l, m : Numbered(k, l, m)' <=> Numbered(k, l, m)
  BY DEF Numbered, OfLesson
<1>6. BasesOK' /\ RowsOK' /\ LessonsOK'
  BY <1>5 DEF IngestInv, BasesOK, RowsOK, LessonsOK
<1>7. RequestsOK'
  BY <1>1, <1>2, <1>4 DEF IngestInv, RequestsOK
<1>8. n # 0 => Numbered(req[r].kb, Lesson(r), n)
  <2>. SUFFICES ASSUME n # 0 PROVE Numbered(req[r].kb, Lesson(r), n)
    OBVIOUS
  <2>1. PICK d \in OfLesson(req[r].kb, Lesson(r)) : d.active /\ d.rev = n
    OBVIOUS
  <2>2. PICK m \in Nat : Numbered(req[r].kb, Lesson(r), m)
    BY DEF IngestInv, LessonsOK, Uploading
  <2>3. m = n
    BY <2>1, <2>2 DEF Numbered
  <2>. QED
    BY <2>2, <2>3
<1>9. \A s \in Open : req[s].kb = req[r].kb /\ Lesson(s) = Lesson(r) /\ req[s].prev = n => n = 0
  <2>. SUFFICES ASSUME NEW s \in Open, req[s].kb = req[r].kb, Lesson(s) = Lesson(r),
                       req[s].prev = n, n # 0
                PROVE  FALSE
    OBVIOUS
  <2>1. PICK d \in OfLesson(req[r].kb, Lesson(r)) : d.rev = n /\ ~Locked(d)
    OBVIOUS
  <2>2. Owns(s, d)
    BY <2>1 DEF Owns, Open, OfLesson
  <2>. QED
    BY <2>1, <2>2 DEF Locked, Open
<1>10. OwnersOK'
  <2>1. \A s \in Open : req'[s] = req[s] /\ Lesson(s)' = Lesson(s)
    BY <1>2, <1>4 DEF Open
  <2>2. \A s \in Open' : req'[s].prev # 0 => Numbered(req[s].kb, Lesson(s), req[s].prev)'
    BY <1>1, <1>2, <1>3, <1>4, <1>5, <1>8, <2>1 DEF IngestInv, OwnersOK
  <2>3. \A s, t \in Open' :
          /\ req'[s].prev # 0
          /\ req'[s].kb = req'[t].kb /\ Lesson(s)' = Lesson(t)' /\ req'[s].prev = req'[t].prev
          => s = t
    BY <1>1, <1>2, <1>3, <1>4, <1>9, <2>1 DEF IngestInv, OwnersOK
  <2>. QED
    BY <2>2, <2>3 DEF OwnersOK
<1>11. SavedOK'
  <2>1. \A s \in Saved : req'[s] = req[s] /\ Lesson(s)' = Lesson(s) /\ NewDoc(s)' = NewDoc(s)
    BY <1>2, <1>3, <1>4 DEF Saved
  <2>. QED
    BY <1>3, <1>5, <2>1 DEF IngestInv, SavedOK
<1>. QED
  BY <1>6, <1>7, <1>10, <1>11 DEF IngestInv

LEMMA BeginKeeps ==
  ASSUME IngestInv, NEW r \in Requests,
         \/ \E u \in Users, k \in KBs, f \in Files : VerifyOwner(r, u, k, f)
         \/ CheckContent(r) \/ CheckPending(r)
  PROVE  IngestInv'
<1>1. CASE \E u \in Users, k \in KBs, f \in Files : VerifyOwner(r, u, k, f)
  <2>1. PICK u \in Users, k \in KBs, f \in Files : VerifyOwner(r, u, k, f)
    BY <1>1
  <2>. DEFINE q == [pc |-> "verified", user |-> u, kb |-> k, file |-> f, prev |-> 0]
  <2>2. q \in Uploading
    BY DEF Uploading
  <2>3. req' = [req EXCEPT ![r] = q] /\ UNCHANGED <<docs, kbName>>
    BY <2>1 DEF VerifyOwner
  <2>. QED
    BY <2>2, <2>3, StepOutside
<1>2. ASSUME NEW pc \in {"unique", "allowed"}, req[r].pc \in {"verified", "unique"}, Goto(r, pc),
             pc = "allowed" => Lesson(r) # None, UNCHANGED <<docs, kbName>>
      PROVE  IngestInv'
  <2>. DEFINE q == [req[r] EXCEPT !.pc = pc]
  <2>1. q \in Uploading /\ q.pc = pc /\ q.prev = 0 /\ q.file = req[r].file
    <3>1. req[r] \in Uploading /\ req[r].prev = 0
      BY <1>2 DEF IngestInv, RequestsOK, Idle
    <3>. QED
      BY <3>1 DEF Uploading
  <2>2. pc = "allowed" => LessonOf[q.file] \in Lessons
    BY <1>2, <2>1 DEF Lesson, Lessons, Uploading
  <2>. QED
    BY <1>2, <2>1, <2>2, StepOutside DEF Goto
<1>. QED
  BY <1>1, <1>2, AnswerKeeps DEF CheckContent, CheckPending

LEMMA DeactivateKeeps ==
  ASSUME IngestInv, NEW r \in Requests, Deactivate(r)
  PROVE  IngestInv'
<1>1. req[r].pc = "allowed" /\ req[r].prev = 0 /\ UNCHANGED <<docs, kbName>>
  BY DEF Deactivate, IngestInv, RequestsOK
<1>2. req[r] \in Uploading /\ Lesson(r) \in Lessons /\ r \notin Open
  BY <1>1 DEF IngestInv, RequestsOK, Idle, Open, InTransaction
<1>3. CASE Active(req[r].kb, Lesson(r)) = {}
  <2>. DEFINE n == 0
  <2>1. req' = [req EXCEPT ![r] = [req[r] EXCEPT !.pc = "deactivated", !.prev = n]]
    <3>1. req' = [req EXCEPT ![r] = [req[r] EXCEPT !.pc = "deactivated"]]
      BY <1>3 DEF Deactivate, Goto
    <3>2. [req[r] EXCEPT !.pc = "deactivated"] = [req[r] EXCEPT !.pc = "deactivated", !.prev = n]
      BY <1>1, <1>2 DEF Uploading
    <3>. QED
      BY <3>1, <3>2
  <2>2. n \in Nat /\ n = 0
    OBVIOUS
  <2>. HIDE DEF n
  <2>. QED
    BY <1>1, <1>2, <2>1, <2>2, StepIn
<1>4. CASE Active(req[r].kb, Lesson(r)) # {}
  <2>1. PICK d \in Active(req[r].kb, Lesson(r)) :
          req' = [req EXCEPT ![r].prev = d.rev,
                             ![r].pc = IF Locked(d) \/ Awaited(d) THEN "waiting" ELSE "deactivated"]
    BY <1>4 DEF Deactivate
  <2>2. d \in OfLesson(req[r].kb, Lesson(r)) /\ d.active /\ d.rev \in Nat
    BY DEF Active, OfLesson, IngestInv, RowsOK, Row
  <2>3. CASE Locked(d) \/ Awaited(d)
    <3>. DEFINE q == [req[r] EXCEPT !.pc = "waiting", !.prev = d.rev]
    <3>1. req' = [req EXCEPT ![r] = q]
      BY <2>1, <2>3 DEF IngestInv, RequestsOK
    <3>2. q \in Uploading /\ q.pc = "waiting" /\ q.file = req[r].file
      BY <1>2, <2>2 DEF Uploading
    <3>3. LessonOf[q.file] \in Lessons
      BY <1>2, <3>2 DEF Lesson
    <3>. QED
      BY <1>1, <3>1, <3>2, <3>3, StepOutside
  <2>4. CASE ~(Locked(d) \/ Awaited(d))
    <3>1. req' = [req EXCEPT ![r] = [req[r] EXCEPT !.pc = "deactivated", !.prev = d.rev]]
      BY <2>1, <2>4 DEF IngestInv, RequestsOK
    <3>. QED
      BY <1>1, <1>2, <2>2, <2>4, <3>1, StepIn
  <2>. QED
    BY <2>3, <2>4
<1>. QED
  BY <1>3, <1>4

LEMMA ResumeKeeps ==
  ASSUME IngestInv, NEW r \in Requests, Resume(r)
  PROVE  IngestInv'
<1>1. req[r].pc = "waiting" /\ UNCHANGED <<docs, kbName>>
  BY DEF Resume
<1>2. req[r] \in Uploading /\ Lesson(r) \in Lessons /\ r \notin Open
  BY <1>1 DEF IngestInv, RequestsOK, Idle, Open, InTransaction
<1>3. PICK d \in OfLesson(req[r].kb, Lesson(r)) :
        /\ d.rev = req[r].prev /\ ~Locked(d)
        /\ req' = [req EXCEPT ![r].pc = "deactivated", ![r].prev = IF d.active THEN @ ELSE 0]
  BY DEF Resume
<1>. DEFINE n == IF d.active THEN req[r].prev ELSE 0
<1>4. n \in Nat /\ (n # 0 => d.active /\ d.rev = n /\ ~Locked(d))
  BY <1>2, <1>3 DEF Uploading
<1>5. req' = [req EXCEPT ![r] = [req[r] EXCEPT !.pc = "deactivated", !.prev = n]]
  BY <1>3 DEF IngestInv, RequestsOK
<1>. HIDE DEF n
<1>. QED
  BY <1>1, <1>2, <1>4, <1>5, StepIn

\* The row saved is the first of its lesson or the successor of the deactivated one.
LEMMA SaveKeeps ==
  ASSUME IngestInv, NEW r \in Requests, Save(r)
  PROVE  IngestInv'
<1>1. req[r].pc = "deactivated" /\ UNCHANGED <<docs, kbName>>
  BY DEF Save
<1>2. req[r] \in Uploading /\ Lesson(r) \in Lessons /\ r \in Open /\ r \notin Saved
  BY <1>1 DEF IngestInv, RequestsOK, Idle, Open, Saved, InTransaction
<1>3. CASE kbName[req[r].kb] # None /\ \A e \in SeenBy(r) : ~Clash(NewDoc(r), e)
  <2>. DEFINE q == [req[r] EXCEPT !.pc = "saved"]
  <2>1. q \in Uploading /\ q.pc = "saved" /\ q.prev = req[r].prev /\ q.file = req[r].file
        /\ q.kb = req[r].kb /\ q.user = req[r].user
    BY <1>2 DEF Uploading
  <2>2. /\ \A s \in Requests \ {r} : req'[s] = req[s]
        /\ req'[r] = q /\ req' \in [Requests -> {Idle} \cup Uploading]
    BY <1>3, <2>1, OthersStay DEF Save, Goto
  <2>. HIDE DEF q
  <2>3. Open' = Open /\ Saved' = Saved \cup {r}
    BY <1>2, <2>1, <2>2 DEF Open, Saved, InTransaction
  <2>4. \A s \in Requests : /\ Lesson(s)' = Lesson(s) /\ NewDoc(s)' = NewDoc(s)
                            /\ req'[s].kb = req[s].kb /\ req'[s].prev = req[s].prev
                            /\ req'[s].file = req[s].file
    BY <2>1, <2>2 DEF Lesson, NewDoc
  <2>5. \A k, l, m : Numbered(k, l, m)' <=> Numbered(k, l, m)
    BY <1>1 DEF Numbered, OfLesson
  <2>6. \A d \in docs : d.kb = req[r].kb => d.hash # req[r].file.content
    <3>. SUFFICES ASSUME NEW d \in docs, d.kb = req[r].kb, d.hash = req[r].file.content
                  PROVE  FALSE
      OBVIOUS
    <3>. DEFINE e == IF Owns(r, d) THEN [d EXCEPT !.active = FALSE] ELSE d
    <3>1. e \in SeenBy(r) /\ e.kb = d.kb /\ e.hash = d.hash
      <4>1. d \in Row
        BY DEF IngestInv, RowsOK
      <4>2. e.kb = d.kb /\ e.hash = d.hash
        BY <4>1 DEF Row
      <4>. QED
        BY <4>2 DEF SeenBy
    <3>. HIDE DEF e
    <3>2. Clash(NewDoc(r), e)
      BY <3>1 DEF Clash, NewDoc
    <3>. QED
      BY <1>3, <3>1, <3>2
  <2>7. Numbered(req[r].kb, Lesson(r), req[r].prev)
    <3>1. CASE req[r].prev # 0
      BY <1>2, <3>1 DEF IngestInv, OwnersOK
    <3>2. CASE req[r].prev = 0
      <4>1. PICK n \in Nat : Numbered(req[r].kb, Lesson(r), n)
        BY <1>2 DEF IngestInv, LessonsOK, Uploading
      <4>2. ASSUME n # 0 PROVE FALSE
        <5>1. n \in 1 .. n
          BY <4>2
        <5>2. PICK d \in OfLesson(req[r].kb, Lesson(r)) : d.rev = n
          BY <4>1, <5>1 DEF Numbered
        <5>3. d \in docs /\ d.active /\ d.kb = req[r].kb /\ d.lesson = Lesson(r)
          BY <4>1, <5>2 DEF Numbered, OfLesson
        <5>4. ~Owns(r, d)
          BY <3>2, <4>2, <5>2 DEF Owns
        <5>5. d \in SeenBy(r)
          BY <5>3, <5>4 DEF SeenBy
        <5>6. Clash(NewDoc(r), d)
          BY <5>3 DEF Clash, NewDoc
        <5>. QED
          BY <1>3, <5>5, <5>6
      <4>. QED
        BY <3>2, <4>1, <4>2
    <3>. QED
      BY <3>1, <3>2
  <2>8. \A s \in Saved : ~Clash(NewDoc(r), NewDoc(s)) /\ ~Clash(NewDoc(s), NewDoc(r))
    <3>1. \A s \in Saved : ~Clash(NewDoc(r), NewDoc(s))
      BY DEF Save, Saved
    <3>2. \A d, e : Clash(d, e) => Clash(e, d)
      BY DEF Clash
    <3>. QED
      BY <3>1, <3>2
  <2>9. BasesOK' /\ RowsOK' /\ LessonsOK'
    BY <1>1, <2>5 DEF IngestInv, BasesOK, RowsOK, LessonsOK
  <2>10. RequestsOK'
    BY <1>2, <2>1, <2>2, <2>4 DEF IngestInv, RequestsOK
  <2>11. OwnersOK'
    BY <2>3, <2>4, <2>5 DEF IngestInv, OwnersOK, Open
  <2>12. SavedOK'
    <3>1. \A s \in Saved' :
            /\ Numbered(req[s].kb, Lesson(s), req[s].prev)'
            /\ kbName'[req'[s].kb] # None
            /\ \A d \in docs' : d.kb = req'[s].kb => d.hash # req'[s].file.content
      BY <1>1, <1>3, <2>3, <2>4, <2>5, <2>6, <2>7 DEF IngestInv, SavedOK, Saved
    <3>2. \A s, t \in Saved' : Clash(NewDoc(s), NewDoc(t))' => s = t
      BY <2>3, <2>4, <2>8 DEF IngestInv, SavedOK, Saved, Clash
    <3>. QED
      BY <3>1, <3>2 DEF SavedOK
  <2>. QED
    BY <2>9, <2>10, <2>11, <2>12 DEF IngestInv
<1>4. CASE ~(kbName[req[r].kb] # None /\ \A e \in SeenBy(r) : ~Clash(NewDoc(r), e))
  BY <1>1, <1>4, AnswerKeeps DEF Save
<1>. QED
  BY <1>3, <1>4

-----------------------------------------------------------------------------
(* An upload commits.                                                       *)

\* What becomes of a committed row when r commits.
After(r, d) == IF Owns(r, d) THEN [d EXCEPT !.active = FALSE] ELSE d

LEMMA CommitRows ==
  ASSUME IngestInv, NEW r \in Requests, CommitUpload(r)
  PROVE  /\ req[r] \in Uploading /\ r \in Saved /\ r \in Open
         /\ Lesson(r) \in Lessons
         /\ Numbered(req[r].kb, Lesson(r), req[r].prev)
         /\ NewDoc(r) \in Row
         /\ docs' = {After(r, d) : d \in docs} \cup {NewDoc(r)}
         /\ \A d \in docs : /\ After(r, d) \in Row
                            /\ After(r, d).kb = d.kb /\ After(r, d).lesson = d.lesson
                            /\ After(r, d).rev = d.rev /\ After(r, d).hash = d.hash
                            /\ After(r, d).active <=> d.active /\ ~Owns(r, d)
<1>1. req[r].pc = "saved"
  BY DEF CommitUpload
<1>2. req[r] \in Uploading /\ r \in Saved /\ r \in Open /\ Lesson(r) \in Lessons
  BY <1>1 DEF IngestInv, RequestsOK, Idle, Saved, Open, InTransaction
<1>3. Numbered(req[r].kb, Lesson(r), req[r].prev)
  BY <1>2 DEF IngestInv, SavedOK
<1>4. NewDoc(r) \in Row
  <2>1. req[r].file.content \in Contents /\ req[r].prev + 1 \in Nat \ {0}
    BY <1>2 DEF Uploading, Contents
  <2>. QED
    BY <1>2, <2>1 DEF NewDoc, Row, Uploading
<1>5. docs' = {After(r, d) : d \in docs} \cup {NewDoc(r)}
  BY DEF CommitUpload, SeenBy, After
<1>6. ASSUME NEW d \in docs
      PROVE  /\ After(r, d) \in Row
             /\ After(r, d).kb = d.kb /\ After(r, d).lesson = d.lesson
             /\ After(r, d).rev = d.rev /\ After(r, d).hash = d.hash
             /\ After(r, d).active <=> d.active /\ ~Owns(r, d)
  <2>1. d \in Row
    BY DEF IngestInv, RowsOK
  <2>2. CASE Owns(r, d)
    BY <2>1, <2>2 DEF After, Row
  <2>3. CASE ~Owns(r, d)
    BY <2>1, <2>3 DEF After, Row
  <2>. QED
    BY <2>2, <2>3
<1>. QED
  BY <1>2, <1>3, <1>4, <1>5, <1>6

\* The lesson gets one more number, the other lessons stay as they are.
LEMMA CommitNumbers ==
  ASSUME IngestInv, NEW r \in Requests, CommitUpload(r),
         NEW k, NEW l, NEW n, k = req[r].kb, l = Lesson(r), n = req[r].prev
  PROVE  /\ OfLesson(k, l)' = {After(r, d) : d \in OfLesson(k, l)} \cup {NewDoc(r)}
         /\ Numbered(k, l, n + 1)'
         /\ \A p, q : p # k \/ q # l => OfLesson(p, q)' = OfLesson(p, q)
         /\ \A p, q, m : p # k \/ q # l => (Numbered(p, q, m)' <=> Numbered(p, q, m))
<1>1. /\ docs' = {After(r, d) : d \in docs} \cup {NewDoc(r)}
      /\ \A d \in docs : /\ After(r, d).kb = d.kb /\ After(r, d).lesson = d.lesson
                         /\ After(r, d).rev = d.rev
                         /\ After(r, d).active <=> d.active /\ ~Owns(r, d)
  BY CommitRows
<1>2. /\ NewDoc(r).kb = k /\ NewDoc(r).lesson = l /\ NewDoc(r).rev = n + 1 /\ NewDoc(r).active
      /\ n \in Nat /\ Numbered(k, l, n)
  BY CommitRows DEF NewDoc, Uploading
<1>3. \A d \in docs : Owns(r, d) <=> d.kb = k /\ d.lesson = l /\ d.rev = n
  BY CommitRows DEF Owns, Open
<1>4. OfLesson(k, l)' = {After(r, d) : d \in OfLesson(k, l)} \cup {NewDoc(r)}
  BY <1>1, <1>2 DEF OfLesson
<1>5. \A p, q : p # k \/ q # l => OfLesson(p, q)' = OfLesson(p, q)
  <2>. SUFFICES ASSUME NEW p, NEW q, p # k \/ q # l
                PROVE  OfLesson(p, q)' = OfLesson(p, q)
    OBVIOUS
  <2>1. \A d \in OfLesson(p, q) : After(r, d) = d
    BY <1>3 DEF After, OfLesson
  <2>. QED
    BY <1>1, <1>2, <2>1 DEF OfLesson
<1>6. \A p, q, m : p # k \/ q # l => (Numbered(p, q, m)' <=> Numbered(p, q, m))
  BY <1>5 DEF Numbered
<1>7. {d.rev : d \in OfLesson(k, l)'} = 1 .. n + 1
  <2>1. {d.rev : d \in OfLesson(k, l)'} = {d.rev : d \in OfLesson(k, l)} \cup {n + 1}
    <3>1. \A d \in OfLesson(k, l) : After(r, d).rev = d.rev
      BY <1>1 DEF OfLesson
    <3>. QED
      BY <1>2, <1>4, <3>1
  <2>2. 1 .. n + 1 = 1 .. n \cup {n + 1}
    BY <1>2
  <2>. QED
    BY <1>2, <2>1, <2>2 DEF Numbered
<1>8. \A d \in OfLesson(k, l)' : d.active <=> d.rev = n + 1
  <2>1. ASSUME NEW d \in OfLesson(k, l)
        PROVE  ~After(r, d).active /\ After(r, d).rev # n + 1
    <3>1. d \in docs /\ d.kb = k /\ d.lesson = l /\ d.rev \in 1 .. n /\ (d.active <=> d.rev = n)
      BY <1>2 DEF Numbered, OfLesson
    <3>. QED
      BY <1>1, <1>2, <1>3, <3>1
  <2>. QED
    BY <1>2, <1>4, <2>1
<1>. QED
  BY <1>4, <1>5, <1>6, <1>7, <1>8 DEF Numbered

LEMMA CommitKeeps ==
  ASSUME IngestInv, NEW r \in Requests, CommitUpload(r)
  PROVE  IngestInv'
<1>1. PICK k, l, n : k = req[r].kb /\ l = Lesson(r) /\ n = req[r].prev
  OBVIOUS
<1>2. k \in KBs /\ l \in Lessons /\ n \in Nat /\ Numbered(k, l, n) /\ r \in Saved /\ r \in Open
  BY <1>1, CommitRows DEF Uploading
<1>3. Numbered(k, l, n + 1)'
  BY <1>1, CommitNumbers
<1>4. \A p, q, m : p # k \/ q # l => (Numbered(p, q, m)' <=> Numbered(p, q, m))
  BY <1>1, CommitNumbers
<1>5. /\ \A s \in Requests \ {r} : req'[s] = req[s] /\ Lesson(s)' = Lesson(s) /\ NewDoc(s)' = NewDoc(s)
      /\ req'[r] = Idle /\ req' \in [Requests -> {Idle} \cup Uploading]
      /\ kbName' = kbName
  <2>1. req' = [req EXCEPT ![r] = Idle] /\ kbName' = kbName
    BY DEF CommitUpload, Answer
  <2>. QED
    BY <2>1, OthersStay DEF Lesson, NewDoc
<1>6. Open' = Open \ {r} /\ Saved' = Saved \ {r}
  BY <1>5 DEF Open, Saved, InTransaction, Idle
\* Nobody else can be about to follow revision n, or have saved a row of the lesson.
<1>7. ASSUME NEW s \in Open', req[s].kb = k, Lesson(s) = l
      PROVE  req[s].prev = 0 /\ s \notin Saved
  <2>1. s \in Open /\ s # r /\ req[s].prev \in Nat
    BY <1>6 DEF Open, InTransaction, IngestInv, RequestsOK, Uploading, Idle
  <2>2. s \notin Saved
    <3>1. Clash(NewDoc(r), NewDoc(s))
      BY <1>1, <1>7 DEF Clash, NewDoc
    <3>. QED
      BY <1>2, <2>1, <3>1 DEF IngestInv, SavedOK
  <2>3. req[s].prev = 0
    <3>. SUFFICES ASSUME req[s].prev # 0 PROVE FALSE
      OBVIOUS
    <3>1. Numbered(k, l, req[s].prev)
      BY <1>7, <2>1 DEF IngestInv, OwnersOK
    <3>2. req[s].prev = n
      BY <1>2, <2>1, <3>1, NumberedUnique
    <3>. QED
      BY <1>1, <1>2, <1>7, <2>1, <3>2 DEF IngestInv, OwnersOK
  <2>. QED
    BY <2>2, <2>3
<1>8. BasesOK' /\ RowsOK'
  <2>1. docs' \subseteq Row
    BY CommitRows
  <2>2. ASSUME NEW d \in docs
        PROVE  ~(After(r, d).kb = NewDoc(r).kb /\ After(r, d).lesson = NewDoc(r).lesson
                 /\ After(r, d).rev = NewDoc(r).rev)
    <3>1. d.kb = k /\ d.lesson = l => d.rev \in 1 .. n
      BY <1>2 DEF Numbered, OfLesson
    <3>2. NewDoc(r).kb = k /\ NewDoc(r).lesson = l /\ NewDoc(r).rev = n + 1
      BY <1>1 DEF NewDoc
    <3>. QED
      BY <1>2, <3>1, <3>2, CommitRows
  <2>3. \A d, e \in docs :
          /\ After(r, d).kb = After(r, e).kb /\ After(r, d).lesson = After(r, e).lesson
          /\ After(r, d).rev = After(r, e).rev
          => d = e
    BY CommitRows DEF IngestInv, RowsOK
  <2>4. docs' = {After(r, d) : d \in docs} \cup {NewDoc(r)}
    BY CommitRows
  <2>5. \A d, e \in docs' : d.kb = e.kb /\ d.lesson = e.lesson /\ d.rev = e.rev => d = e
    BY <2>2, <2>3, <2>4
  <2>. QED
    BY <1>5, <2>1, <2>5 DEF IngestInv, BasesOK, RowsOK
<1>9. RequestsOK'
  BY <1>5 DEF IngestInv, RequestsOK, Idle
<1>10. LessonsOK'
  <2>. SUFFICES ASSUME NEW p \in KBs, NEW q \in Lessons
                PROVE  \E m \in Nat : Numbered(p, q, m)'
    BY DEF LessonsOK, Lessons
  <2>1. CASE p = k /\ q = l
    BY <1>2, <1>3, <2>1
  <2>2. CASE p # k \/ q # l
    BY <1>4, <2>2 DEF IngestInv, LessonsOK
  <2>. QED
    BY <2>1, <2>2
<1>11. OwnersOK'
  <2>1. \A s \in Open' : req'[s].prev # 0 => Numbered(req[s].kb, Lesson(s), req[s].prev)'
    <3>. SUFFICES ASSUME NEW s \in Open', req'[s].prev # 0
                  PROVE  Numbered(req[s].kb, Lesson(s), req[s].prev)'
      OBVIOUS
    <3>1. s \in Open /\ s # r /\ req'[s] = req[s] /\ Lesson(s)' = Lesson(s)
      BY <1>5, <1>6 DEF Open
    <3>2. req[s].kb # k \/ Lesson(s) # l
      BY <1>7, <3>1
    <3>3. PICK p, q, m : p = req[s].kb /\ q = Lesson(s) /\ m = req[s].prev
      OBVIOUS
    <3>4. Numbered(p, q, m)'
      BY <1>4, <3>1, <3>2, <3>3 DEF IngestInv, OwnersOK
    <3>. QED
      BY <3>1, <3>3, <3>4
  <2>2. \A s, t \in Open' :
          /\ req'[s].prev # 0
          /\ req'[s].kb = req'[t].kb /\ Lesson(s)' = Lesson(t)' /\ req'[s].prev = req'[t].prev
          => s = t
    BY <1>5, <1>6 DEF IngestInv, OwnersOK, Open
  <2>. QED
    BY <2>1, <2>2 DEF OwnersOK
<1>12. SavedOK'
  <2>1. ASSUME NEW s \in Saved'
        PROVE  /\ Numbered(req[s].kb, Lesson(s), req[s].prev)'
               /\ kbName'[req'[s].kb] # None
               /\ \A d \in docs' : d.kb = req'[s].kb => d.hash # req'[s].file.content
    <3>1. s \in Saved /\ s # r /\ s \in Open' /\ req'[s] = req[s] /\ Lesson(s)' = Lesson(s)
      BY <1>5, <1>6 DEF Saved, Open, InTransaction
    <3>2. req[s].kb # k \/ Lesson(s) # l
      BY <1>7, <3>1
    <3>3. PICK p, q, m : p = req[s].kb /\ q = Lesson(s) /\ m = req[s].prev
      OBVIOUS
    <3>4. Numbered(p, q, m)'
      BY <1>4, <3>1, <3>2, <3>3 DEF IngestInv, SavedOK
    <3>5. ~Clash(NewDoc(r), NewDoc(s))
      BY <1>2, <3>1 DEF IngestInv, SavedOK
    <3>6. NewDoc(r).kb = req[s].kb => NewDoc(r).hash # req[s].file.content
      BY <3>5 DEF Clash, NewDoc
    <3>7. \A d \in docs : d.kb = req[s].kb => d.hash # req[s].file.content
      BY <3>1 DEF IngestInv, SavedOK
    <3>8. \A d \in docs' : d.kb = req[s].kb => d.hash # req[s].file.content
      BY <3>6, <3>7, CommitRows
    <3>9. kbName'[req'[s].kb] # None
      BY <1>5, <3>1 DEF IngestInv, SavedOK
    <3>10. Numbered(req[s].kb, Lesson(s), req[s].prev)'
      BY <3>1, <3>3, <3>4
    <3>. QED
      BY <3>1, <3>8, <3>9, <3>10
  <2>2. \A s, t \in Saved' : Clash(NewDoc(s), NewDoc(t))' => s = t
    <3>1. \A s \in Saved' : s \in Saved /\ NewDoc(s)' = NewDoc(s)
      BY <1>5, <1>6 DEF Saved
    <3>. QED
      BY <3>1 DEF IngestInv, SavedOK, Clash
  <2>. QED
    BY <2>1, <2>2 DEF SavedOK
<1>. QED
  BY <1>8, <1>9, <1>10, <1>11, <1>12 DEF IngestInv

-----------------------------------------------------------------------------
(* The other steps.                                                         *)

\* A knowledge base comes, goes or is renamed, without taking a saved row's away.
LEMMA BasesKeep ==
  ASSUME IngestInv, UNCHANGED <<docs, req>>, BasesOK',
         \A r \in Saved : kbName[req[r].kb] # None => kbName'[req[r].kb] # None
  PROVE  IngestInv'
<1>1. Open' = Open /\ Saved' = Saved
  BY DEF Open, Saved, InTransaction
<1>2. \A r \in Requests : Lesson(r)' = Lesson(r) /\ NewDoc(r)' = NewDoc(r)
  BY DEF Lesson, NewDoc
<1>3. \A k, l, n : Numbered(k, l, n)' <=> Numbered(k, l, n)
  BY DEF Numbered, OfLesson
<1>4. RowsOK' /\ LessonsOK'
  BY <1>3 DEF IngestInv, RowsOK, LessonsOK
<1>5. RequestsOK'
  BY <1>2 DEF IngestInv, RequestsOK
<1>6. OwnersOK'
  BY <1>1, <1>2, <1>3 DEF IngestInv, OwnersOK, Open
<1>7. SavedOK'
  <2>1. \A r, s \in Saved : Clash(NewDoc(r), NewDoc(s))' => r = s
    BY <1>2 DEF IngestInv, SavedOK, Saved, Clash
  <2>. QED
    BY <1>1, <1>2, <1>3, <2>1 DEF IngestInv, SavedOK, Saved
<1>. QED
  BY <1>4, <1>5, <1>6, <1>7 DEF IngestInv

LEMMA IngestStep ==
  ASSUME IngestInv, [Next]_vars,
         \A r \in Requests : ~CommitUpload(r)
  PROVE  IngestInv' /\ UNCHANGED docs
<1>1. ASSUME NEW r \in Requests, ServeUpload(r) \/ CutOff(r)
      PROVE  IngestInv' /\ UNCHANGED docs
  <2>1. CASE CheckContent(r) \/ CheckPending(r)
    BY <2>1, BeginKeeps DEF CheckContent, CheckPending
  <2>2. CASE Deactivate(r)
    BY <2>2, DeactivateKeeps DEF Deactivate
  <2>3. CASE Resume(r)
    BY <2>3, ResumeKeeps DEF Resume
  <2>4. CASE Save(r)
    BY <2>4, SaveKeeps DEF Save
  <2>5. CASE CutOff(r)
    BY <2>5, AnswerKeeps DEF CutOff
  <2>. QED
    BY <1>1, <2>1, <2>2, <2>3, <2>4, <2>5 DEF ServeUpload
<1>2. ASSUME NEW r \in Requests, NEW u \in Users, NEW k \in KBs, NEW f \in Files,
             VerifyOwner(r, u, k, f)
      PROVE  IngestInv' /\ UNCHANGED docs
  BY <1>2, BeginKeeps DEF VerifyOwner
<1>3. ASSUME NEW t \in Tasks, StartRun(t) \/ EndRun(t)
      PROVE  IngestInv' /\ UNCHANGED docs
  BY <1>3, BasesKeep DEF StartRun, EndRun, IngestInv, BasesOK
<1>4. ASSUME NEW d \in docs, Reprocess(d)
      PROVE  IngestInv' /\ UNCHANGED docs
  BY <1>4, BasesKeep DEF Reprocess, IngestInv, BasesOK
<1>5. ASSUME NEW k \in KBs, NEW n \in Names, CreateKB(k, n) \/ RenameKB(k, n)
      PROVE  IngestInv' /\ UNCHANGED docs
  <2>1. kbName' = [kbName EXCEPT ![k] = n] /\ UNCHANGED <<docs, req>>
    BY <1>5 DEF CreateKB, RenameKB
  <2>2. BasesOK' /\ kbName'[k] # None /\ \A j \in KBs \ {k} : kbName'[j] = kbName[j]
    BY <2>1, IngestionAssumption DEF IngestInv, BasesOK
  <2>3. \A r \in Saved : req[r].kb \in KBs
    BY DEF Saved, IngestInv, RequestsOK, Idle, Uploading
  <2>. QED
    BY <2>1, <2>2, <2>3, BasesKeep
<1>6. ASSUME NEW k \in KBs, DeleteKB(k)
      PROVE  IngestInv' /\ UNCHANGED docs
  <2>1. \A r \in Saved : req[r].kb # k
    BY <1>6 DEF DeleteKB, Saved
  <2>2. BasesOK' /\ \A j \in KBs \ {k} : kbName'[j] = kbName[j]
    BY <1>6 DEF DeleteKB, IngestInv, BasesOK
  <2>3. \A r \in Saved : req[r].kb \in KBs
    BY DEF Saved, IngestInv, RequestsOK, Idle, Uploading
  <2>. QED
    BY <1>6, <2>1, <2>2, <2>3, BasesKeep DEF DeleteKB
<1>7. CASE UNCHANGED vars
  BY <1>7, BasesKeep DEF vars, IngestInv, BasesOK
<1>. QED
  BY <1>1, <1>2, <1>3, <1>4, <1>5, <1>6, <1>7 DEF Next

LEMMA IngestNext == IngestInv /\ [Next]_vars => IngestInv'
  BY IngestStep, CommitKeeps

LEMMA IngestInvariant == Spec => []IngestInv
  BY IngestInit, IngestNext, PTL DEF Spec

\* The rows of a numbered lesson: the last one is the active one.
LEMMA LatestRow ==
  ASSUME IngestInv, NEW k, NEW l, NEW n \in Nat \ {0}, Numbered(k, l, n)
  PROVE  \E e \in OfLesson(k, l) :
           e.rev = n /\ Active(k, l) = {e} /\ \A d \in OfLesson(k, l) : d.rev <= e.rev
<1>1. n \in 1 .. n
  OBVIOUS
<1>2. PICK e \in OfLesson(k, l) : e.rev = n
  BY <1>1 DEF Numbered
<1>3. \A d \in OfLesson(k, l) : d.rev \in 1 .. n
  BY DEF Numbered
<1>4. \A d \in OfLesson(k, l) : d.active <=> d = e
  BY <1>2 DEF Numbered, IngestInv, RowsOK, OfLesson
<1>. QED
  BY <1>2, <1>3, <1>4 DEF Active

\* However uploads, failures and pipeline runs interleave, a lesson that has documents
\* has exactly one active one, and it is the newest.
THEOREM IngestionActiveIsLatest == Spec => []ActiveIsLatest
<1>1. IngestInv => ActiveIsLatest
  <2>. SUFFICES ASSUME IngestInv, NEW d \in docs
                PROVE  \E e \in OfLesson(d.kb, d.lesson) :
                         Active(d.kb, d.lesson) = {e} /\ d.rev <= e.rev
    BY DEF ActiveIsLatest
  <2>1. d \in Row /\ d \in OfLesson(d.kb, d.lesson)
    BY DEF IngestInv, RowsOK, OfLesson
  <2>2. PICK n \in Nat : Numbered(d.kb, d.lesson, n)
    BY <2>1 DEF IngestInv, LessonsOK, Row
  <2>3. n \in Nat \ {0}
    BY <2>1, <2>2 DEF Numbered
  <2>. QED
    BY <2>1, <2>2, <2>3, LatestRow
<1>. QED
  BY <1>1, IngestInvariant, PTL

-----------------------------------------------------------------------------
(* The limit on pending tasks.  A request past the test and a task it has   *)
(* led to are counted together: the sum grows only where the test passes.   *)

Uploads(u) == {t \in Pending(u) : t[3] = "upload"}

PastTest(u) ==
  {r \in Requests : /\ req[r].pc \in {"allowed", "waiting", "deactivated", "saved"}
                    /\ req[r].user = u}

\* Every task has its document.
TasksHaveDocs == \A t \in tasks : \E d \in docs : d.kb = t[1] /\ d.hash = t[2]

LimitInv ==
  /\ IsFiniteSet(tasks)
  /\ TasksHaveDocs
  /\ \A u \in Users :
       Cardinality(Uploads(u)) + Cardinality(PastTest(u)) < MaxPending + Cardinality(Requests)

LEMMA RequestsFinite == IsFiniteSet(Requests) /\ Cardinality(Requests) \in Nat \ {0}
BY IngestionAssumption, FS_CardinalityType, FS_EmptySet DEF IngestionAssumption

LEMMA PastTestSize ==
  ASSUME NEW u
  PROVE  /\ IsFiniteSet(PastTest(u)) /\ Cardinality(PastTest(u)) \in Nat
         /\ Cardinality(PastTest(u)) <= Cardinality(Requests)
BY RequestsFinite, FS_Subset, FS_CardinalityType DEF PastTest

LEMMA UploadsSize ==
  ASSUME LimitInv, NEW u
  PROVE  /\ IsFiniteSet(Uploads(u)) /\ Cardinality(Uploads(u)) \in Nat
         /\ Cardinality(Pending(u)) \in Nat
         /\ Cardinality(Uploads(u)) <= Cardinality(Pending(u))
<1>1. IsFiniteSet(Pending(u))
  BY FS_Subset DEF Pending, LimitInv
<1>2. IsFiniteSet(Uploads(u)) /\ Cardinality(Uploads(u)) <= Cardinality(Pending(u))
  BY <1>1, FS_Subset DEF Uploads
<1>. QED
  BY <1>1, <1>2, FS_CardinalityType

LEMMA LimitInit == Init => LimitInv
<1>. SUFFICES ASSUME Init PROVE LimitInv
  OBVIOUS
<1>1. tasks = {} /\ \A u : Uploads(u) = {} /\ PastTest(u) = {}
  BY DEF Init, Uploads, Pending, PastTest, Idle
<1>2. Cardinality({}) = 0 /\ IsFiniteSet({})
  BY FS_EmptySet
<1>. QED
  BY <1>1, <1>2, RequestsFinite, IngestionAssumption DEF LimitInv, TasksHaveDocs, IngestionAssumption

\* A step that counts no upload more, for a user it may count one less.
LEMMA LimitShrinks ==
  ASSUME LimitInv, IsFiniteSet(tasks'), TasksHaveDocs',
         \A u \in Users : Uploads(u)' \subseteq Uploads(u) /\ PastTest(u)' \subseteq PastTest(u)
  PROVE  LimitInv'
<1>. SUFFICES ASSUME NEW u \in Users
              PROVE  Cardinality(Uploads(u)') + Cardinality(PastTest(u)')
                       < MaxPending + Cardinality(Requests)
  BY DEF LimitInv
<1>1. Cardinality(Uploads(u)') <= Cardinality(Uploads(u)) /\ IsFiniteSet(Uploads(u)')
  BY UploadsSize, FS_Subset
<1>2. Cardinality(PastTest(u)') <= Cardinality(PastTest(u)) /\ IsFiniteSet(PastTest(u)')
  BY PastTestSize, FS_Subset
<1>3. Cardinality(Uploads(u)') \in Nat /\ Cardinality(PastTest(u)') \in Nat
  BY <1>1, <1>2, FS_CardinalityType
<1>. QED
  BY <1>1, <1>2, <1>3, UploadsSize, PastTestSize, RequestsFinite, IngestionAssumption
     DEF LimitInv, IngestionAssumption

\* The test passes: fewer tasks than the limit, and no more requests than there are.
LEMMA LimitTest ==
  ASSUME IngestInv, LimitInv, NEW r \in Requests, req[r].pc = "unique", Goto(r, "allowed"),
         Cardinality(Pending(req[r].user)) < MaxPending, UNCHANGED <<docs, tasks>>
  PROVE  LimitInv'
<1>1. \A u : Pending(u)' = Pending(u) /\ Uploads(u)' = Uploads(u)
  BY DEF Pending, Uploads
<1>2. req[r] \in Uploading /\ req' = [req EXCEPT ![r].pc = "allowed"]
  BY DEF IngestInv, RequestsOK, Idle, Goto
<1>3. /\ req'[r].pc = "allowed" /\ req'[r].user = req[r].user
      /\ \A s \in Requests \ {r} : req'[s] = req[s]
  BY <1>2 DEF IngestInv, RequestsOK, Uploading
<1>. SUFFICES ASSUME NEW u \in Users
              PROVE  Cardinality(Uploads(u)') + Cardinality(PastTest(u)')
                       < MaxPending + Cardinality(Requests)
  BY DEF LimitInv, TasksHaveDocs
<1>4. CASE u = req[r].user
  <2>1. IsFiniteSet(Requests) /\ PastTest(u)' \subseteq Requests
    BY RequestsFinite DEF PastTest
  <2>2. Cardinality(PastTest(u)') <= Cardinality(Requests) /\ Cardinality(PastTest(u)') \in Nat
    BY <2>1, FS_Subset, FS_CardinalityType
  <2>. QED
    BY <1>1, <1>4, <2>2, UploadsSize, RequestsFinite, IngestionAssumption DEF IngestionAssumption
<1>5. CASE u # req[r].user
  <2>1. PastTest(u)' = PastTest(u)
    BY <1>3, <1>5 DEF PastTest
  <2>. QED
    BY <1>1, <2>1 DEF LimitInv
<1>. QED
  BY <1>4, <1>5

\* A commit turns a request past the test into a task.
LEMMA LimitCommit ==
  ASSUME IngestInv, LimitInv, NEW r \in Requests, CommitUpload(r)
  PROVE  LimitInv'
<1>. DEFINE t == <<req[r].kb, req[r].file.content, "upload">>
            v == req[r].user
<1>1. /\ req[r] \in Uploading /\ r \in Saved /\ req[r].pc = "saved"
      /\ docs' = {After(r, d) : d \in docs} \cup {NewDoc(r)}
      /\ tasks' = tasks \cup {t}
  BY CommitRows DEF CommitUpload
<1>2. \A d \in docs : /\ After(r, d).kb = d.kb /\ After(r, d).hash = d.hash
                      /\ After(r, d).by = d.by
  BY CommitRows DEF After, IngestInv, RowsOK, Row
<1>3. NewDoc(r).kb = t[1] /\ NewDoc(r).hash = t[2] /\ NewDoc(r).by = v
  BY DEF NewDoc
<1>4. \A d \in docs : ~(d.kb = t[1] /\ d.hash = t[2])
  BY <1>1 DEF IngestInv, SavedOK
<1>5. req'[r] = Idle /\ \A s \in Requests \ {r} : req'[s] = req[s]
  BY OthersStay DEF CommitUpload, Answer
<1>6. IsFiniteSet(tasks')
  BY <1>1, FS_AddElement DEF LimitInv
<1>7. TasksHaveDocs'
  BY <1>1, <1>2, <1>3 DEF LimitInv, TasksHaveDocs
\* No task but the new one is of the new document.
<1>8. ASSUME NEW u, NEW x \in Uploads(u)'
      PROVE  x \in Uploads(u) \/ (x = t /\ u = v)
  <2>1. x \in tasks' /\ x[3] = "upload"
    BY <1>8 DEF Uploads, Pending
  <2>2. PICK e \in docs' : e.kb = x[1] /\ e.hash = x[2] /\ e.by = u
    BY <1>8 DEF Uploads, Pending
  <2>3. CASE e = NewDoc(r)
    <3>1. x[1] = t[1] /\ x[2] = t[2] /\ u = v
      BY <1>3, <2>2, <2>3
    <3>2. x \notin tasks
      BY <1>4, <3>1 DEF LimitInv, TasksHaveDocs
    <3>. QED
      BY <1>1, <2>1, <3>1, <3>2
  <2>4. CASE \E d \in docs : e = After(r, d)
    <3>1. PICK d \in docs : d.kb = x[1] /\ d.hash = x[2] /\ d.by = u
      BY <1>2, <2>2, <2>4
    <3>2. x \in tasks
      BY <1>1, <1>4, <2>1, <3>1
    <3>. QED
      BY <2>1, <3>1, <3>2 DEF Uploads, Pending
  <2>. QED
    BY <1>1, <2>3, <2>4
<1>. SUFFICES ASSUME NEW u \in Users
              PROVE  Cardinality(Uploads(u)') + Cardinality(PastTest(u)')
                       < MaxPending + Cardinality(Requests)
  BY <1>6, <1>7 DEF LimitInv
<1>9. /\ IsFiniteSet(Uploads(u)) /\ Cardinality(Uploads(u)) \in Nat
      /\ IsFiniteSet(PastTest(u)) /\ Cardinality(PastTest(u)) \in Nat
      /\ Cardinality(Uploads(u)) + Cardinality(PastTest(u)) < MaxPending + Cardinality(Requests)
  BY UploadsSize, PastTestSize DEF LimitInv
<1>10. r \notin PastTest(u)' /\ PastTest(u)' = PastTest(u) \ {r}
  BY <1>5 DEF PastTest, Idle
<1>. HIDE DEF t, v
<1>11. CASE u = v
  <2>1. r \in PastTest(u)
    BY <1>1, <1>11 DEF PastTest, v
  <2>2. Cardinality(PastTest(u)') = Cardinality(PastTest(u)) - 1
    BY <1>9, <1>10, <2>1, FS_RemoveElement
  <2>3. Uploads(u)' \subseteq Uploads(u) \cup {t}
    BY <1>8
  <2>4. /\ IsFiniteSet(Uploads(u) \cup {t}) /\ Cardinality(Uploads(u) \cup {t}) \in Nat
        /\ Cardinality(Uploads(u) \cup {t}) <= Cardinality(Uploads(u)) + 1
    <3>1. PICK S : S = Uploads(u)
      OBVIOUS
    <3>2. /\ IsFiniteSet(S \cup {t})
          /\ Cardinality(S \cup {t}) = IF t \in S THEN Cardinality(S) ELSE Cardinality(S) + 1
      BY <1>9, <3>1, FS_AddElement
    <3>. QED
      BY <1>9, <3>1, <3>2, FS_CardinalityType
  <2>5. Cardinality(Uploads(u)') <= Cardinality(Uploads(u) \cup {t}) /\ Cardinality(Uploads(u)') \in Nat
    BY <2>3, <2>4, FS_Subset, FS_CardinalityType
  <2>. QED
    BY <1>9, <2>2, <2>4, <2>5, RequestsFinite, IngestionAssumption DEF IngestionAssumption
<1>12. CASE u # v
  <2>1. Uploads(u)' \subseteq Uploads(u) /\ PastTest(u)' \subseteq PastTest(u)
    BY <1>8, <1>10, <1>12
  <2>2. /\ Cardinality(Uploads(u)') <= Cardinality(Uploads(u)) /\ Cardinality(Uploads(u)') \in Nat
        /\ Cardinality(PastTest(u)') <= Cardinality(PastTest(u)) /\ Cardinality(PastTest(u)') \in Nat
    BY <1>9, <2>1, FS_Subset, FS_CardinalityType
  <2>. QED
    BY <1>9, <2>2, RequestsFinite, IngestionAssumption DEF IngestionAssumption
<1>. QED
  BY <1>11, <1>12

\* A request that answers or goes on, but not past the test, counts no more.
LEMMA LimitRequest ==
  ASSUME IngestInv, LimitInv, NEW r \in Requests, NEW q \in {Idle} \cup Uploading,
         req' = [req EXCEPT ![r] = q], UNCHANGED <<docs, tasks>>,
         q.pc \notin {"idle", "verified", "unique"} =>
           /\ req[r].pc \in {"allowed", "waiting", "deactivated", "saved"}
           /\ q.user = req[r].user
  PROVE  LimitInv'
<1>1. \A u : Uploads(u)' = Uploads(u)
  BY DEF Pending, Uploads
<1>2. \A u : PastTest(u)' \subseteq PastTest(u)
  BY OthersStay DEF PastTest
<1>3. IsFiniteSet(tasks') /\ TasksHaveDocs'
  BY DEF LimitInv, TasksHaveDocs
<1>. QED
  BY <1>1, <1>2, <1>3, LimitShrinks

LEMMA LimitAnswer ==
  ASSUME IngestInv, LimitInv, NEW r \in Requests, Answer(r), UNCHANGED <<docs, tasks>>
  PROVE  LimitInv'
BY LimitRequest DEF Answer, Idle

LEMMA LimitServe ==
  ASSUME IngestInv, LimitInv, NEW r \in Requests, ServeUpload(r)
  PROVE  LimitInv'
<1>1. ASSUME NEW pc \in {"unique", "saved"}, Goto(r, pc), UNCHANGED <<docs, tasks>>,
             req[r].pc = IF pc = "unique" THEN "verified" ELSE "deactivated"
      PROVE  LimitInv'
  <2>. DEFINE q == [req[r] EXCEPT !.pc = pc]
  <2>1. req[r] \in Uploading
    BY <1>1 DEF IngestInv, RequestsOK, Idle
  <2>2. q \in Uploading /\ q.pc = pc /\ q.user = req[r].user
    BY <2>1 DEF Uploading
  <2>. QED
    BY <1>1, <2>2, LimitRequest DEF Goto
<1>2. CASE CheckContent(r) \/ Save(r)
  BY <1>1, <1>2, LimitAnswer DEF CheckContent, Save
<1>3. CASE CheckPending(r)
  BY <1>3, LimitTest, LimitAnswer DEF CheckPending
<1>4. CASE Deactivate(r) \/ Resume(r)
  <2>1. req[r].pc \in {"allowed", "waiting"} /\ UNCHANGED <<docs, tasks>> /\ req[r] \in Uploading
    BY <1>4 DEF Deactivate, Resume, IngestInv, RequestsOK, Idle
  <2>2. /\ req'[r].user = req[r].user
        /\ \A s \in Requests \ {r} : req'[s] = req[s]
    <3>1. \/ Goto(r, "deactivated")
          \/ \E n, pc : req' = [req EXCEPT ![r].prev = n, ![r].pc = pc]
          \/ \E n, pc : req' = [req EXCEPT ![r].pc = pc, ![r].prev = n]
      <4>1. CASE Deactivate(r)
        BY <4>1 DEF Deactivate
      <4>2. CASE Resume(r)
        BY <4>2, Zenon DEF Resume
      <4>. QED
        BY <1>4, <4>1, <4>2
    <3>. QED
      BY <2>1, <3>1 DEF Goto, IngestInv, RequestsOK, Uploading
  <2>3. \A u : Uploads(u)' = Uploads(u) /\ PastTest(u)' \subseteq PastTest(u)
    BY <2>1, <2>2 DEF PastTest, Uploads, Pending
  <2>4. IsFiniteSet(tasks') /\ TasksHaveDocs'
    BY <2>1 DEF LimitInv, TasksHaveDocs
  <2>. QED
    BY <2>3, <2>4, LimitShrinks
<1>5. CASE CommitUpload(r)
  BY <1>5, LimitCommit
<1>. QED
  BY <1>2, <1>3, <1>4, <1>5 DEF ServeUpload

LEMMA LimitNext ==
  ASSUME IngestInv, LimitInv, [Next]_vars
  PROVE  LimitInv'
<1>1. ASSUME NEW r \in Requests, ServeUpload(r) \/ CutOff(r)
      PROVE  LimitInv'
  BY <1>1, LimitServe, LimitAnswer DEF CutOff
<1>2. ASSUME NEW r \in Requests, NEW u \in Users, NEW k \in KBs, NEW f \in Files,
             VerifyOwner(r, u, k, f)
      PROVE  LimitInv'
  <2>. DEFINE q == [pc |-> "verified", user |-> u, kb |-> k, file |-> f, prev |-> 0]
  <2>1. q \in Uploading
    BY DEF Uploading
  <2>. QED
    BY <1>2, <2>1, LimitRequest DEF VerifyOwner
<1>3. ASSUME UNCHANGED <<docs, req>>, IsFiniteSet(tasks'), TasksHaveDocs',
             \A t \in tasks' \ tasks : t[3] # "upload"
      PROVE  LimitInv'
  BY <1>3, LimitShrinks DEF Uploads, Pending, PastTest
<1>4. ASSUME NEW d \in docs, Reprocess(d)
      PROVE  LimitInv'
  <2>1. tasks' = tasks \cup {<<d.kb, d.hash, "reprocess">>} /\ UNCHANGED <<docs, req>>
    BY <1>4 DEF Reprocess
  <2>2. IsFiniteSet(tasks')
    BY <2>1, FS_AddElement DEF LimitInv
  <2>3. TasksHaveDocs'
    BY <2>1 DEF LimitInv, TasksHaveDocs
  <2>. QED
    BY <1>3, <2>1, <2>2, <2>3
<1>5. ASSUME tasks' \subseteq tasks, UNCHANGED <<docs, req>>
      PROVE  LimitInv'
  <2>1. IsFiniteSet(tasks') /\ TasksHaveDocs'
    BY <1>5, FS_Subset DEF LimitInv, TasksHaveDocs
  <2>. QED
    BY <1>3, <1>5, <2>1
<1>6. ASSUME NEW t \in Tasks, StartRun(t) \/ EndRun(t)
      PROVE  LimitInv'
  BY <1>5, <1>6 DEF StartRun, EndRun
<1>7. ASSUME NEW k \in KBs, NEW n, CreateKB(k, n) \/ RenameKB(k, n) \/ DeleteKB(k)
      PROVE  LimitInv'
  BY <1>5, <1>7 DEF CreateKB, RenameKB, DeleteKB
<1>8. CASE UNCHANGED vars
  BY <1>5, <1>8 DEF vars
<1>. QED
  BY <1>1, <1>2, <1>4, <1>6, <1>7, <1>8 DEF Next

\* However many uploads pass the test together before one of them stores its task, a
\* user's pending uploads stay below the limit plus the requests served at one time.
THEOREM IngestionOvershootBounded == Spec => []PendingOvershootBounded
<1>1. LimitInv => PendingOvershootBounded
  <2>. SUFFICES ASSUME LimitInv, NEW u \in Users
                PROVE  Cardinality(Uploads(u)) < MaxPending + Cardinality(Requests)
    BY DEF PendingOvershootBounded, Uploads
  <2>. QED
    BY UploadsSize, PastTestSize, RequestsFinite, IngestionAssumption DEF LimitInv, IngestionAssumption
<1>2. IngestInv /\ LimitInv /\ [Next]_vars => LimitInv'
  BY LimitNext
<1>. QED
  BY <1>1, <1>2, LimitInit, IngestInvariant, PTL DEF Spec

-----------------------------------------------------------------------------
(* Ingestion implements LessonHistory.                                      *)

Revisions(k, l) == [n \in 1 .. Cardinality(OfLesson(k, l)) |-> ContentOf(k, l, n)]

ServedContent(k, l) ==
  IF Active(k, l) = {} THEN None ELSE (CHOOSE d \in Active(k, l) : TRUE).hash

LEMMA NumberedCardinality ==
  ASSUME IngestInv, NEW k, NEW l, NEW n \in Nat, Numbered(k, l, n)
  PROVE  Cardinality(OfLesson(k, l)) = n
<1>. DEFINE S == OfLesson(k, l)
            f == [i \in 1 .. n |-> CHOOSE d \in S : d.rev = i]
<1>1. \A i \in 1 .. n : \E d \in S : d.rev = i
  BY DEF Numbered
<1>2. \A i \in 1 .. n : f[i] \in S /\ f[i].rev = i
  BY <1>1
<1>3. \A d \in S : d.rev \in 1 .. n
  BY DEF Numbered
<1>4. \A d, e \in S : d.rev = e.rev => d = e
  BY DEF IngestInv, RowsOK, OfLesson
<1>5. \A d \in S : f[d.rev] = d
  BY <1>2, <1>3, <1>4
<1>6. f \in [1 .. n -> S]
  BY <1>2
<1>. HIDE DEF f, S
<1>7. f \in Bijection(1 .. n, S)
  <2>1. \A i, j \in 1 .. n : f[i] = f[j] => i = j
    BY <1>2
  <2>2. \A d \in S : \E i \in 1 .. n : f[i] = d
    BY <1>3, <1>5
  <2>. QED
    BY <1>6, <2>1, <2>2 DEF Bijection, Injection, Surjection, IsInjective
<1>8. ExistsBijection(1 .. n, S)
  BY <1>7 DEF ExistsBijection
<1>. QED
  BY <1>8, FS_CountingElements DEF S

LEMMA ContentIs ==
  ASSUME IngestInv, NEW k, NEW l, NEW d \in OfLesson(k, l)
  PROVE  ContentOf(k, l, d.rev) = d.hash
<1>. DEFINE e == CHOOSE e \in OfLesson(k, l) : e.rev = d.rev
<1>1. e \in OfLesson(k, l) /\ e.rev = d.rev
  OBVIOUS
<1>2. e = d
  BY <1>1 DEF IngestInv, RowsOK, OfLesson
<1>. QED
  BY <1>2 DEF ContentOf

\* The contents of a numbered lesson, in order, and the one that is served.
ContentsOK ==
  \A k, l : \A n \in Nat : Numbered(k, l, n) =>
    /\ Revisions(k, l) \in Seq(Contents) /\ Len(Revisions(k, l)) = n
    /\ \A d \in OfLesson(k, l) : Revisions(k, l)[d.rev] = d.hash
    /\ \A i \in 1 .. n : \E d \in OfLesson(k, l) : d.rev = i /\ Revisions(k, l)[i] = d.hash
    /\ \A d \in OfLesson(k, l) : d.rev = n => ServedContent(k, l) = d.hash
    /\ n = 0 => ServedContent(k, l) = None

LEMMA ContentsFollow == IngestInv => ContentsOK
<1>. SUFFICES ASSUME IngestInv, NEW k, NEW l, NEW n \in Nat, Numbered(k, l, n)
              PROVE  /\ Revisions(k, l) \in Seq(Contents) /\ Len(Revisions(k, l)) = n
                     /\ \A d \in OfLesson(k, l) : Revisions(k, l)[d.rev] = d.hash
                     /\ \A i \in 1 .. n :
                          \E d \in OfLesson(k, l) : d.rev = i /\ Revisions(k, l)[i] = d.hash
                     /\ \A d \in OfLesson(k, l) : d.rev = n => ServedContent(k, l) = d.hash
                     /\ n = 0 => ServedContent(k, l) = None
  BY DEF ContentsOK
<1>1. Revisions(k, l) = [i \in 1 .. n |-> ContentOf(k, l, i)]
  BY NumberedCardinality DEF Revisions
<1>2. \A d \in OfLesson(k, l) : d.rev \in 1 .. n /\ d.hash \in Contents
  BY DEF Numbered, IngestInv, RowsOK, Row, OfLesson
<1>3. \A i \in 1 .. n : \E d \in OfLesson(k, l) : d.rev = i
  BY DEF Numbered
<1>4. \A d \in OfLesson(k, l) : Revisions(k, l)[d.rev] = d.hash
  BY <1>1, <1>2, ContentIs
<1>5. \A i \in 1 .. n : \E d \in OfLesson(k, l) : d.rev = i /\ Revisions(k, l)[i] = d.hash
  BY <1>3, <1>4
<1>6. \A i \in 1 .. n : Revisions(k, l)[i] \in Contents
  BY <1>2, <1>5
<1>7. Revisions(k, l) \in [1 .. n -> Contents]
  BY <1>1, <1>6
<1>8. Revisions(k, l) \in Seq(Contents) /\ Len(Revisions(k, l)) = n
  BY <1>7
<1>9. ASSUME NEW d \in OfLesson(k, l), d.rev = n
      PROVE  ServedContent(k, l) = d.hash
  <2>1. n \in Nat \ {0}
    BY <1>2, <1>9
  <2>2. Active(k, l) = {d}
    BY <1>9, <2>1, LatestRow DEF IngestInv, RowsOK, OfLesson
  <2>. QED
    BY <2>2 DEF ServedContent
<1>10. n = 0 => ServedContent(k, l) = None
  BY <1>2 DEF Active, ServedContent
<1>. QED
  BY <1>4, <1>5, <1>8, <1>9, <1>10

LEMMA ContentsFollowNext == IngestInv' => ContentsOK'
  BY ContentsFollow, PTL

\* What the committed row adds to its lesson.
LEMMA CommitAppends ==
  ASSUME IngestInv, NEW r \in Requests, CommitUpload(r),
         NEW k, NEW l, NEW c, k = req[r].kb, l = Lesson(r), c = req[r].file.content
  PROVE  /\ Revisions(k, l)' = Append(Revisions(k, l), c)
         /\ ServedContent(k, l)' = c
         /\ \A p, q : p # k \/ q # l => Revisions(p, q)' = Revisions(p, q)
                                        /\ ServedContent(p, q)' = ServedContent(p, q)
<1>1. PICK n : n = req[r].prev
  OBVIOUS
<1>2. n \in Nat /\ Numbered(k, l, n)
  BY <1>1, CommitRows DEF Uploading
<1>3. /\ Numbered(k, l, n + 1)'
      /\ OfLesson(k, l)' = {After(r, d) : d \in OfLesson(k, l)} \cup {NewDoc(r)}
      /\ \A p, q : p # k \/ q # l => OfLesson(p, q)' = OfLesson(p, q)
  BY <1>1, CommitNumbers
<1>4. NewDoc(r) \in OfLesson(k, l)' /\ NewDoc(r).rev = n + 1 /\ NewDoc(r).hash = c
  BY <1>1, <1>3 DEF NewDoc
<1>5. ContentsOK /\ ContentsOK'
  BY ContentsFollow, ContentsFollowNext, CommitKeeps
<1>6. /\ Revisions(k, l) \in Seq(Contents) /\ Len(Revisions(k, l)) = n
      /\ \A d \in OfLesson(k, l) : Revisions(k, l)[d.rev] = d.hash
      /\ \A i \in 1 .. n : \E d \in OfLesson(k, l) : d.rev = i /\ Revisions(k, l)[i] = d.hash
  BY <1>2, <1>5 DEF ContentsOK
<1>7. n + 1 \in Nat
  BY <1>2
<1>8. /\ Revisions(k, l)' \in Seq(Contents) /\ Len(Revisions(k, l)') = n + 1
      /\ \A d \in OfLesson(k, l)' : Revisions(k, l)'[d.rev] = d.hash
      /\ \A d \in OfLesson(k, l)' : d.rev = n + 1 => ServedContent(k, l)' = d.hash
  <2>1. PICK m \in Nat : m = n + 1
    BY <1>7
  <2>2. Numbered(k, l, m)'
    BY <1>3, <2>1
  <2>3. /\ Revisions(k, l)' \in Seq(Contents) /\ Len(Revisions(k, l)') = m
        /\ \A d \in OfLesson(k, l)' : Revisions(k, l)'[d.rev] = d.hash
        /\ \A d \in OfLesson(k, l)' : d.rev = m => ServedContent(k, l)' = d.hash
    BY <1>5, <2>2 DEF ContentsOK
  <2>. QED
    BY <2>1, <2>3
<1>9. \A i \in 1 .. n : Revisions(k, l)'[i] = Revisions(k, l)[i]
  <2>. SUFFICES ASSUME NEW i \in 1 .. n PROVE Revisions(k, l)'[i] = Revisions(k, l)[i]
    OBVIOUS
  <2>1. PICK d \in OfLesson(k, l) : d.rev = i /\ Revisions(k, l)[i] = d.hash
    BY <1>6
  <2>2. After(r, d).rev = i /\ After(r, d).hash = d.hash /\ After(r, d) \in OfLesson(k, l)'
    BY <1>3, <2>1, CommitRows DEF OfLesson
  <2>. QED
    BY <1>8, <2>1, <2>2
<1>10. c \in Contents
  BY CommitRows DEF Uploading, Contents
<1>11. Revisions(k, l)' = Append(Revisions(k, l), c)
  <2>1. Revisions(k, l)'[n + 1] = c
    BY <1>4, <1>8
  <2>. QED
    BY <1>2, <1>6, <1>8, <1>9, <1>10, <2>1
<1>12. \A p, q : p # k \/ q # l => Revisions(p, q)' = Revisions(p, q)
                                   /\ ServedContent(p, q)' = ServedContent(p, q)
  <2>. SUFFICES ASSUME NEW p, NEW q, p # k \/ q # l
                PROVE  /\ Revisions(p, q)' = Revisions(p, q)
                       /\ ServedContent(p, q)' = ServedContent(p, q)
    OBVIOUS
  <2>1. OfLesson(p, q)' = OfLesson(p, q)
    BY <1>3
  <2>2. Revisions(p, q)' = Revisions(p, q)
    BY <2>1 DEF Revisions, ContentOf
  <2>3. Active(p, q)' = Active(p, q)
    BY <2>1 DEF Active
  <2>. QED
    BY <2>2, <2>3 DEF ServedContent
<1>. QED
  BY <1>4, <1>8, <1>11, <1>12

\* The refinement mapping.
Bases == {k \in KBs : kbName[k] # None}
RevisionsMap == [p \in KBs \X Lessons |-> Revisions(p[1], p[2])]
ServedMap == [p \in KBs \X Lessons |-> ServedContent(p[1], p[2])]

\* The specification LessonHistory, read through the mapping.
LEMMA HistoryMapped ==
  /\ History!HistoryInit <=> /\ Bases = {}
                             /\ RevisionsMap = [p \in KBs \X Lessons |-> <<>>]
                             /\ ServedMap = [p \in KBs \X Lessons |-> None]
  /\ (UNCHANGED History!historyVars) <=>
       (Bases' = Bases /\ RevisionsMap' = RevisionsMap /\ ServedMap' = ServedMap)
  /\ \A k : History!Taken(k) =
       UNION {{RevisionsMap[<<k, l>>][i] : i \in DOMAIN RevisionsMap[<<k, l>>]} : l \in Lessons}
  /\ \A k : History!CreateBase(k) <=>
       Bases' = Bases \cup {k} /\ RevisionsMap' = RevisionsMap /\ ServedMap' = ServedMap
  /\ \A k : History!DeleteBase(k) <=>
       /\ History!Taken(k) = {}
       /\ Bases' = Bases \ {k} /\ RevisionsMap' = RevisionsMap /\ ServedMap' = ServedMap
  /\ \A k, l, c : History!Upload(k, l, c) <=>
       /\ k \in Bases /\ c \notin History!Taken(k)
       /\ RevisionsMap' = [RevisionsMap EXCEPT ![<<k, l>>] = Append(@, c)]
       /\ ServedMap' = [ServedMap EXCEPT ![<<k, l>>] = c]
       /\ Bases' = Bases
  BY DEF History!HistoryInit, History!historyVars, History!Taken, History!Elements,
         History!CreateBase, History!DeleteBase, History!Upload,
         Bases, RevisionsMap, ServedMap, Revisions, ServedContent

\* What a knowledge base has taken is what its rows hold.
LEMMA TakenIs ==
  ASSUME IngestInv, NEW k \in KBs
  PROVE  History!Taken(k) = {d.hash : d \in {d \in docs : d.kb = k}}
<1>1. \A l \in Lessons : RevisionsMap[<<k, l>>] = Revisions(k, l)
  BY DEF RevisionsMap
<1>2. ASSUME NEW l \in Lessons
      PROVE  {Revisions(k, l)[i] : i \in DOMAIN Revisions(k, l)} = {d.hash : d \in OfLesson(k, l)}
  <2>1. PICK n \in Nat : Numbered(k, l, n)
    BY DEF IngestInv, LessonsOK
  <2>2. /\ Revisions(k, l) \in Seq(Contents) /\ Len(Revisions(k, l)) = n
        /\ \A d \in OfLesson(k, l) : Revisions(k, l)[d.rev] = d.hash
        /\ \A i \in 1 .. n : \E d \in OfLesson(k, l) : d.rev = i /\ Revisions(k, l)[i] = d.hash
    BY <2>1, ContentsFollow DEF ContentsOK
  <2>3. DOMAIN Revisions(k, l) = 1 .. n
    BY <2>2
  <2>4. \A d \in OfLesson(k, l) : d.rev \in 1 .. n
    BY <2>1 DEF Numbered
  <2>. QED
    BY <2>2, <2>3, <2>4
<1>3. \A d \in docs : d.kb = k => d \in OfLesson(k, d.lesson) /\ d.lesson \in Lessons
  BY DEF OfLesson, IngestInv, RowsOK, Row
<1>4. \A l : OfLesson(k, l) \subseteq {d \in docs : d.kb = k}
  BY DEF OfLesson
<1>5. \A l \in Lessons : {RevisionsMap[<<k, l>>][i] : i \in DOMAIN RevisionsMap[<<k, l>>]}
                        = {d.hash : d \in OfLesson(k, l)}
  BY <1>1, <1>2
<1>6. \A x : x \in History!Taken(k) <=> \E l \in Lessons : x \in {d.hash : d \in OfLesson(k, l)}
  <2>1. \A x : x \in History!Taken(k) <=>
          \E l \in Lessons : x \in {RevisionsMap[<<k, l>>][i] : i \in DOMAIN RevisionsMap[<<k, l>>]}
    <3>1. History!Taken(k) =
            UNION {{RevisionsMap[<<k, l>>][i] : i \in DOMAIN RevisionsMap[<<k, l>>]} : l \in Lessons}
      BY HistoryMapped
    <3>. QED
      BY <3>1
  <2>. QED
    BY <1>5, <2>1
<1>7. \A x : x \in History!Taken(k) <=> x \in {d.hash : d \in {d \in docs : d.kb = k}}
  BY <1>3, <1>4, <1>6
<1>. QED
  BY <1>7

LEMMA HistoryStep ==
  ASSUME IngestInv, [Next]_vars
  PROVE  [History!HistoryNext]_(History!historyVars)
<1>1. ASSUME NEW r \in Requests, CommitUpload(r)
      PROVE  History!HistoryNext
  <2>1. PICK k, l, c : k = req[r].kb /\ l = Lesson(r) /\ c = req[r].file.content
    OBVIOUS
  <2>2. k \in KBs /\ l \in Lessons /\ c \in Contents /\ r \in Saved
    BY <2>1, CommitRows, <1>1 DEF Uploading, Contents
  <2>3. k \in Bases /\ Bases' = Bases
    BY <1>1, <2>1, <2>2 DEF Bases, CommitUpload, IngestInv, SavedOK
  <2>4. c \notin History!Taken(k)
    BY <2>1, <2>2, TakenIs DEF IngestInv, SavedOK
  <2>5. /\ Revisions(k, l)' = Append(Revisions(k, l), c)
        /\ ServedContent(k, l)' = c
        /\ \A p, q : p # k \/ q # l => Revisions(p, q)' = Revisions(p, q)
                                       /\ ServedContent(p, q)' = ServedContent(p, q)
    BY <1>1, <2>1, CommitAppends
  <2>6. /\ <<k, l>> \in KBs \X Lessons
        /\ \A p \in KBs \X Lessons : p # <<k, l>> => p[1] # k \/ p[2] # l
    BY <2>2
  <2>7. RevisionsMap' = [RevisionsMap EXCEPT ![<<k, l>>] = Append(@, c)]
    <3>1. RevisionsMap' = [p \in KBs \X Lessons |-> Revisions(p[1], p[2])']
      BY DEF RevisionsMap, Lessons
    <3>2. \A p \in KBs \X Lessons : Revisions(p[1], p[2])' =
            IF p = <<k, l>> THEN Append(RevisionsMap[p], c) ELSE RevisionsMap[p]
      BY <2>5, <2>6 DEF RevisionsMap
    <3>3. RevisionsMap = [p \in KBs \X Lessons |-> RevisionsMap[p]]
      BY DEF RevisionsMap
    <3>. QED
      BY <2>6, <3>1, <3>2, <3>3
  <2>8. ServedMap' = [ServedMap EXCEPT ![<<k, l>>] = c]
    <3>1. ServedMap' = [p \in KBs \X Lessons |-> ServedContent(p[1], p[2])']
      BY DEF ServedMap, Lessons
    <3>2. \A p \in KBs \X Lessons : ServedContent(p[1], p[2])' =
            IF p = <<k, l>> THEN c ELSE ServedMap[p]
      BY <2>5, <2>6 DEF ServedMap
    <3>3. ServedMap = [p \in KBs \X Lessons |-> ServedMap[p]]
      BY DEF ServedMap
    <3>. QED
      BY <2>6, <3>1, <3>2, <3>3
  <2>9. History!Upload(k, l, c)
    BY <2>3, <2>4, <2>7, <2>8, HistoryMapped
  <2>. QED
    BY <2>2, <2>9 DEF History!HistoryNext
<1>2. CASE \A r \in Requests : ~CommitUpload(r)
  <2>1. docs' = docs
    BY <1>2, IngestStep
  <2>2. RevisionsMap' = RevisionsMap /\ ServedMap' = ServedMap
    BY <2>1 DEF RevisionsMap, ServedMap, Revisions, ServedContent, Active, ContentOf, OfLesson
  <2>3. ASSUME NEW k \in KBs, NEW n \in Names, CreateKB(k, n) \/ RenameKB(k, n)
        PROVE  History!HistoryNext
    <3>1. Bases' = Bases \cup {k}
      BY <2>3, IngestionAssumption DEF CreateKB, RenameKB, Bases, IngestInv, BasesOK
    <3>. QED
      BY <2>2, <3>1, HistoryMapped DEF History!HistoryNext
  <2>4. ASSUME NEW k \in KBs, DeleteKB(k)
        PROVE  History!HistoryNext
    <3>1. Bases' = Bases \ {k}
      BY <2>4 DEF DeleteKB, Bases, IngestInv, BasesOK
    <3>2. History!Taken(k) = {}
      BY <2>4, TakenIs DEF DeleteKB
    <3>. QED
      BY <2>2, <3>1, <3>2, HistoryMapped DEF History!HistoryNext
  <2>5. CASE kbName' = kbName
    <3>1. Bases' = Bases
      BY <2>5 DEF Bases
    <3>. QED
      BY <2>2, <3>1, HistoryMapped
  <2>6. ASSUME NEW r \in Requests, ServeUpload(r) \/ CutOff(r)
        PROVE  kbName' = kbName
    BY <1>2, <2>6 DEF ServeUpload, CheckContent, CheckPending, Deactivate, Resume, Save, CutOff
  <2>7. ASSUME NEW r \in Requests, NEW u \in Users, NEW k \in KBs, NEW f \in Files,
               VerifyOwner(r, u, k, f)
        PROVE  kbName' = kbName
    BY <2>7 DEF VerifyOwner
  <2>8. ASSUME \/ \E t \in Tasks : StartRun(t) \/ EndRun(t)
               \/ \E d \in docs : Reprocess(d)
               \/ UNCHANGED vars
        PROVE  kbName' = kbName
    BY <2>8 DEF StartRun, EndRun, Reprocess, vars
  <2>. QED
    BY <2>3, <2>4, <2>5, <2>6, <2>7, <2>8 DEF Next
<1>. QED
  BY <1>1, <1>2

\* Ingestion implements LessonHistory: every committed upload appends one content to its
\* lesson and serves it, nothing else changes a lesson, and no content is taken twice.
THEOREM IngestionRefinesHistory == Spec => HistoryRefined
<1>1. Init => History!HistoryInit
  <2>. SUFFICES ASSUME Init PROVE History!HistoryInit
    OBVIOUS
  <2>1. \A k \in KBs, l \in Lessons : Numbered(k, l, 0)
    BY DEF Init, Numbered, OfLesson
  <2>2. ContentsOK
    BY IngestInit, ContentsFollow
  <2>3. \A k \in KBs, l \in Lessons : Revisions(k, l) = <<>> /\ ServedContent(k, l) = None
    <3>1. \A k \in KBs, l \in Lessons : /\ Revisions(k, l) \in Seq(Contents) /\ Len(Revisions(k, l)) = 0
                                        /\ ServedContent(k, l) = None
      BY <2>1, <2>2 DEF ContentsOK
    <3>. QED
      BY <3>1
  <2>4. Bases = {}
    BY DEF Init, Bases
  <2>5. /\ RevisionsMap = [p \in KBs \X Lessons |-> <<>>]
        /\ ServedMap = [p \in KBs \X Lessons |-> None]
    BY <2>3 DEF RevisionsMap, ServedMap
  <2>. QED
    BY <2>4, <2>5, HistoryMapped
<1>2. IngestInv /\ [Next]_vars => [History!HistoryNext]_(History!historyVars)
  BY HistoryStep
<1>. QED
  BY <1>1, <1>2, IngestInvariant, PTL DEF Spec, HistoryRefined, History!HistorySpec

=============================================================================
