--------------------------- MODULE LessonHistory ---------------------------
(***************************************************************************)
(* What document ingestion promises, with no requests, transactions, locks *)
(* or flags: in a knowledge base a lesson is a sequence of contents, an    *)
(* upload appends one, no content is taken twice, and the content served   *)
(* is the last one.  Ingestion implements this specification.              *)
(***************************************************************************)
EXTENDS Naturals, Sequences

CONSTANTS KBs, Lessons, Contents, NoContent

VARIABLES bases,      \* the knowledge bases that exist
          revisions,  \* per knowledge base and lesson, the contents in order
          served      \* per knowledge base and lesson, the active content

historyVars == <<bases, revisions, served>>

Elements(s) == {s[i] : i \in DOMAIN s}

Taken(k) == UNION {Elements(revisions[<<k, l>>]) : l \in Lessons}

HistoryInit ==
  /\ bases = {}
  /\ revisions = [p \in KBs \X Lessons |-> <<>>]
  /\ served = [p \in KBs \X Lessons |-> NoContent]

CreateBase(k) ==
  /\ bases' = bases \cup {k}
  /\ UNCHANGED <<revisions, served>>

\* Only an empty knowledge base goes away.
DeleteBase(k) ==
  /\ Taken(k) = {}
  /\ bases' = bases \ {k}
  /\ UNCHANGED <<revisions, served>>

Upload(k, l, c) ==
  /\ k \in bases
  /\ c \notin Taken(k)
  /\ revisions' = [revisions EXCEPT ![<<k, l>>] = Append(@, c)]
  /\ served' = [served EXCEPT ![<<k, l>>] = c]
  /\ UNCHANGED bases

HistoryNext ==
  \E k \in KBs : \/ CreateBase(k) \/ DeleteBase(k)
                 \/ \E l \in Lessons, c \in Contents : Upload(k, l, c)

HistorySpec == HistoryInit /\ [][HistoryNext]_historyVars

=============================================================================
