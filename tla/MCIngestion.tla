---------------------------- MODULE MCIngestion ----------------------------
EXTENDS Ingestion

NoProps == [lesson_id |-> None, title |-> None, pdf_title |-> None]

Sound == [flaws |-> {}, stem |-> "index", ext |-> ".md", size |-> 1, pages |-> 1,
          corrupt |-> FALSE, props |-> NoProps, content |-> "c1"]

\* Three contents of two lessons, and one file for each way of being refused
\* before anything is stored.  The title of the first file would place it in the
\* other lesson; the name of the second is reserved.
MCFiles ==
  { [Sound EXCEPT !.props = [NoProps EXCEPT !.lesson_id = "l1", !.title = "Two"]],
    [Sound EXCEPT !.ext = ".pdf", !.props = [NoProps EXCEPT !.title = "One"], !.content = "c2"],
    [Sound EXCEPT !.ext = ".txt", !.stem = "Two", !.content = "c3"],
    [Sound EXCEPT !.ext = ".pdf", !.pages = 3, !.content = "c4"],
    [Sound EXCEPT !.flaws = {"dots"}, !.content = "c4"],
    [Sound EXCEPT !.ext = ".docx", !.content = "c4"] }

MCSlug == [t \in {None, "One", "Two", "l1", "index"} |->
             CASE t = "One" -> "l1" [] t = "Two" -> "l2" [] OTHER -> t]

MCFormatMax == [m \in {"markdown", "text", "pdf", "docx"} |-> 2]

MCOwner == [k \in KBs |-> CHOOSE u \in Users : TRUE]

=============================================================================
