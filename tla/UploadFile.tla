----------------------------- MODULE UploadFile -----------------------------
(***************************************************************************)
(* What an upload says before anything is stored: the sanitizer's verdict  *)
(* on its name and size, what the parser of its format reads from it, and  *)
(* the lesson it belongs to.                                               *)
(*                                                                         *)
(* A file is a record                                                      *)
(*   flaws : what is wrong with the path it was sent under,                *)
(*   stem, ext : the name that is left of it,                              *)
(*   size, pages, corrupt : of its bytes,                                  *)
(*   props : the texts its format carries (front matter, PDF information,  *)
(*           core properties), None where absent,                          *)
(*   content : its SHA-256.                                                *)
(* Texts are opaque; what counts of them is their slug and whether they    *)
(* may be a lesson_id.                                                     *)
(***************************************************************************)
EXTENDS Naturals, Sequences

CONSTANTS Files,       \* the files that may be sent
          Slug,        \* slugify, a function on texts
          WellFormed,  \* the texts made of a-z, 0-9, - and _ only
          Long,        \* the texts of more than 80 characters
          Reserved,    \* "__init__", "index", "default"
          GlobalMax,   \* max_document_size_mb, in bytes
          FormatMax,   \* the cap of each format, in bytes
          MaxPages,    \* the PDF parser's page limit
          None         \* an absent text

Mime == [ext \in {".md", ".markdown", ".txt", ".pdf", ".docx"} |->
           CASE ext \in {".md", ".markdown"} -> "markdown"
             [] ext = ".txt" -> "text"
             [] ext = ".pdf" -> "pdf"
             [] ext = ".docx" -> "docx"]

\* sanitize_filename: an empty name, "..", an empty basename, an absolute or a
\* drive-qualified path, or an unknown extension.
Sanitized(f) ==
  /\ f.flaws \cap {"empty", "dots", "nobase", "absolute", "drive"} = {}
  /\ f.ext \in DOMAIN Mime

\* validate: the global cap, then the cap of the format.
Validated(f) ==
  /\ Sanitized(f)
  /\ f.size <= GlobalMax
  /\ f.size <= FormatMax[Mime[f.ext]]

\* The parsers refuse a file their library cannot open and a PDF with too many
\* pages; Markdown and text are decoded with replacement characters.
Parses(f) ==
  CASE Mime[f.ext] = "pdf" -> ~f.corrupt /\ f.pages <= MaxPages
    [] Mime[f.ext] \in {"markdown", "docx"} -> ~f.corrupt
    [] OTHER -> TRUE

NoMetadata == [lesson_id |-> None, title |-> None, pdf_title |-> None]

\* Markdown: the front matter as it is.
MarkdownMetadata(f) == f.props

\* PDF: the title, under a key of its own.
PdfMetadata(f) == [NoMetadata EXCEPT !.pdf_title = f.props.title]

\* DOCX: the title of the core properties.
DocxMetadata(f) == [NoMetadata EXCEPT !.title = f.props.title]

\* The metadata the parser registered for the format passes on; text has none.
Metadata(f) ==
  CASE Mime[f.ext] = "markdown" -> MarkdownMetadata(f)
    [] Mime[f.ext] = "pdf" -> PdfMetadata(f)
    [] Mime[f.ext] = "docx" -> DocxMetadata(f)
    [] OTHER -> NoMetadata

\* LessonIdentity._validate
ValidId(t) == t \in WellFormed \ (Long \cup Reserved)

\* The ids LessonIdentity.resolve tries: lesson_id as it is, the others slugified.
Candidates(f) ==
  <<Metadata(f).lesson_id, Slug[Metadata(f).title], Slug[Metadata(f).pdf_title], Slug[f.stem]>>

\* LessonIdentity.resolve: the first candidate that is valid.
LessonOf ==
  [f \in Files |->
   LET valid == {i \in 1 .. 4 : ValidId(Candidates(f)[i])}
   IN IF valid = {} THEN None
      ELSE Candidates(f)[CHOOSE i \in valid : \A j \in valid : i <= j]]

=============================================================================
