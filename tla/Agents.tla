------------------------------- MODULE Agents -------------------------------
(***************************************************************************)
(* What each agent of the pipeline makes of a model's answer.  Its kind is *)
(* "error" (the gateway raised), "text" (no JSON), "misshapen" (JSON but   *)
(* not what was asked for) or "json".  The agents that need an answer fail *)
(* without one; what they do with one that cannot be read differs.         *)
(***************************************************************************)
LOCAL INSTANCE FiniteSets

CONSTANTS None,
          Unknown   \* the key dedupe_key gives a name without letters

NoContent == {"error", "text", "misshapen"}

\* What of the context the agents read and write; cleaned is its metadata.
EmptyContext == [cleaned |-> FALSE, validation |-> None, images |-> {}, articles |-> {},
                 summary |-> None, map |-> None]

Done(x) == [ok |-> TRUE, context |-> x]
Failed(x) == [ok |-> FALSE, context |-> x]

\* The next step runs only if this one succeeded.
Then(outcome, Step(_)) == IF outcome.ok THEN Step(outcome.context) ELSE outcome

\* RelevanceGuardAgent: with no concepts to compare with everything is accepted.  a
\* is "relevant", "doubtful" (irrelevant with little confidence) or "irrelevant".
GuardRelevance(x, concepts, a) ==
  IF concepts = {} THEN Done([x EXCEPT !.validation = "relevant"])
  ELSE CASE a \in {"error", "misshapen"} -> Failed(x)
         [] a = "text" -> Done([x EXCEPT !.validation = "relevant"])
         [] a = "irrelevant" -> Failed([x EXCEPT !.validation = a])
         [] OTHER -> Done([x EXCEPT !.validation = a])

\* ImageAnalyzerAgent: the image that could not be described gets a placeholder.
AnalyzeImages(x, enabled, images, failures) ==
  Done(IF enabled
       THEN [x EXCEPT !.images = {<<i, IF i \in failures THEN None ELSE i>> : i \in images}]
       ELSE x)

\* PreprocessorAgent: any answer is the cleaned content.
Preprocess(x, a) == IF a = "error" THEN Failed(x) ELSE Done([x EXCEPT !.cleaned = TRUE])

\* ArticleFetcherAgent: of the URLs the model calls articles, those that can be
\* fetched; none if there are no links or no classification.
FetchArticles(x, enabled, links, a, reachable) ==
  IF ~enabled \/ links = {} \/ a.kind \in {"error", "text"} THEN Done([x EXCEPT !.articles = {}])
  ELSE IF a.kind = "misshapen" THEN Failed(x)
  ELSE Done([x EXCEPT !.articles = a.urls \cap reachable])

\* SummarizerAgent: an answer that is not JSON becomes the summary, without points.
Summarize(x, a) ==
  CASE a.kind \in {"error", "misshapen"} -> Failed(x)
    [] a.kind = "text" -> Done([x EXCEPT !.summary = [text |-> a.text, points |-> {}]])
    [] OTHER -> Done([x EXCEPT !.summary = [text |-> a.text, points |-> a.points]])

\* ConceptMapperAgent: an unreadable answer is an empty map; relations whose ends
\* are not both concepts of the map are dropped.
MapConcepts(x, a) ==
  IF x.summary = None \/ a.kind = "error" THEN Failed(x)
  ELSE IF a.kind \in {"text", "misshapen"} THEN Done([x EXCEPT !.map = [keys |-> {}, edges |-> {}]])
  ELSE LET valid == a.keys \ {Unknown}
       IN Done([x EXCEPT !.map = [keys |-> valid, edges |-> a.edges \cap (valid \X valid)]])

=============================================================================
