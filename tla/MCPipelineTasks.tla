--------------------------- MODULE MCPipelineTasks ---------------------------
EXTENDS PipelineTasks

\* Two submissions of one document: an upload and a reprocess request.
OneDoc == [t \in Tasks |-> CHOOSE d \in Docs : TRUE]

=============================================================================
