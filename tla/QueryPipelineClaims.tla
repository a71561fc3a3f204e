------------------------ MODULE QueryPipelineClaims ------------------------
(***************************************************************************)
(* A docstring of the repository that the code does not keep.              *)
(***************************************************************************)
EXTENDS QueryPipeline

\* llm/graph/nodes/show_schema.py:1 "answers schema introspection questions
\* directly from cache": a turn resolved to it does not abort.
SchemaQuestionIsAnswered == st.action = "show_schema" => pc # "raised"
=============================================================================
