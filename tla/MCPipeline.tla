----------------------------- MODULE MCPipeline -----------------------------
(* The pipeline with a few lines, one of them unparsable and one sampled.  *)
EXTENDS Pipeline

NoLines == {}
First == {1}
Second == {2}

=============================================================================
