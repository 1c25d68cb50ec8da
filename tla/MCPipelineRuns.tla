--------------------------- MODULE MCPipelineRuns ---------------------------
(* Instances of PipelineRuns for TLC: no symmetry, as liveness is checked too. *)
EXTENDS PipelineRuns, TLC
=============================================================================
