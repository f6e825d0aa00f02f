----------------------------- MODULE MCPipeline -----------------------------
(* Pipeline on small instances: the cell is created by c and spent by s.     *)
EXTENDS Pipeline
=============================================================================
