------------------------------ MODULE MCPipeV2 ------------------------------
(* Instances of PipeV2 for TLC: the constants come from the .cfg files.      *)
EXTENDS PipeV2
=============================================================================
