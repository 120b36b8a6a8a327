---------------------------- MODULE MCPipeline ----------------------------
(* Pipeline for TLC; the configurations give the constants. *)
EXTENDS Pipeline

CONSTANTS v1, v2, bad
=============================================================================
