--------------------------- MODULE MCAgentPipeline ---------------------------
(***************************************************************************)
(* The smallest queues: each of the three that are bounded holds one item, *)
(* so that every one is full and empty many times in a run.                *)
(***************************************************************************)
EXTENDS AgentPipeline
=============================================================================
