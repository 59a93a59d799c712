-------------------------- MODULE MCAgentPipeline --------------------------
(***************************************************************************)
(* AgentPipeline for one request: requests share nothing but the           *)
(* orchestrator, whose stop loses all it has accepted.                     *)
(***************************************************************************)
EXTENDS AgentPipeline

CONSTANT r1
=============================================================================
