----------------------------- MODULE MCAgentLoop -----------------------------
(* The turns of the Lead, with two interventions.                          *)
EXTENDS AgentLoop
==============================================================================
