----------------------------- MODULE MCAgentSync -----------------------------
(* AgentSync for TLC: two bots.                                             *)
EXTENDS AgentSync
===============================================================================
