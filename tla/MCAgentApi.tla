----------------------------- MODULE MCAgentApi -----------------------------
(* AgentApi for TLC: two handlers at work on one browser's conversation.   *)
EXTENDS AgentApi
=============================================================================
