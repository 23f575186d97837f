------------------------------ MODULE MCAgentHub ------------------------------
(* One agent with catalog requests, or two rival agents of one owner, by the configuration. *)
EXTENDS AgentHub

=============================================================================
