---------------------------- MODULE MCAgentMail ----------------------------
(* Two agents, two mails and a restart of the host. *)
EXTENDS AgentMail
=============================================================================
