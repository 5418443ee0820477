------------------------- MODULE MCProviderRuntime -------------------------
(* The provider runtime with small sets of agents, threads and events.      *)
EXTENDS ProviderRuntime
=============================================================================
