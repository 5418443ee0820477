-------------------------- MODULE MCDaemonLifecycle --------------------------
(* An instance of the daemon's life cycle for TLC: MCLifecycleSignal.cfg     *)
(* runs one daemon the way main.rs does.                                     *)
EXTENDS DaemonLifecycle
=============================================================================
