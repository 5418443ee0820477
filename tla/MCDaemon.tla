------------------------------ MODULE MCDaemon ------------------------------
(* The two sides of the daemon, which share no state, each explored on its   *)
(* own: three clients compete for two slots while three events are           *)
(* broadcast, and two daemons and two clients, of which one is the command   *)
(* line, meet at daemon.json.                                                *)
EXTENDS DaemonStream, DaemonLifecycle

VARIABLE side

daemonVars == <<side, vars, lifecycleVars>>

DaemonInit == side \in {"stream", "life cycle"} /\ Init /\ LifecycleInit

DaemonNext ==
    \/ side = "stream" /\ Next /\ UNCHANGED <<side, lifecycleVars>>
    \/ side = "life cycle" /\ LifecycleNext /\ UNCHANGED <<side, vars>>

\* The life cycle has no fairness: its run asks for safety only.
DaemonSpec == DaemonInit /\ [][DaemonNext]_daemonVars /\ Fairness
=============================================================================
