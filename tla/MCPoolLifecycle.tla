--------------------------- MODULE MCPoolLifecycle ---------------------------
(* The life of agents, of their worktrees and of the mail between them, each *)
(* explored on its own: the slots of the pool, whose worktrees are left out, *)
(* the worktrees, whose slots have only what matters to them, or the mail of *)
(* agents that stay.                                                         *)
EXTENDS MCWorkerPool, Worktrees, AgentMail

VARIABLE part

partVars == <<part, vars, treeVars, mailVars>>

\* An initial choice of a part is fixed while it is not explored.
PartInit ==
    /\ part \in {"slots", "worktrees", "mail"}
    /\ Init /\ (part = "slots" \/ (nextIndex = 1 /\ \A t \in Tasks : backlog[t] = "Ready"))
    /\ TreeInit
    /\ MailInit /\ (part = "mail" \/ host = "daemon")

PartNext ==
    \/ part = "slots" /\ Next /\ UNCHANGED <<part, treeVars, mailVars>>
    \/ part = "worktrees" /\ TreeNext /\ UNCHANGED <<part, vars, mailVars>>
    \/ part = "mail" /\ MailNext /\ UNCHANGED <<part, vars, treeVars>>

PartSpec == PartInit /\ [][PartNext]_partVars
=============================================================================
