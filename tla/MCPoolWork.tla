----------------------------- MODULE MCPoolWork -----------------------------
(* Two views of the work on a task, each explored on its own: who holds it   *)
(* in a pool whose agents wait for humans, and the stages and rounds it goes *)
(* through by the decisions on its outputs.                                  *)
EXTENDS MCWorkerPool, TaskWorkflow

VARIABLE view

viewVars == <<view, vars, workflowVars>>

\* The one end: the process has died and left a file that cannot be read.
WorkflowEnds == ~wup /\ recorded = HalfFile /\ UNCHANGED workflowVars

\* An initial choice of the pool is fixed while it is not explored.
ViewInit ==
    /\ view \in {"pool", "workflow"}
    /\ Init /\ (view = "pool" \/ (nextIndex = 1 /\ \A t \in Tasks : backlog[t] = "Ready"))
    /\ WorkflowInit

ViewNext ==
    \/ view = "pool" /\ Next /\ UNCHANGED <<view, workflowVars>>
    \/ view = "workflow" /\ (WorkflowNext \/ WorkflowEnds) /\ UNCHANGED <<view, vars>>

ViewSpec == ViewInit /\ [][ViewNext]_viewVars
=============================================================================
