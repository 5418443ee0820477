----------------------------- MODULE SlotStatus -----------------------------
(***************************************************************************)
(* The two state machines every agent carries: the operational             *)
(* AgentSlotStatus of its slot (core/src/slot/status.rs) and the domain    *)
(* WorkerState of its Worker aggregate (agent/runtime-domain).             *)
(*                                                                         *)
(* A slot status is a record [kind, tag]: the enum variant, and the part   *)
(* of its payload that the code's equality test or the mapping to          *)
(* WorkerState looks at (a blocking reason, a stop reason).  Time stamps   *)
(* are not kept: a status built with Instant::now() never equals an        *)
(* earlier one.                                                            *)
(***************************************************************************)
EXTENDS Naturals

SlotKinds ==
    {"Idle", "Starting", "Responding", "ToolExecuting", "Finishing",
     "Stopping", "Stopped", "Error", "Blocked", "BlockedForDecision",
     "Paused", "WaitingForInput", "Resting"}

WorkerStates ==
    {"Idle", "Starting", "Responding", "ProcessingTool", "Completed",
     "Failed", "Blocked", "Paused", "WaitingForInput", "Resting",
     "Finishing", "Stopping"}

\* Statuses that carry no reason use the tag "none".
Plain(kind) == [kind |-> kind, tag |-> "none"]
Tagged(kind, tag) == [kind |-> kind, tag |-> tag]

\* The targets a slot may always move to, whatever the payloads.
SlotSuccessors ==
    [k \in SlotKinds |->
        CASE k = "Idle" ->
                {"Starting", "Blocked", "BlockedForDecision", "Stopped", "Paused"}
          [] k = "Starting" ->
                {"Idle", "Responding", "Stopping", "Blocked",
                 "BlockedForDecision", "Error", "Paused", "Stopped"}
          [] k = "Responding" ->
                {"Idle", "ToolExecuting", "Finishing", "Stopping", "Blocked",
                 "BlockedForDecision", "Error", "Paused", "WaitingForInput",
                 "Stopped"}
          [] k = "ToolExecuting" ->
                {"Idle", "Responding", "Finishing", "Stopping", "Blocked",
                 "BlockedForDecision", "Error", "Paused", "WaitingForInput",
                 "Stopped"}
          [] k = "Finishing" ->
                {"Idle", "Stopping", "Blocked", "BlockedForDecision", "Error",
                 "Paused", "Stopped"}
          [] k = "Stopping" -> {"Stopped", "Error"}
          [] k = "Stopped" -> {"Starting"}
          [] k = "Error" -> {"Idle", "Stopped"}
          [] k = "Blocked" ->
                {"Idle", "Responding", "Stopped", "Paused", "BlockedForDecision"}
          [] k = "BlockedForDecision" ->
                {"Idle", "Responding", "Stopped", "Paused", "Blocked", "Resting"}
          [] k = "Paused" -> {"Idle", "Stopped"}
          [] k = "WaitingForInput" ->
                {"Responding", "Idle", "Stopping", "Blocked",
                 "BlockedForDecision", "Stopped"}
          [] k = "Resting" -> {"Idle", "Error", "Stopped", "Resting"}]

\* Statuses stamped with the moment they are entered: two are never equal.
Timestamped == {"Responding", "WaitingForInput"}

\* AgentSlotStatus::can_transition_to: the table, or an equal status.
CanTransition(s, t) ==
    \/ t.kind \in SlotSuccessors[s.kind]
    \/ s = t /\ s.kind \notin Timestamped

IsActive(s) == s.kind \in {"Starting", "Responding", "ToolExecuting", "Finishing"}
IsBlocked(s) == s.kind \in {"Blocked", "BlockedForDecision", "Resting"}
IsIdle(s) == s.kind = "Idle"
IsTerminal(s) == s.kind = "Stopped"
IsWaiting(s) == s.kind = "WaitingForInput"

\* AgentSlotStatus::to_worker_state.  A stop reason that mentions an error,
\* a failure or a panic carries the tag "failure".
ToWorkerState(s) ==
    CASE s.kind = "ToolExecuting" -> "ProcessingTool"
      [] s.kind = "Stopped" -> IF s.tag = "failure" THEN "Failed" ELSE "Completed"
      [] s.kind = "Error" -> "Failed"
      [] s.kind = "BlockedForDecision" -> "Blocked"
      [] OTHER -> s.kind

\* WorkerState::can_transition_to; there are no self-loops.
WorkerSuccessors ==
    [w \in WorkerStates |->
        CASE w = "Idle" -> {"Starting", "Blocked", "Paused", "Stopping"}
          [] w = "Starting" ->
                {"Responding", "Failed", "Blocked", "Paused", "Stopping"}
          [] w = "Responding" ->
                {"ProcessingTool", "Completed", "Failed", "Idle", "Blocked",
                 "Paused", "WaitingForInput", "Finishing", "Stopping"}
          [] w = "ProcessingTool" ->
                {"Responding", "Completed", "Failed", "Idle", "Blocked",
                 "Paused", "Finishing", "Stopping"}
          [] w = "Finishing" ->
                {"Completed", "Failed", "Idle", "Blocked", "Paused", "Stopping"}
          [] w = "Stopping" -> {"Completed", "Failed", "Idle"}
          [] w = "Completed" -> {"Starting"}
          [] w = "Failed" -> {"Idle", "Starting", "Blocked", "Paused"}
          [] w = "Blocked" ->
                {"Idle", "Responding", "Starting", "Paused", "Resting"}
          [] w = "Paused" -> {"Idle", "Responding", "Starting", "Blocked"}
          [] w = "WaitingForInput" -> {"Responding", "Idle", "Blocked", "Paused"}
          [] w = "Resting" -> {"Idle", "Starting", "Failed"}]

\* Worker::transition_state: a refused transition leaves the state alone.
WorkerMove(w, target) == IF target \in WorkerSuccessors[w] THEN target ELSE w

\* AgentSlot::transition_to on a slot record with fields status and worker:
\* a refused transition changes nothing; an accepted one also tries to move
\* the Worker, and only logs when the Worker refuses.
TransitionTo(slot, t) ==
    IF CanTransition(slot.status, t)
    THEN [slot EXCEPT !.status = t,
                      !.worker = WorkerMove(slot.worker, ToWorkerState(t))]
    ELSE slot
=============================================================================
