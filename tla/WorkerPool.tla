----------------------------- MODULE WorkerPool -----------------------------
(***************************************************************************)
(* The worker pool (core/src/agent_pool.rs with core/src/pool): the slots  *)
(* of the agents in display order, the decision agent of each of them, the *)
(* focused position, the shared task backlog, and the queue of decisions   *)
(* that wait for a human.                                                  *)
(*                                                                         *)
(* Every operation is a method that runs to its end under the owner's      *)
(* exclusive borrow, so it is one action.  A call that returns an error    *)
(* before it changes anything is a step that is not enabled.  The code     *)
(* names a slot by its agent id; here it is named by its position, which   *)
(* is the same thing because ids are distinct (PoolShape).                 *)
(***************************************************************************)
EXTENDS SlotStatus, HumanQueueOps, FiniteSets

CONSTANTS
    MaxSlots,        \* capacity of the pool
    Providers,       \* provider kinds in use; "mock" has no decision layer
    HumanReasons,    \* blocking reasons that ask a human
    RateLimits,      \* blocking reasons that are rate limits
    OtherReasons,    \* the remaining blocking reasons
    Urgency,         \* the urgency of each human reason
    TaskPolicy,      \* BlockedTaskPolicy: what happens to a blocked agent's task
    TimeoutDefault,  \* AutoAction taken when nobody answers in time
    AnswerAnyRequest,\* whether a human may answer a request other than the head
    NumTasks,        \* tasks in the backlog
    MaxIndex,        \* bound: worker ids handed out
    MaxRequests,     \* bound: human requests raised
    MaxMail,         \* bound: requests a decision agent has not answered yet
    MaxActions       \* bound: actions in one decision output

ASSUME PoolAssumption ==
    /\ MaxSlots \in Nat \ {0}
    /\ NumTasks \in Nat /\ MaxIndex \in Nat /\ MaxRequests \in Nat
    /\ MaxMail \in Nat /\ MaxActions \in Nat
    /\ Urgency \in [HumanReasons -> Levels]
    /\ TaskPolicy \in {"KeepAssigned", "ReassignIfPossible", "MarkWaiting"}
    /\ TimeoutDefault \in
          {"FollowRecommendation", "SelectDefault", "Cancel",
           "MarkTaskFailed", "ReleaseResource"}
    /\ AnswerAnyRequest \in BOOLEAN

VARIABLES
    slots,      \* sequence of [id, provider, status, task]
    mail,       \* for each decision agent, the requests it has not answered
    nextIndex,  \* next_agent_index
    focus,      \* focused position
    backlog,    \* status of each task
    bypassed,   \* history: tasks given to an agent against the backlog
    queue,      \* human_queue
    raised,     \* human requests raised so far; the id of the latest
    exec        \* the decision output being executed: [pos, left]

vars == <<slots, mail, nextIndex, focus, backlog, bypassed, queue, raised, exec>>
poolVars == <<slots, mail, nextIndex, focus>>
humanVars == <<queue, raised>>

Overview == 0
Agents == 0..MaxIndex
Tasks == 1..NumTasks
NoTask == 0
TaskStatuses == {"Ready", "Running", "Blocked", "Done", "Failed"}
Reasons == HumanReasons \cup RateLimits \cup OtherReasons
Tags ==
    {"none", "user requested", "cancelled", "all tasks complete",
     "restored from snapshot", "worktree preserved", "provider error"} \cup Reasons
Statuses == [kind : SlotKinds, tag : Tags]
Slots == [id : Agents, provider : Providers, status : Statuses,
          task : Tasks \cup {NoTask}]

Idle == Plain("Idle")
Responding == Plain("Responding")
StoppedBy(reason) == Tagged("Stopped", reason)

\* AgentSlot::new, transition_to, assign_task and clear_task on a slot.
NewSlot(id, k) == [id |-> id, provider |-> k, status |-> Idle, task |-> NoTask]
Move(s, t) == IF CanTransition(s.status, t) THEN [s EXCEPT !.status = t] ELSE s
WithTask(s, t) == [s EXCEPT !.task = t]
ClearTask(s) == [s EXCEPT !.task = NoTask]

\* A decision agent starts with an empty mailbox; mock providers have none.
StartDecision(m, s) ==
    IF s.provider = "mock" THEN m
    ELSE [i \in DOMAIN m \cup {s.id} |-> IF i = s.id THEN 0 ELSE m[i]]
StopDecision(m, a) == [i \in DOMAIN m \ {a} |-> m[i]]

InFront(s, seq) ==
    [k \in 1..(Len(seq) + 1) |-> IF k = 1 THEN s ELSE seq[k - 1]]

Held(t) == \E p \in DOMAIN slots : slots[p].task = t
FirstIdle(p) == /\ IsIdle(slots[p].status)
                /\ \A k \in 1..(p - 1) : ~IsIdle(slots[k].status)

\* Outside ExecuteDecision nothing is being executed.
NotExecuting == [pos |-> 0, left |-> 0]

\* Giving task t without asking the backlog goes against it unless the task
\* runs and nobody holds it.
Bypass(t) ==
    IF t = NoTask \/ (backlog[t] = "Running" /\ ~Held(t))
    THEN bypassed ELSE bypassed \cup {t}

\* The next index is one more than the largest that new_with_worktrees finds on
\* disk, or 1; restored slots may have lower ones.
Init ==
    /\ slots = <<>> /\ nextIndex \in 1..(MaxIndex + 1) /\ focus = 1
    /\ mail = [i \in {} |-> 0]
    /\ backlog \in [Tasks -> {"Ready", "Running"}] /\ bypassed = {}
    /\ queue = EmptyQueue /\ raised = 0
    /\ exec = NotExecuting
-----------------------------------------------------------------------------
(* Lifecycle of the slots *)

\* Mutant of SpawnWorker: the capacity is not checked.
SpawnWorkerOverfull(k) ==
    /\ nextIndex <= MaxIndex
    /\ slots' = Append(slots, NewSlot(nextIndex, k))
    /\ nextIndex' = nextIndex + 1
    /\ focus' = IF Len(slots) = 0 THEN 1 ELSE focus
    /\ mail' = StartDecision(mail, NewSlot(nextIndex, k))
    /\ UNCHANGED <<backlog, bypassed, humanVars, exec>>

SpawnWorker(k) ==
    /\ Len(slots) < MaxSlots
    /\ nextIndex <= MaxIndex
    /\ slots' = Append(slots, NewSlot(nextIndex, k))
    /\ nextIndex' = nextIndex + 1
    /\ focus' = IF Len(slots) = 0 THEN 1 ELSE focus
    /\ mail' = StartDecision(mail, NewSlot(nextIndex, k))
    /\ UNCHANGED <<backlog, bypassed, humanVars, exec>>

\* spawn_agent_with_worktree_internal when git or the state store fails: the
\* index has been handed out, no slot is added.
SpawnWorktreeFails ==
    /\ Len(slots) < MaxSlots
    /\ nextIndex <= MaxIndex
    /\ nextIndex' = nextIndex + 1
    /\ UNCHANGED <<slots, mail, focus, backlog, bypassed, humanVars, exec>>

SpawnOverviewAgent(k) ==
    /\ \A p \in DOMAIN slots : slots[p].id # Overview
    /\ Len(slots) < MaxSlots
    /\ slots' = InFront(NewSlot(Overview, k), slots)
    /\ focus' = 1
    /\ mail' = StartDecision(mail, NewSlot(Overview, k))
    /\ UNCHANGED <<nextIndex, backlog, bypassed, humanVars, exec>>

\* What TuiAgentSnapshot::restore_status and the daemon's restore produce.
RestoreStatuses ==
    {Idle, StoppedBy("restored from snapshot"), Plain("WaitingForInput"),
     Tagged("Blocked", "provider error"), Tagged("Error", "provider error"),
     Tagged("Paused", "worktree preserved")}

\* restore_slot: OVERVIEW goes to the front, a worker to the end, with any free
\* id and the task of its snapshot.  The next index only grows; the focused
\* position and the backlog are not looked at.
RestoreSlot(id, k, status, t) ==
    /\ Len(slots) < MaxSlots
    /\ \A p \in DOMAIN slots : slots[p].id # id
    /\ LET s == WithTask([NewSlot(id, k) EXCEPT !.status = status], t)
       IN  /\ slots' = IF id = Overview THEN InFront(s, slots) ELSE Append(slots, s)
           /\ mail' = StartDecision(mail, s)
    /\ nextIndex' = IF id < nextIndex THEN nextIndex ELSE id + 1
    /\ bypassed' = Bypass(t)
    /\ UNCHANGED <<focus, backlog, humanVars, exec>>

StopAgent(p) ==
    /\ CanTransition(slots[p].status, StoppedBy("user requested"))
    /\ slots' = [slots EXCEPT ![p].status = StoppedBy("user requested")]
    /\ mail' = StopDecision(mail, slots[p].id)
    /\ UNCHANGED <<nextIndex, focus, backlog, bypassed, humanVars, exec>>

\* Mutant of AdjustOnRemove: the removed slot counts as one before the focus.
AdjustOnRemoveBelow(p, n) ==
    IF focus >= p THEN focus - 1 ELSE focus

\* Mutant of AdjustOnRemove: the focus does not follow the agents that move up.
AdjustOnRemoveStays(p, n) ==
    IF n > 0 /\ focus > n THEN n ELSE focus

\* FocusManager::adjust_on_remove: slot p has left, n slots remain.
AdjustOnRemove(p, n) ==
    LET f == CASE focus > p -> focus - 1
               [] focus = p /\ n > 0 -> n
               [] OTHER -> IF n = 0 THEN 1 ELSE focus
    IN  IF f > n /\ n > 0 THEN n ELSE f

\* Mutant of RemoveAgent: the decision agent is forgotten.
RemoveAgentOnly(p) ==
    /\ IsTerminal(slots[p].status)
    /\ slots' = WithoutPos(slots, p)
    /\ focus' = AdjustOnRemove(p, Len(slots) - 1)
    /\ UNCHANGED <<mail, nextIndex, backlog, bypassed, humanVars, exec>>

RemoveAgent(p) ==
    /\ IsTerminal(slots[p].status)
    /\ slots' = WithoutPos(slots, p)
    /\ mail' = StopDecision(mail, slots[p].id)
    /\ focus' = AdjustOnRemove(p, Len(slots) - 1)
    /\ UNCHANGED <<nextIndex, backlog, bypassed, humanVars, exec>>

FocusByIndex(p) ==
    /\ focus' = p
    /\ UNCHANGED <<slots, mail, nextIndex, backlog, bypassed, humanVars, exec>>

\* Which workers have a worktree is not kept; OVERVIEW has none.
PauseAgent(p) ==
    /\ slots[p].id # Overview
    /\ CanTransition(slots[p].status, Tagged("Paused", "worktree preserved"))
    /\ slots' = [slots EXCEPT ![p].status = Tagged("Paused", "worktree preserved")]
    /\ UNCHANGED <<mail, nextIndex, focus, backlog, bypassed, humanVars, exec>>

\* A decision agent that was lost while the agent was paused is started again.
ResumeAgent(p) ==
    /\ slots[p].status.kind = "Paused"
    /\ slots' = [slots EXCEPT ![p].status = Idle]
    /\ mail' = IF slots[p].id \in DOMAIN mail THEN mail
               ELSE StartDecision(mail, slots[p])
    /\ UNCHANGED <<nextIndex, focus, backlog, bypassed, humanVars, exec>>

\* Starting a provider thread overwrites the status, whatever it was, with
\* Starting (set_thread_handle); the start-up code then moves on to Responding.
StartProvider(p) ==
    /\ slots' = [slots EXCEPT ![p].status = Responding]
    /\ UNCHANGED <<mail, nextIndex, focus, backlog, bypassed, humanVars, exec>>

\* Where the event loops send a slot when provider events arrive.
LoopTargets ==
    {Idle, Responding, Plain("WaitingForInput"), Plain("Finishing"),
     Tagged("Blocked", "provider error"), Tagged("Error", "provider error"),
     StoppedBy("cancelled")}

LoopStep(p, t) ==
    /\ CanTransition(slots[p].status, t)
    /\ slots' = [slots EXCEPT ![p].status = t]
    /\ UNCHANGED <<mail, nextIndex, focus, backlog, bypassed, humanVars, exec>>
-----------------------------------------------------------------------------
(* Tasks *)

\* assign_task: any task goes to an idle agent; the backlog is not looked at.
AssignTask(p, t) ==
    /\ IsIdle(slots[p].status)
    /\ slots' = [slots EXCEPT ![p].task = t]
    /\ bypassed' = Bypass(t)
    /\ UNCHANGED <<mail, nextIndex, focus, backlog, humanVars, exec>>

\* assign_task_with_backlog, and the task preparation that it asks of the
\* decision agent, if there is one.
AssignTaskWithBacklog(p, t) ==
    /\ backlog[t] = "Ready"
    /\ IsIdle(slots[p].status)
    /\ slots[p].id \in DOMAIN mail => mail[slots[p].id] < MaxMail
    /\ slots' = [slots EXCEPT ![p].task = t]
    /\ backlog' = [backlog EXCEPT ![t] = "Running"]
    /\ mail' = IF slots[p].id \in DOMAIN mail
               THEN [mail EXCEPT ![slots[p].id] = @ + 1] ELSE mail
    /\ UNCHANGED <<nextIndex, focus, bypassed, humanVars, exec>>

\* The first ready task goes to the first idle agent.
AutoAssignTask(p, t) ==
    /\ FirstIdle(p)
    /\ \A u \in 1..(t - 1) : backlog[u] # "Ready"
    /\ AssignTaskWithBacklog(p, t)

\* complete_task_with_backlog: only a running task changes in the backlog,
\* the assignment is cleared in any case.
CompleteTask(p, ok) ==
    /\ slots[p].task # NoTask
    /\ backlog' = [backlog EXCEPT ![slots[p].task] =
                       IF @ = "Running" THEN (IF ok THEN "Done" ELSE "Failed") ELSE @]
    /\ slots' = [slots EXCEPT ![p] = ClearTask(@)]
    /\ UNCHANGED <<mail, nextIndex, focus, bypassed, humanVars, exec>>
-----------------------------------------------------------------------------
(* Blocking, and the decisions of the human *)

\* Mutant of HandleBlockedTask: the blocked agent keeps the reassigned task.
HandleBlockedTaskCopied(ss, p) ==
    LET idle == {k \in DOMAIN ss : IsIdle(ss[k].status)}
        first == CHOOSE k \in idle : \A j \in idle : k <= j
    IN  IF /\ TaskPolicy = "ReassignIfPossible"
           /\ ss[p].task # NoTask /\ idle # {}
           /\ backlog[ss[p].task] = "Running"
        THEN [ss EXCEPT ![first].task = ss[p].task]
        ELSE ss

\* handle_blocked_task, ReassignIfPossible: the running task of the blocked
\* agent p moves to the first idle agent, whatever that agent held before.
HandleBlockedTask(ss, p) ==
    LET idle == {k \in DOMAIN ss : IsIdle(ss[k].status)}
        first == CHOOSE k \in idle : \A j \in idle : k <= j
    IN  IF /\ TaskPolicy = "ReassignIfPossible"
           /\ ss[p].task # NoTask /\ idle # {}
           /\ backlog[ss[p].task] = "Running"
        THEN [ss EXCEPT ![first].task = ss[p].task, ![p].task = NoTask]
        ELSE ss

\* handle_blocked_task, MarkWaiting: BacklogState::block_task.
BlockTask(t) ==
    IF TaskPolicy = "MarkWaiting" /\ t # NoTask
    THEN [backlog EXCEPT ![t] = IF @ = "Running" THEN "Blocked" ELSE @]
    ELSE backlog

BlockedStatus(r) ==
    Tagged(IF r \in RateLimits THEN "Resting" ELSE "BlockedForDecision", r)

\* process_agent_blocked; the terminal UI calls it without a backlog.
ProcessAgentBlocked(p, r, withBacklog) ==
    LET moved == [slots EXCEPT ![p].status = BlockedStatus(r)]
    IN  /\ CanTransition(slots[p].status, BlockedStatus(r))
        /\ IF r \in HumanReasons
           THEN /\ raised < MaxRequests
                /\ raised' = raised + 1
                /\ queue' = Push(queue, [id |-> raised + 1, agent |-> slots[p].id],
                                 Urgency[r])
           ELSE UNCHANGED humanVars
        /\ slots' = IF withBacklog THEN HandleBlockedTask(moved, p) ELSE moved
        /\ backlog' = IF withBacklog THEN BlockTask(slots[p].task) ELSE backlog
        /\ UNCHANGED <<mail, nextIndex, focus, bypassed, exec>>

Selections == {"Selected", "AcceptedRecommendation", "Custom", "Skipped", "Cancelled"}

\* execute_decision on a slot that has just been moved to Responding.
ExecuteSelection(s, sel) ==
    CASE sel = "Skipped" -> ClearTask(s)
      [] sel = "Cancelled" -> Move(s, Idle)
      [] OTHER -> s

\* process_human_response: the request named in the answer is completed, but
\* the agent that is unblocked is the one at the head of the queue.  When it
\* is gone, not blocked, or resting, only the request is completed.
ProcessHumanResponse(id, sel) ==
    LET a == Peek(queue).agent
    IN  /\ Indexed(queue, id)
        /\ AnswerAnyRequest \/ id = Peek(queue).id
        /\ queue' = Complete(queue, id)
        /\ slots' = [p \in DOMAIN slots |->
                        IF /\ slots[p].id = a
                           /\ IsBlocked(slots[p].status)
                           /\ CanTransition(slots[p].status, Responding)
                        THEN ExecuteSelection(Move(slots[p], Responding), sel)
                        ELSE slots[p]]
        /\ UNCHANGED <<mail, nextIndex, focus, backlog, bypassed, raised, exec>>

\* timeout_action_for_request: a request built from a blocked state carries
\* neither a recommendation nor options, so the default choices skip.
TimeoutSelection ==
    IF TimeoutDefault \in {"FollowRecommendation", "SelectDefault"}
    THEN "Skipped" ELSE "Cancelled"

\* execute_timeout_action on a blocked slot.
ExecuteTimeout(s) ==
    Move(IF TimeoutSelection = "Skipped" THEN ClearTask(s) ELSE s, Idle)

\* Mutant of ProcessExpiredRequests: the agents of the expired requests stay
\* blocked.
ProcessExpiredQueueOnly(n) ==
    /\ Expired(queue, n) # {}
    /\ queue' = DropExpired(queue, n)
    /\ UNCHANGED <<poolVars, backlog, bypassed, raised, exec>>

\* process_expired_requests when the first n[l] requests of lane l are late.
ProcessExpiredRequests(n) ==
    /\ Expired(queue, n) # {}
    /\ queue' = DropExpired(queue, n)
    /\ slots' = [p \in DOMAIN slots |->
                    IF /\ IsBlocked(slots[p].status)
                       /\ \E r \in Expired(queue, n) : r.agent = slots[p].id
                    THEN ExecuteTimeout(slots[p])
                    ELSE slots[p]]
    /\ UNCHANGED <<mail, nextIndex, focus, backlog, bypassed, raised, exec>>

\* clear_all_blocked; of the queue only the late requests are dropped.
ClearAllBlocked(n) ==
    /\ slots' = [p \in DOMAIN slots |->
                    IF IsBlocked(slots[p].status) THEN Move(slots[p], Idle)
                    ELSE slots[p]]
    /\ queue' = DropExpired(queue, n)
    /\ UNCHANGED <<mail, nextIndex, focus, backlog, bypassed, raised, exec>>

\* clear_agent_context: the task goes first; a slot that cannot become idle
\* makes the call fail after that.
ClearAgentContext(p) ==
    /\ slots' = [slots EXCEPT ![p] = Move(ClearTask(@), Idle)]
    /\ UNCHANGED <<mail, nextIndex, focus, backlog, bypassed, humanVars, exec>>

ClearAllAgentContexts ==
    /\ slots' = [p \in DOMAIN slots |-> Move(ClearTask(slots[p]), Idle)]
    /\ queue' = EmptyQueue
    /\ UNCHANGED <<mail, nextIndex, focus, backlog, bypassed, raised, exec>>
-----------------------------------------------------------------------------
(* Decisions of the decision agents *)

SendDecisionRequest(p) ==
    /\ slots[p].id \in DOMAIN mail
    /\ mail[slots[p].id] < MaxMail
    /\ mail' = [mail EXCEPT ![slots[p].id] = @ + 1]
    /\ UNCHANGED <<slots, nextIndex, focus, backlog, bypassed, humanVars, exec>>

\* An answer of n actions arrives (poll_decision_agents, then execute): it is
\* carried out unless it is empty or the agent is neither blocked, idle nor
\* waiting.  The test is made once, before the first action.
ReceiveDecision(p, n) ==
    LET a == slots[p].id
        st == slots[p].status
    IN  /\ a \in DOMAIN mail /\ mail[a] > 0
        /\ mail' = [mail EXCEPT ![a] = @ - 1]
        /\ exec' = IF n > 0 /\ (IsBlocked(st) \/ IsIdle(st) \/ IsWaiting(st))
                   THEN [pos |-> p, left |-> n] ELSE NotExecuting
        /\ UNCHANGED <<slots, nextIndex, focus, backlog, bypassed, humanVars>>

\* What one action of the output leaves of the slot and of the queue.
ActionDone(s, q) ==
    /\ slots' = [slots EXCEPT ![exec.pos] = s]
    /\ queue' = q
    /\ exec' = IF exec.left > 1 THEN [exec EXCEPT !.left = @ - 1] ELSE NotExecuting
    /\ UNCHANGED <<mail, nextIndex, focus, backlog, bypassed, raised>>

Target == slots[exec.pos]
IfBlockedIdle(s) == IF IsBlocked(s.status) THEN Move(s, Idle) ELSE s

\* execute_select_option and execute_skip: the agent's own request is
\* answered, and the agent becomes idle; without one nothing happens.
AnswerOwnRequest ==
    IF HasRequest(queue, Target.id)
    THEN ActionDone(Move(Target, Idle),
                    Complete(queue, FindByAgent(queue, Target.id).id))
    ELSE ActionDone(Target, queue)

\* execute_continue and execute_reflect.
ContinueOrReflect == ActionDone(IfBlockedIdle(Target), queue)

\* execute_retry: a resting agent keeps resting.
Retry ==
    ActionDone(IF Target.status.kind = "Resting" THEN Target
               ELSE IfBlockedIdle(Target), queue)

ConfirmCompletion == ActionDone(ClearTask(IfBlockedIdle(Target)), queue)

StopIfComplete == ActionDone(Move(Target, StoppedBy("all tasks complete")), queue)

\* request_human, custom_instruction, continue_all_tasks, prepare_task_start
\* and unknown actions change at most the transcript, which is not kept.
RequestHuman == ActionDone(Target, queue)
CustomInstruction == ActionDone(Target, queue)
ContinueAllTasks == ActionDone(Target, queue)
PrepareTaskStart == ActionDone(Target, queue)

ExecuteAction ==
    \/ AnswerOwnRequest \/ ContinueOrReflect \/ Retry
    \/ ConfirmCompletion \/ StopIfComplete
    \/ RequestHuman \/ CustomInstruction \/ ContinueAllTasks \/ PrepareTaskStart
-----------------------------------------------------------------------------
LifecycleStep ==
    \/ \E k \in Providers : SpawnWorker(k) \/ SpawnOverviewAgent(k)
    \/ SpawnWorktreeFails
    \/ \E id \in Agents, k \in Providers, st \in RestoreStatuses,
          t \in Tasks \cup {NoTask} : RestoreSlot(id, k, st, t)
    \/ \E p \in DOMAIN slots :
          \/ StopAgent(p) \/ RemoveAgent(p) \/ FocusByIndex(p)
          \/ PauseAgent(p) \/ ResumeAgent(p) \/ StartProvider(p)
          \/ \E t \in LoopTargets : LoopStep(p, t)

TaskStep ==
    \E p \in DOMAIN slots :
        \/ \E t \in Tasks :
              AssignTask(p, t) \/ AssignTaskWithBacklog(p, t) \/ AutoAssignTask(p, t)
        \/ \E ok \in BOOLEAN : CompleteTask(p, ok)

HumanStep ==
    \/ \E p \in DOMAIN slots, r \in Reasons, withBacklog \in BOOLEAN :
          ProcessAgentBlocked(p, r, withBacklog)
    \/ \E id \in 1..MaxRequests, sel \in Selections : ProcessHumanResponse(id, sel)
    \/ \E n \in Expiries(queue) : ProcessExpiredRequests(n) \/ ClearAllBlocked(n)
    \/ \E p \in DOMAIN slots : ClearAgentContext(p)
    \/ ClearAllAgentContexts

DecisionStep ==
    \E p \in DOMAIN slots :
        \/ SendDecisionRequest(p)
        \/ \E n \in 0..MaxActions : ReceiveDecision(p, n)

\* An output is executed to its end before the pool does anything else.
Next ==
    \/ exec.left = 0 /\ (LifecycleStep \/ TaskStep \/ HumanStep \/ DecisionStep)
    \/ exec.left > 0 /\ ExecuteAction

Spec == Init /\ [][Next]_vars
-----------------------------------------------------------------------------
(* Properties *)

PoolIds == {slots[p].id : p \in DOMAIN slots}

\* Every variable of the pool keeps its type: the fields of a slot, the
\* mailbox counts, the focused position and the human queue.
TypeOK ==
    /\ slots \in Seq(Slots)
    /\ mail \in [DOMAIN mail -> 0..MaxMail] /\ DOMAIN mail \subseteq Agents
    /\ nextIndex \in 1..(MaxIndex + 1)
    /\ focus \in 1..MaxSlots
    /\ backlog \in [Tasks -> TaskStatuses] /\ bypassed \subseteq Tasks
    /\ QueueType(queue, Agents, raised)
    /\ raised \in 0..MaxRequests
    /\ exec \in [pos : 0..MaxSlots, left : 0..MaxActions]

\* The pool never holds more slots than its capacity, no two slots answer to
\* the same id, every id is below the next index, the OVERVIEW agent stands
\* first, the focus is on a slot whenever there is one, and an output being
\* executed is for a slot of the pool.  (spawn_worker, spawn_overview_agent,
\* restore_slot, remove_agent, adjust_on_remove.)
PoolShape ==
    /\ Len(slots) <= MaxSlots
    /\ \A p, k \in DOMAIN slots : p # k => slots[p].id # slots[k].id
    /\ \A p \in DOMAIN slots :
          slots[p].id < nextIndex /\ (slots[p].id = Overview => p = 1)
    /\ IF slots = <<>> THEN focus = 1 ELSE focus <= Len(slots)
    /\ exec.left > 0 => exec.pos \in DOMAIN slots

\* A decision agent never outlives the slot it decides for, and mock agents
\* have none (stop_agent, remove_agent, resume_agent_with_worktree).
DecisionAgentsInPool ==
    \A a \in DOMAIN mail :
        \E p \in DOMAIN slots : slots[p].id = a /\ slots[p].provider # "mock"

\* A task is worked on by one agent at a time, and a task that an agent holds
\* has been started and is not finished, however assignments, hand-overs,
\* decisions, time-outs and restores interleave.  Excepted are the tasks that
\* assign_task or restore_slot, neither of which looks at the backlog, gave
\* while they did not run or were held: the pool does not protect those.
TaskExclusive ==
    /\ \A p, k \in DOMAIN slots :
          p # k /\ slots[p].task \notin bypassed \cup {NoTask}
          => slots[p].task # slots[k].task
    /\ \A p \in DOMAIN slots :
          slots[p].task \notin bypassed \cup {NoTask}
          => backlog[slots[p].task] \in {"Running", "Blocked"}

\* An agent that is blocked on a human decision has a request in the queue:
\* a human can still see it and release it (process_agent_blocked,
\* process_human_response, process_expired_requests, execute).
BlockedHumanHasRequest ==
    \A p \in DOMAIN slots :
        /\ slots[p].status.kind = "BlockedForDecision"
        /\ slots[p].status.tag \in HumanReasons
        => HasRequest(queue, slots[p].id)

\* The user keeps looking at the same agent: when slots come or go the focus
\* stays with the agent it was on, unless that agent left or the OVERVIEW
\* agent arrived (adjust_on_remove, focus_on_first_spawn, reset_to_first).
FocusKept ==
    [][\A a \in Agents :
          /\ slots # <<>> /\ slots[focus].id = a
          /\ Len(slots') # Len(slots)
          /\ \E p \in DOMAIN slots' : slots'[p].id = a
          /\ Overview \in PoolIds \/ slots'[1].id # Overview
          => slots'[focus'].id = a]_vars
=============================================================================
