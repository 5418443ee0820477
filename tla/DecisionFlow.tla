---------------------------- MODULE DecisionFlow ----------------------------
(* Decision flows: behaviour trees written in the decision DSL, the executor *)
(* that ticks them, the provider session their prompts talk to, and the      *)
(* daemon's DecisionIntegration, which ticks the tree of a work agent when   *)
(* the agent finishes or when a poll finds the session ready.                *)
(*                                                                           *)
(* A tree maps addresses to nodes: the root is at <<>>, the i-th child of    *)
(* the node at a is at Append(a, i).  A tick is a walk over the addresses,   *)
(* one step for the call of a node and one for its return: it holds the slot *)
(* for as long as it lasts, while the provider thread answers and time       *)
(* passes.  Times are abstracted: a pending prompt becomes late, a cooldown  *)
(* ends, at any time.                                                        *)
EXTENDS Naturals, Sequences, FiniteSets, SequenceSelection

CONSTANTS
    Flows,       \* the trees a work agent may be given
    MaxScopes,   \* MAX_SCOPE_DEPTH of the blackboard
    MaxBacklog   \* bound: commands left on the blackboard by failed ticks

VARIABLES
    flow,        \* the tree of the attached slot, or NoFlow
    activeChild, \* active_child of the composites, 0 for None
    attempts,    \* current of the Repeaters
    tally,       \* [won, lost]: what the children of a Parallel have returned
    cooling,     \* Cooldown nodes whose last success is recent
    pending,     \* Prompt nodes that wait for a reply
    late,        \* those that wait for longer than timeout_ms
    output,      \* does provider_output match?
    round,       \* reflection_round
    scopes,      \* the variable "decision", scope by scope
    cmds,        \* commands of the blackboard
    asker,       \* the prompt that sent the last message (<<>> before the first)
    reply,       \* "none", "awaited" or what came back
    phase,       \* "idle", "down" (node is called) or "up" (node has returned)
    node,        \* where the walk is
    status,      \* what node has returned, "Error" included
    route,       \* the path this tick resumes along
    path,        \* running_path of the tracer
    executor,    \* [is_running, running_path] of Executor
    poll,        \* poll_scheduled
    toDispatch,  \* pending_commands of the slot: what dispatch_commands queued
    fired,       \* how often each action has run in this pass: 0, 1 or more
    clean,       \* no tick of this pass has ended in an error
    misread      \* a prompt has taken the reply to another one

treeState   == <<activeChild, attempts, tally, cooling, pending, late>>
blackboard  == <<output, round, scopes, cmds>>
session     == <<asker, reply>>
walk        == <<phase, node, status, route, path>>
slotState   == <<executor, poll, toDispatch>>
passHistory == <<fired, clean, misread>>
flowVars    == <<flow, treeState, blackboard, session, walk, slotState, passHistory>>

Replies == {"yes", "no", "bad"}   \* "bad" is one the prompt's parser refuses

-----------------------------------------------------------------------------
(* Trees.                                                                    *)
Walks == {"Selector", "Sequence"}
Composites == Walks \cup {"Parallel"}
Decorators == {"Inverter", "Repeater", "Cooldown", "ReflectionGuard", "ForceHuman", "When", "SubTree"}
Leaves == {"Condition", "Action", "Prompt", "SetVar", "None"}

Parent(a) == SubSeq(a, 1, Len(a) - 1)
Above(x, y) == Len(x) < Len(y) /\ \A k \in 1..Len(x) : x[k] = y[k]

\* Every node is reached from the root; a SubTree may be unresolved.
IsTree(t) ==
    /\ <<>> \in DOMAIN t
    /\ \A a \in DOMAIN t :
        /\ a \in Seq(Nat \ {0})
        /\ t[a].kind \in Composites \cup Decorators \cup Leaves
        /\ t[a].num \in Nat /\ t[a].kids \in Nat
        /\ t[a].kind = "Parallel" => t[a].arg \in {"AllSuccess", "AnySuccess", "Majority"}
        /\ t[a].kind \in Leaves => t[a].kids = 0
        /\ t[a].kind \in Decorators => t[a].kids = 1 \/ (t[a].kind = "SubTree" /\ t[a].kids = 0)
        /\ \A i \in 1..t[a].kids : Append(a, i) \in DOMAIN t
        /\ \A k \in 0..Len(a) - 1 : /\ SubSeq(a, 1, k) \in DOMAIN t
                                    /\ a[k + 1] \in 1..t[SubSeq(a, 1, k)].kids

Node(kind, kids, arg, num) ==
    [a \in {<<>>} \cup UNION {{<<i>> \o b : b \in DOMAIN kids[i]} : i \in 1..Len(kids)} |->
        IF a = <<>> THEN [kind |-> kind, kids |-> Len(kids), arg |-> arg, num |-> num]
        ELSE kids[a[1]][Tail(a)]]

Leaf(kind, arg) == Node(kind, <<>>, arg, 0)
ActionNode == Leaf("Action", "always")
NoFlow == [a \in {<<>>} |-> [kind |-> "None", kids |-> 0, arg |-> "", num |-> 0]]

ASSUME FlowsAssumption == \A t \in Flows : IsTree(t)
ASSUME MaxScopesAssumption == MaxScopes \in Nat \ {0}

-----------------------------------------------------------------------------
(* The desugaring of decision rules.                                         *)
DesugarThen(then) ==
    CASE then = "Command"  -> ActionNode
      [] then = "Switch"   ->
            Node("Sequence",
                 <<Leaf("Prompt", "json"),
                   Node("Selector", <<Node("When", <<ActionNode>>, "decision", 0), ActionNode>>, "", 0)>>,
                 "", 0)
      [] then = "When"     -> Node("When", <<ActionNode>>, "output", 0)
      [] then = "Pipeline" -> Node("Sequence", <<Leaf("Condition", "decision"), ActionNode>>, "", 0)

\* The wrappers of a rule, innermost first: its condition, what happens when
\* it fails, the bound on reflection rounds, the cooldown.
DesugarRule(rule) ==
    LET inner   == DesugarThen(rule.then)
        guarded == IF rule.if = "none" THEN inner
                   ELSE Node("Sequence", <<Leaf("Condition", rule.if), inner>>, "", 0)
        handled == CASE rule.on_error = "escalate" -> Node("Selector", <<guarded, ActionNode>>, "", 0)
                     [] rule.on_error = "retry"    -> Node("Repeater", <<guarded>>, "", 2)
                     [] rule.on_error = "skip"     -> guarded
        bounded == IF rule.rounds = 0 THEN handled
                   ELSE Node("ReflectionGuard", <<handled>>, "", rule.rounds)
    IN  IF rule.cooldown THEN Node("Cooldown", <<bounded>>, "", 0) ELSE bounded

DesugarRules(rules) ==
    Node("Selector", Append([i \in 1..Len(rules) |-> DesugarRule(rules[i])], ActionNode), "", 0)

-----------------------------------------------------------------------------
(* The blackboard and the tracer.                                            *)

\* Evaluator::evaluate: true, false or an error (a variable nobody has set,
\* a custom evaluator).
Lookup ==
    LET set == {i \in 1..Len(scopes) : scopes[i] # "unset"}
    IN  IF set = {} THEN "unset" ELSE scopes[CHOOSE i \in set : \A j \in set : j <= i]

Evaluate(e) ==
    CASE e = "always"   -> "true"
      [] e = "output"   -> IF output THEN "true" ELSE "false"
      [] e = "decision" -> IF Lookup = "unset" THEN "error" ELSE IF Lookup = "yes" THEN "true" ELSE "false"
      [] OTHER          -> "error"

SetDecision(v) == scopes' = [scopes EXCEPT ![Len(scopes)] = v]
PushCommand(a) == cmds' = Append(cmds, a)

\* path_stack of the tracer in the node at a: the indices taken in composites.
PathStack(a) == Select(a, {k \in 1..Len(a) : flow[SubSeq(a, 1, k - 1)].kind \in Composites})

\* Tracer::exit: the path is taken after the level of a has been popped.
Exit(a) == path' = IF status = "Running" THEN PathStack(a) ELSE path

\* What is left of the path to resume along in the node at a.
Left(a) ==
    LET s == PathStack(a)
    IN  IF Len(s) < Len(route) /\ (\A k \in 1..Len(s) : s[k] = route[k])
        THEN SubSeq(route, Len(s) + 1, Len(route)) ELSE <<>>

-----------------------------------------------------------------------------
(* Node::tick (nothing left of the path) and Node::resume_at: the call of a  *)
(* node, TickX, and the return of a child to it, LeaveX.                     *)
Called(kinds) == phase = "down" /\ flow[node].kind \in kinds
Returned(kinds) ==
    phase = "up" /\ status # "Error" /\ node # <<>> /\ flow[Parent(node)].kind \in kinds

Call(a, i)   == phase' = "down" /\ node' = Append(a, i) /\ status' = "none"
Return(a, s) == phase' = "up" /\ node' = a /\ status' = s

PassesOn(kind) == IF kind = "Selector" THEN "Failure" ELSE "Success"

\* The children of the Selector or Sequence at a from the i-th on.
GoOn(a, i) ==
    IF i > flow[a].kids
    THEN /\ Return(a, PassesOn(flow[a].kind))
         /\ activeChild' = [activeChild EXCEPT ![a] = 0]
    ELSE /\ Call(a, i)
         /\ UNCHANGED activeChild

\* A composite goes on at the child the path names, or at its active child.
TickWalk ==
    /\ Called(Walks)
    /\ GoOn(node, IF Left(node) # <<>> THEN Left(node)[1]
                  ELSE IF activeChild[node] = 0 THEN 1 ELSE activeChild[node])
    /\ UNCHANGED <<flow, attempts, tally, cooling, pending, late, blackboard, session,
                   route, path, slotState, passHistory>>

\* Mutant of RememberChild: the running child is not remembered.
ForgetChild(a, i) == activeChild' = [activeChild EXCEPT ![a] = 0]
RememberChild(a, i) == activeChild' = [activeChild EXCEPT ![a] = IF status = "Running" THEN i ELSE 0]

\* Its later children are ticked from their start.
LeaveWalk ==
    LET up == Parent(node)
        i  == node[Len(node)]
    IN  /\ Returned(Walks)
        /\ Exit(up)
        /\ IF status = PassesOn(flow[up].kind) THEN GoOn(up, i + 1)
           ELSE Return(up, status) /\ RememberChild(up, i)
        /\ UNCHANGED <<flow, attempts, tally, cooling, pending, late, blackboard, session,
                       route, slotState, passHistory>>

ParallelResult(policy, total, won, lost) ==
    CASE total = 0             -> IF policy = "AllSuccess" THEN "Success" ELSE "Failure"
      [] policy = "AllSuccess" -> IF won = total THEN "Success" ELSE IF lost > 0 THEN "Failure" ELSE "Running"
      [] policy = "AnySuccess" -> IF won > 0 THEN "Success" ELSE IF lost = total THEN "Failure" ELSE "Running"
      [] policy = "Majority"   -> IF won >= total \div 2 + 1 THEN "Success"
                                  ELSE IF lost > total \div 2 THEN "Failure"
                                  ELSE IF won + lost < total THEN "Running" ELSE "Failure"

\* All children of a Parallel, one after the other.
TickParallel ==
    /\ Called({"Parallel"})
    /\ IF flow[node].kids = 0
       THEN Return(node, ParallelResult(flow[node].arg, 0, 0, 0))
       ELSE Call(node, 1)
    /\ tally' = [tally EXCEPT ![node] = [won |-> 0, lost |-> 0]]
    /\ UNCHANGED <<flow, activeChild, attempts, cooling, pending, late, blackboard, session,
                   route, path, slotState, passHistory>>

LeaveParallel ==
    LET up   == Parent(node)
        i    == node[Len(node)]
        won  == tally[up].won + (IF status = "Success" THEN 1 ELSE 0)
        lost == tally[up].lost + (IF status = "Failure" THEN 1 ELSE 0)
    IN  /\ Returned({"Parallel"})
        /\ Exit(up)
        /\ IF i < flow[up].kids
           THEN /\ Call(up, i + 1)
                /\ tally' = [tally EXCEPT ![up] = [won |-> won, lost |-> lost]]
           ELSE /\ Return(up, ParallelResult(flow[up].arg, flow[up].kids, won, lost))
                /\ tally' = [tally EXCEPT ![up] = [won |-> 0, lost |-> 0]]
        /\ UNCHANGED <<flow, activeChild, attempts, cooling, pending, late, blackboard, session,
                       route, slotState, passHistory>>

\* A Repeater runs its child until it has ended max_attempts times, however
\* it ended, and ends as the last attempt did.
TickRepeater ==
    /\ Called({"Repeater"})
    /\ IF flow[node].num = 0 THEN Return(node, "Failure") ELSE Call(node, 1)
    /\ UNCHANGED <<flow, treeState, blackboard, session, route, path, slotState, passHistory>>

LeaveRepeater ==
    LET up   == Parent(node)
        over == status = "Running" \/ attempts[up] + 1 >= flow[up].num
    IN  /\ Returned({"Repeater"})
        /\ IF over THEN Return(up, status) ELSE Call(up, 1)
        /\ attempts' = [attempts EXCEPT ![up] = IF status = "Running" THEN @ ELSE IF over THEN 0 ELSE @ + 1]
        /\ route' = IF ~over /\ Left(up) # <<>> THEN <<>> ELSE route
        /\ UNCHANGED <<flow, activeChild, tally, cooling, pending, late, blackboard, session,
                       path, slotState, passHistory>>

\* The other decorators run their only child, if at all, and return what it
\* returned.
TickInverter ==
    /\ Called({"Inverter", "ForceHuman"})
    /\ Call(node, 1)
    /\ UNCHANGED <<flow, treeState, blackboard, session, route, path, slotState, passHistory>>

Inverted(s) == CASE s = "Success" -> "Failure" [] s = "Failure" -> "Success" [] OTHER -> s

LeaveInverter ==
    /\ Returned({"Inverter"})
    /\ Return(Parent(node), Inverted(status))
    /\ UNCHANGED <<flow, treeState, blackboard, session, route, path, slotState, passHistory>>

LeaveForceHuman ==
    /\ Returned({"ForceHuman"})
    /\ Return(Parent(node), status)
    /\ IF status = "Success" THEN PushCommand(Parent(node)) ELSE UNCHANGED cmds
    /\ UNCHANGED <<flow, treeState, output, round, scopes, session, route, path, slotState, passHistory>>

TickCooldown ==
    /\ Called({"Cooldown"})
    /\ IF node \in cooling THEN Return(node, "Failure") ELSE Call(node, 1)
    /\ UNCHANGED <<flow, treeState, blackboard, session, route, path, slotState, passHistory>>

LeaveCooldown ==
    /\ Returned({"Cooldown"})
    /\ Return(Parent(node), status)
    /\ cooling' = IF status = "Success" THEN cooling \cup {Parent(node)} ELSE cooling
    /\ UNCHANGED <<flow, activeChild, attempts, tally, pending, late, blackboard, session,
                   route, path, slotState, passHistory>>

TickReflectionGuard ==
    /\ Called({"ReflectionGuard"})
    /\ IF round >= flow[node].num THEN Return(node, "Failure") ELSE Call(node, 1)
    /\ UNCHANGED <<flow, treeState, blackboard, session, route, path, slotState, passHistory>>

LeaveReflectionGuard ==
    /\ Returned({"ReflectionGuard"})
    /\ Return(Parent(node), status)
    /\ round' = IF status = "Success" THEN round + 1 ELSE round
    /\ UNCHANGED <<flow, treeState, output, scopes, cmds, session, route, path, slotState, passHistory>>

TickWhen ==
    /\ Called({"When"})
    /\ CASE Evaluate(flow[node].arg) = "error" -> Return(node, "Error")
         [] Evaluate(flow[node].arg) = "false" -> Return(node, "Failure")
         [] OTHER -> Call(node, 1)
    /\ UNCHANGED <<flow, treeState, blackboard, session, route, path, slotState, passHistory>>

LeaveWhen ==
    /\ Returned({"When"})
    /\ Return(Parent(node), status)
    /\ UNCHANGED <<flow, treeState, blackboard, session, route, path, slotState, passHistory>>

\* A subtree has a scope of its own, which an error leaves on the stack.
TickSubTree ==
    /\ Called({"SubTree"})
    /\ IF Len(scopes) >= MaxScopes \/ flow[node].kids = 0
       THEN Return(node, "Error") /\ UNCHANGED scopes
       ELSE Call(node, 1) /\ scopes' = Append(scopes, "unset")
    /\ UNCHANGED <<flow, treeState, output, round, cmds, session, route, path, slotState, passHistory>>

LeaveSubTree ==
    /\ Returned({"SubTree"})
    /\ Return(Parent(node), status)
    /\ scopes' = SubSeq(scopes, 1, Len(scopes) - 1)
    /\ UNCHANGED <<flow, treeState, output, round, cmds, session, route, path, slotState, passHistory>>

-----------------------------------------------------------------------------
(* The leaves.                                                               *)
TickCondition ==
    /\ Called({"Condition"})
    /\ Return(node, CASE Evaluate(flow[node].arg) = "error" -> "Error"
                      [] Evaluate(flow[node].arg) = "true"  -> "Success"
                      [] OTHER -> "Failure")
    /\ UNCHANGED <<flow, treeState, blackboard, session, route, path, slotState, passHistory>>

TickAction ==
    /\ Called({"Action"})
    /\ IF Evaluate(flow[node].arg) = "true"
       THEN /\ Return(node, "Success")
            /\ PushCommand(node)
            /\ fired' = [fired EXCEPT ![node] = IF @ = 0 THEN 1 ELSE 2]
       ELSE /\ Return(node, IF Evaluate(flow[node].arg) = "error" THEN "Error" ELSE "Failure")
            /\ UNCHANGED <<cmds, fired>>
    /\ UNCHANGED <<flow, treeState, output, round, scopes, session, route, path, slotState, clean, misread>>

TickSetVar ==
    /\ Called({"SetVar"})
    /\ SetDecision(flow[node].arg)
    /\ Return(node, "Success")
    /\ UNCHANGED <<flow, treeState, output, round, cmds, session, route, path, slotState, passHistory>>

\* Mutant of Send: an earlier message that was not answered keeps its channel.
SendQueued(a) == IF reply = "none" THEN asker' = a /\ reply' = "awaited" ELSE UNCHANGED session
\* ProviderSession::send: the channel of an earlier message is dropped.
Send(a) == asker' = a /\ reply' = "awaited"

\* tick_prompt, first tick.
PromptSends ==
    /\ Called({"Prompt"}) /\ node \notin pending
    /\ Send(node)
    /\ pending' = pending \cup {node}
    /\ Return(node, "Running")
    /\ UNCHANGED <<flow, activeChild, attempts, tally, cooling, late, blackboard, route, path,
                   slotState, passHistory>>

\* The template cannot be rendered, or the thread of the provider is not
\* started: the session keeps the channel of an earlier message.
PromptFails ==
    /\ Called({"Prompt"}) /\ node \notin pending
    /\ Return(node, "Error")
    /\ UNCHANGED <<flow, treeState, blackboard, session, route, path, slotState, passHistory>>

\* tick_prompt, later ticks: too late, not ready, or a reply to parse.
PromptGivesUp ==
    /\ Called({"Prompt"}) /\ node \in pending \cap late
    /\ pending' = pending \ {node}
    /\ late' = late \ {node}
    /\ Return(node, "Failure")
    /\ UNCHANGED <<flow, activeChild, attempts, tally, cooling, blackboard, session, route, path,
                   slotState, passHistory>>

PromptWaits ==
    /\ Called({"Prompt"}) /\ node \in pending \ late
    /\ reply \notin Replies
    /\ Return(node, "Running")
    /\ UNCHANGED <<flow, treeState, blackboard, session, route, path, slotState, passHistory>>

PromptReads ==
    /\ Called({"Prompt"}) /\ node \in pending \ late
    /\ reply \in Replies
    /\ reply' = "none"
    /\ misread' = (misread \/ asker # node)
    /\ pending' = pending \ {node}
    /\ Return(node, IF reply = "bad" THEN "Failure" ELSE "Success")
    /\ IF reply # "bad" /\ flow[node].arg = "command" THEN PushCommand(node) ELSE UNCHANGED cmds
    /\ IF reply # "bad" /\ flow[node].arg # "command" THEN SetDecision(reply) ELSE UNCHANGED scopes
    /\ UNCHANGED <<flow, activeChild, attempts, tally, cooling, late, output, round, asker, route, path,
                   slotState, fired, clean>>

-----------------------------------------------------------------------------
(* Executor::tick, DecisionIntegration::handle_tick_result and their callers. *)
\* The start of a tick; a tree that is not running begins a pass.
TickStarts ==
    /\ phase = "idle"
    /\ phase' = "down"
    /\ route' = IF executor.is_running THEN executor.running_path ELSE <<>>
    /\ IF executor.is_running THEN UNCHANGED <<fired, clean>>
       ELSE fired' = [a \in DOMAIN flow |-> 0] /\ clean' = TRUE
    /\ UNCHANGED <<node, status, path, misread>>

WalkOver == phase' = "idle" /\ node' = <<>> /\ status' = "none" /\ route' = <<>> /\ path' = <<>>

\* An error goes straight up to the caller of the tick.
TickFails ==
    /\ phase = "up" /\ status = "Error"
    /\ WalkOver
    /\ clean' = FALSE
    /\ UNCHANGED <<flow, treeState, blackboard, session, slotState, fired, misread>>

\* The commands of the blackboard go into the result before
\* handle_tick_result drains the blackboard again to dispatch them.
TickEnds ==
    /\ phase = "up" /\ status # "Error" /\ node = <<>>
    /\ WalkOver
    /\ executor' = [is_running   |-> status = "Running",
                    running_path |-> IF status = "Running" THEN path ELSE <<>>]
    /\ cmds' = <<>>
    /\ poll' = (poll \/ status = "Running")
    /\ toDispatch' = IF status = "Success" THEN toDispatch \o cmds' ELSE toDispatch
    /\ UNCHANGED <<flow, treeState, output, round, scopes, session, passHistory>>

\* DecisionAgentSlot::new with the tree t.
NewSlot(t) ==
    /\ flow' = t
    /\ activeChild' = [a \in DOMAIN t |-> 0]
    /\ attempts' = [a \in DOMAIN t |-> 0]
    /\ tally' = [a \in DOMAIN t |-> [won |-> 0, lost |-> 0]]
    /\ cooling' = {} /\ pending' = {} /\ late' = {}
    /\ output' = FALSE /\ round' = 0 /\ scopes' = <<"unset">> /\ cmds' = <<>>
    /\ asker' = <<>> /\ reply' = "none"
    /\ executor' = [is_running |-> FALSE, running_path |-> <<>>]
    /\ poll' = FALSE
    /\ toDispatch' = <<>>
    /\ fired' = [a \in DOMAIN t |-> 0] /\ clean' = TRUE /\ misread' = FALSE
    /\ UNCHANGED walk

\* attach_decision_slot; a slot that is there already is replaced.
AttachDecisionSlot(t) ==
    /\ phase = "idle"
    /\ NewSlot(t)

DetachDecisionSlot ==
    /\ flow # NoFlow
    /\ phase = "idle"
    /\ NewSlot(NoFlow)

\* handle_provider_event with Finished, after the chunks of the output.
WorkAgentFinished(matches) ==
    /\ flow # NoFlow
    /\ Len(cmds) < MaxBacklog
    /\ output' = matches
    /\ TickStarts
    /\ UNCHANGED <<flow, treeState, round, scopes, cmds, session, slotState>>

\* poll_decision_slot: only a ready session is ticked.
PollDecisionSlot ==
    /\ flow # NoFlow
    /\ poll
    /\ reply \in Replies
    /\ Len(cmds) < MaxBacklog
    /\ poll' = FALSE
    /\ TickStarts
    /\ UNCHANGED <<flow, treeState, blackboard, session, executor, toDispatch>>

ClearPendingCommands ==
    /\ flow # NoFlow
    /\ phase = "idle"
    /\ toDispatch' = <<>>
    /\ UNCHANGED <<flow, treeState, blackboard, session, walk, executor, poll, passHistory>>

\* DecisionAgentSlot::clear: the executor and the commands, not the nodes.
ClearSlot ==
    /\ flow # NoFlow
    /\ phase = "idle"
    /\ executor' = [is_running |-> FALSE, running_path |-> <<>>]
    /\ cmds' = <<>>
    /\ UNCHANGED <<flow, treeState, output, round, scopes, session, walk, poll, toDispatch, passHistory>>

\* The provider thread of the last message answers.
ProviderReplies(r) ==
    /\ reply = "awaited"
    /\ reply' = r
    /\ UNCHANGED <<flow, treeState, blackboard, asker, walk, slotState, passHistory>>

\* Time passes: a prompt waits for longer than its time-out, a cooldown ends.
PromptTimesOut(a) ==
    /\ a \in pending \ late
    /\ late' = late \cup {a}
    /\ UNCHANGED <<flow, activeChild, attempts, tally, cooling, pending, blackboard, session,
                   walk, slotState, passHistory>>

CooldownEnds(a) ==
    /\ a \in cooling
    /\ cooling' = cooling \ {a}
    /\ UNCHANGED <<flow, activeChild, attempts, tally, pending, late, blackboard, session,
                   walk, slotState, passHistory>>

FlowInit ==
    /\ flow = NoFlow
    /\ activeChild = [a \in DOMAIN NoFlow |-> 0]
    /\ attempts = [a \in DOMAIN NoFlow |-> 0]
    /\ tally = [a \in DOMAIN NoFlow |-> [won |-> 0, lost |-> 0]]
    /\ cooling = {} /\ pending = {} /\ late = {}
    /\ output = FALSE /\ round = 0 /\ scopes = <<"unset">> /\ cmds = <<>>
    /\ asker = <<>> /\ reply = "none"
    /\ phase = "idle" /\ node = <<>> /\ status = "none" /\ route = <<>> /\ path = <<>>
    /\ executor = [is_running |-> FALSE, running_path |-> <<>>]
    /\ poll = FALSE
    /\ toDispatch = <<>>
    /\ fired = [a \in DOMAIN NoFlow |-> 0] /\ clean = TRUE /\ misread = FALSE

\* A step of a tick.
WalkStep ==
    \/ TickWalk \/ LeaveWalk
    \/ TickParallel \/ LeaveParallel
    \/ TickRepeater \/ LeaveRepeater
    \/ TickInverter \/ LeaveInverter \/ LeaveForceHuman
    \/ TickCooldown \/ LeaveCooldown
    \/ TickReflectionGuard \/ LeaveReflectionGuard
    \/ TickWhen \/ LeaveWhen
    \/ TickSubTree \/ LeaveSubTree
    \/ TickCondition \/ TickAction \/ TickSetVar
    \/ PromptSends \/ PromptFails \/ PromptGivesUp \/ PromptWaits \/ PromptReads
    \/ TickFails \/ TickEnds

FlowNext ==
    \/ \E t \in Flows : AttachDecisionSlot(t)
    \/ \E b \in BOOLEAN : WorkAgentFinished(b)
    \/ PollDecisionSlot
    \/ WalkStep
    \/ ClearPendingCommands
    \/ DetachDecisionSlot
    \/ ClearSlot
    \/ \E r \in Replies : ProviderReplies(r)
    \/ \E a \in pending : PromptTimesOut(a)
    \/ \E a \in cooling : CooldownEnds(a)

FlowSpec == FlowInit /\ [][FlowNext]_flowVars

-----------------------------------------------------------------------------
(* Properties.                                                               *)
Below(a, kinds) == \E x \in DOMAIN flow : Above(x, a) /\ flow[x].kind \in kinds

\* Resuming a running tree does not run the actions before the running child
\* again: an action that is not below a Parallel or a Repeater runs at most
\* once from the first tick of a pass to the one that ends it, as long as no
\* tick failed with an error.
ActionOnce ==
    clean => \A a \in DOMAIN flow : flow[a].kind = "Action" /\ ~Below(a, {"Parallel", "Repeater"})
                                        => fired[a] <= 1

\* A reply is taken by the prompt that asked, also when earlier prompts timed
\* out and their replies come late, in the trees in which nothing above a
\* prompt can leave it waiting (a When whose condition turns false, a
\* Parallel that ends before all its children).
OwnReply ==
    (\A a \in DOMAIN flow : flow[a].kind = "Prompt" => ~Below(a, {"When", "Parallel"})) => ~misread
=============================================================================
