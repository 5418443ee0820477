---------------------------- MODULE MCComponents ----------------------------
(* The components that share no state with each other, each explored on its  *)
(* own: the initial state picks one, and the others keep still.              *)
EXTENDS HumanDecisionQueue, DecisionFlow, DecisionAgents, ConcurrentDecisions,
        TaskRegistry, SingleAgentLoop

VARIABLE component

Components == {"human queue", "flow", "decision agent", "sessions", "rate limiter",
               "arbitrator", "registry", "loop"}

queueVars == vars
allVars == <<component, queueVars, flowVars, agentVars, poolVars, limiterVars, arbiterVars, regVars, loopVars>>

-----------------------------------------------------------------------------
(* The flows: rules with a switch, an escalation, a reflection bound and a   *)
(* cooldown; a retry; a sequence of prompts, a subtree and an inverter; a    *)
(* parallel node.                                                            *)
Rule(cond, then, on_error, bound, cooldown) ==
    [if |-> cond, then |-> then, on_error |-> on_error, rounds |-> bound, cooldown |-> cooldown]

RuleFlow ==
    DesugarRules(<<Rule("output", "Switch", "escalate", 1, TRUE),
                   Rule("none", "When", "skip", 0, FALSE)>>)
RetryFlow == DesugarRules(<<Rule("output", "Command", "retry", 0, FALSE)>>)
VerifyFlow ==
    Node("Sequence",
         <<ActionNode,
           Node("Selector", <<Leaf("Prompt", "json"), Leaf("Prompt", "command")>>, "", 0),
           ActionNode,
           Node("SubTree", <<DesugarThen("Pipeline")>>, "", 0),
           Node("ForceHuman", <<Node("Inverter", <<Leaf("Condition", "output")>>, "", 0)>>, "", 0)>>,
         "", 0)
ParallelFlow ==
    Node("Parallel",
         <<ActionNode,
           Node("When", <<Leaf("Prompt", "json")>>, "output", 0),
           Leaf("SetVar", "no")>>, "Majority", 0)
MCFlows == {RuleFlow, RetryFlow, VerifyFlow, ParallelFlow}

-----------------------------------------------------------------------------
(* An initial choice of a component that is not explored is fixed.           *)
ComponentsInit ==
    /\ component \in Components
    /\ Init
    /\ FlowInit
    /\ AgentInit
    /\ PoolInit /\ (component = "sessions" \/ reuse)
    /\ LimiterInit
    /\ ArbiterInit /\ (component = "arbitrator" \/ strategy = "Sequential")
    /\ RegInit
    /\ LoopInit

ComponentsNext ==
    \/ /\ component = "human queue" /\ Next
       /\ UNCHANGED <<component, flowVars, agentVars, poolVars, limiterVars, arbiterVars, regVars, loopVars>>
    \/ /\ component = "flow" /\ FlowNext
       /\ UNCHANGED <<component, queueVars, agentVars, poolVars, limiterVars, arbiterVars, regVars, loopVars>>
    \/ /\ component = "decision agent" /\ AgentNext
       /\ UNCHANGED <<component, queueVars, flowVars, poolVars, limiterVars, arbiterVars, regVars, loopVars>>
    \/ /\ component = "sessions" /\ PoolNext
       /\ UNCHANGED <<component, queueVars, flowVars, agentVars, limiterVars, arbiterVars, regVars, loopVars>>
    \/ /\ component = "rate limiter" /\ LimiterNext
       /\ UNCHANGED <<component, queueVars, flowVars, agentVars, poolVars, arbiterVars, regVars, loopVars>>
    \/ /\ component = "arbitrator" /\ ArbiterNext
       /\ UNCHANGED <<component, queueVars, flowVars, agentVars, poolVars, limiterVars, regVars, loopVars>>
    \/ /\ component = "registry" /\ RegNext
       /\ UNCHANGED <<component, queueVars, flowVars, agentVars, poolVars, limiterVars,
                      arbiterVars, loopVars>>
    \/ /\ component = "loop" /\ LoopNext
       /\ UNCHANGED <<component, queueVars, flowVars, agentVars, poolVars, limiterVars,
                      arbiterVars, regVars>>

ComponentsSpec ==
    ComponentsInit /\ [][ComponentsNext]_allVars /\ AgentFairness /\ LoopFairness
=============================================================================
