--------------------------- MODULE DecisionAgents ---------------------------
(* The decision agent of a work agent: the mail between the two, the thread  *)
(* that every request is decided in, the tiered engine the thread runs, and  *)
(* the poll of the pool that starts threads and collects responses.          *)
(*                                                                           *)
(* One work agent is modelled: the agents share nothing.  Removing and       *)
(* spawning the decision agent starts a new generation with new channels;    *)
(* threads of earlier generations go on, and what they send reaches nobody   *)
(* (their send fails, and the fallback they then fill belongs to the slot    *)
(* that was dropped).  process_request, and with it the status Error, is     *)
(* only used by unit tests.  Counters and time stamps are left out.          *)
EXTENDS Naturals, Sequences, FiniteSets

CONSTANTS
    Situations,      \* types of situations, a subset of AllSituations
    MaxReflections,  \* max_reflection_rounds of the engine
    MaxAsked,        \* bound: requests in all
    MaxGenerations   \* bound: decision agents spawned in all

AllSituations == {"claims_completion", "waiting_for_choice", "agent_idle", "rate_limited",
                  "error", "partial_completion", "task_starting", "requires_human"}

ASSUME SituationsAssumption == Situations \subseteq AllSituations
ASSUME MaxReflectionsAssumption == MaxReflections \in Nat \ {0}
ASSUME AgentBoundsAssumption == MaxAsked \in Nat /\ MaxGenerations \in Nat

VARIABLES
    slot,       \* DecisionAgentSlot: [status, round, pending], status None if absent
    generation, \* how many decision agents there have been
    requests,   \* the request channel
    responses,  \* the response channel
    threads,    \* decision threads, of every generation
    asked,      \* ids of the requests sent to this decision agent, in order
    collected,  \* what poll_decision_agents returned of them, in order
    nextId

agentVars == <<slot, generation, requests, responses, threads, asked, collected, nextId>>

\* pending_reflection_round is None; no round is that high.
NoPending == MaxReflections + 1

-----------------------------------------------------------------------------
(* The engines.  An engine decision is a function of the situation, the      *)
(* round in its context and what the LLM comes up with (or "fail", when all  *)
(* attempts failed or the response could not be parsed).                     *)
LlmActions == {"reflect", "confirm_completion", "continue", "other"}
Outcomes == LlmActions \cup {"fail"}

\* DecisionTier::from_situation.
Tier(sit) ==
    CASE sit = "requires_human" -> "Critical"
      [] sit \in {"error", "partial_completion"} -> "Complex"
      [] sit \in {"rate_limited", "waiting_for_choice", "agent_idle"} -> "Simple"
      [] OTHER -> "Medium"

\* The built-in rules, of which one at most matches a situation of this tier.
RuleAction(sit) ==
    CASE sit = "waiting_for_choice" -> "select_first"
      [] sit = "rate_limited"       -> "retry"
      [] sit = "agent_idle"         -> "continue_all_tasks"
      [] OTHER                      -> "custom_instruction"

Decided(action, round) == [action |-> action, round |-> round]

\* LLMDecisionEngine::decide with the engine's round after it was taken from
\* the context.
LlmDecide(sit, round, outcome) ==
    LET r == IF sit = "claims_completion" /\ round = 0 THEN 1 ELSE round
    IN  CASE outcome = "fail" -> Decided("fail", r)
          [] outcome = "reflect" /\ sit = "claims_completion" ->
                IF r >= MaxReflections THEN Decided("request_human", r)
                ELSE Decided("reflect", r + 1)
          [] outcome \in {"confirm_completion", "continue"} -> Decided(outcome, 0)
          [] OTHER -> Decided(outcome, r)

\* TieredDecisionEngine::decide by a new engine: the rule engine leaves the
\* round of the LLM engine at its initial 0.  A failure of another tier than
\* Medium is tried again at Medium; the context of that is a new one, without
\* a round, so the engine goes on with the one it has.
TieredDecide(sit, round, first, second) ==
    IF Tier(sit) = "Simple" THEN Decided(RuleAction(sit), 0)
    ELSE LET d == LlmDecide(sit, round, first)
         IN  IF d.action = "fail" /\ Tier(sit) # "Medium" THEN LlmDecide(sit, d.round, second)
             ELSE d

-----------------------------------------------------------------------------
(* Operations of the pool.                                                   *)
Fresh(status) == [status |-> status, round |-> 0, pending |-> NoPending]

\* spawn_decision_agent_for: nothing is done when there is one.
SpawnDecisionAgent ==
    /\ slot.status = "None"
    /\ generation < MaxGenerations
    /\ generation' = generation + 1
    /\ slot' = Fresh("Idle")
    /\ UNCHANGED <<requests, responses, threads, asked, collected, nextId>>

\* stop_decision_agent_for, remove_agent: the slot and both channels go.
RemoveDecisionAgent ==
    /\ slot.status # "None"
    /\ slot' = Fresh("None")
    /\ requests' = <<>>
    /\ responses' = <<>>
    /\ asked' = <<>>
    /\ collected' = <<>>
    /\ UNCHANGED <<generation, threads, nextId>>

\* send_decision_request and, for task_starting, trigger_task_preparation.
SendDecisionRequest(sit) ==
    /\ slot.status # "None"
    /\ nextId <= MaxAsked
    /\ requests' = Append(requests, [id |-> nextId, sit |-> sit])
    /\ asked' = Append(asked, nextId)
    /\ nextId' = nextId + 1
    /\ UNCHANGED <<slot, generation, responses, threads, collected>>

\* Mutant of MayStart: an agent that is thinking takes the next request.
MayStartBusy == slot.status # "None" /\ requests # <<>>
\* poll_and_process: an agent that is not idle takes no request.
MayStart == slot.status = "Idle" /\ requests # <<>>
\* What spawn_async_processing gives to the thread.
Thread(req) == [gen |-> generation, req |-> req, round |-> slot.round, st |-> "deciding",
                action |-> "none"]

\* Mutant of ClearThinking: the round of the thread is not taken over.
ClearThinkingForgets(s) == IF s.status = "Thinking" THEN Fresh("Idle") ELSE s
\* Mutant of ClearThinking: nothing is done when the round is the old one.
ClearThinkingReturnsEarly(s) ==
    IF s.status = "Thinking" /\ s.pending # s.round
    THEN [status |-> "Idle", round |-> s.pending, pending |-> NoPending] ELSE s
\* clear_thinking_status.
ClearThinking(s) ==
    IF s.status = "Thinking"
    THEN [status |-> "Idle", round |-> IF s.pending = NoPending THEN s.round ELSE s.pending,
          pending |-> NoPending]
    ELSE s

\* poll_decision_agents: a thread is started if the agent is idle, then every
\* response is taken, and only then, and only if there was one, the agent
\* becomes idle again.
PollDecisionAgents ==
    /\ slot.status # "None"
    /\ LET started == IF MayStart THEN [slot EXCEPT !.status = "Thinking"] ELSE slot
       IN  /\ MayStart \/ responses # <<>>
           /\ requests' = IF MayStart THEN Tail(requests) ELSE requests
           /\ threads' = IF MayStart THEN threads \cup {Thread(Head(requests))} ELSE threads
           /\ slot' = IF responses = <<>> THEN started ELSE ClearThinking(started)
    /\ collected' = collected \o responses
    /\ responses' = <<>>
    /\ UNCHANGED <<generation, asked, nextId>>

-----------------------------------------------------------------------------
(* Steps of a thread.                                                        *)
\* The decision, and the write of pending_reflection_round.
ThreadDecides(t, first, second) ==
    LET d == TieredDecide(t.req.sit, t.round, first, second)
    IN  /\ t.st = "deciding"
        /\ threads' = (threads \ {t}) \cup {[t EXCEPT !.st = "sending", !.action = d.action]}
        /\ slot' = IF t.gen = generation /\ slot.status # "None"
                   THEN [slot EXCEPT !.pending = d.round] ELSE slot
        /\ UNCHANGED <<generation, requests, responses, asked, collected, nextId>>

\* The thread sends its response and ends.
ThreadSends(t) ==
    /\ t.st = "sending"
    /\ threads' = threads \ {t}
    /\ responses' = IF t.gen = generation /\ slot.status # "None"
                    THEN Append(responses, [id |-> t.req.id, sit |-> t.req.sit, action |-> t.action])
                    ELSE responses
    /\ UNCHANGED <<slot, generation, requests, asked, collected, nextId>>

\* extract_reasoning cuts the response at its 100th byte, which panics inside
\* a character: the thread ends without a response.
ThreadPanics(t) ==
    /\ t.st = "deciding"
    /\ Tier(t.req.sit) # "Simple"
    /\ threads' = (threads \ {t}) \cup {[t EXCEPT !.st = "panicked"]}
    /\ UNCHANGED <<slot, generation, requests, responses, asked, collected, nextId>>

AgentInit ==
    /\ slot = Fresh("None")
    /\ generation = 0
    /\ requests = <<>>
    /\ responses = <<>>
    /\ threads = {}
    /\ asked = <<>>
    /\ collected = <<>>
    /\ nextId = 1

AgentNext ==
    \/ SpawnDecisionAgent
    \/ RemoveDecisionAgent
    \/ \E sit \in Situations : SendDecisionRequest(sit)
    \/ PollDecisionAgents
    \/ \E t \in threads, first, second \in Outcomes : ThreadDecides(t, first, second)
    \/ \E t \in threads : ThreadSends(t)
    \/ \E t \in threads : ThreadPanics(t)

ThreadStep == \E t \in threads :
    \/ \E first, second \in Outcomes : ThreadDecides(t, first, second)
    \/ ThreadSends(t)

\* The daemon's tick polls for ever; a thread whose LLM call ends (it has a
\* time-out) goes on.
AgentFairness == WF_agentVars(PollDecisionAgents) /\ WF_agentVars(ThreadStep)

AgentSpec == AgentInit /\ [][AgentNext]_agentVars /\ AgentFairness

-----------------------------------------------------------------------------
(* Properties.                                                               *)
Current == {t \in threads : t.gen = generation /\ slot.status # "None"}

\* While the agent is thinking exactly one of these exists: the thread of its
\* decision (a thread that panicked included) or the response of that thread;
\* while it is idle there is neither.
ThinkingHasThread ==
    Cardinality(Current) + Len(responses) = IF slot.status = "Thinking" THEN 1 ELSE 0

\* Requests are answered in the order in which they were sent, each once, and
\* none of an earlier decision agent is answered to a later one.
AnsweredInOrder ==
    /\ Len(collected) <= Len(asked)
    /\ \A i \in 1..Len(collected) : collected[i].id = asked[i]

\* The hard limit on reflections: of consecutive decisions of one agent at
\* most MaxReflections - 1 answer a completion claim by another reflection,
\* before a human is asked; it starts anew after confirm_completion or
\* continue, and after every decision that the rule engine takes.
Resets(c) == c.action \in {"confirm_completion", "continue"} \/ Tier(c.sit) = "Simple"
ReflectionLimit ==
    \A i, j \in 1..Len(collected) :
        (\A k \in i..j : ~Resets(collected[k]))
            => Cardinality({k \in i..j : /\ collected[k].sit = "claims_completion"
                                         /\ collected[k].action = "reflect"}) <= MaxReflections - 1

Open(id) == /\ \E i \in 1..Len(asked) : asked[i] = id
            /\ \A i \in 1..Len(collected) : collected[i].id # id

\* Every request is answered, unless its agent is removed or a thread of that
\* agent panics: then the agent thinks for ever.
DecisionArrives ==
    \A id \in 1..MaxAsked :
        Open(id) ~> ~Open(id) \/ \E t \in Current : t.st = "panicked"
=============================================================================
