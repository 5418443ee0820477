-------------------------- MODULE HumanDecisionQueue --------------------------
(***************************************************************************)
(* The human decision queue as a component: every public operation that    *)
(* changes it, called in any order.                                        *)
(***************************************************************************)
EXTENDS HumanQueueOps

CONSTANTS Agents,      \* agents that raise requests
          MaxRequests  \* bound: requests raised in one behaviour

ASSUME MaxRequestsAssumption == MaxRequests \in Nat

VARIABLES q,       \* the queue
          raised,  \* requests raised so far; the next one is number raised + 1
          history, \* ids of the requests that were answered since the last clear
          ret      \* the last operation and the ids of the requests it removed

vars == <<q, raised, history, ret>>

Returns(op, ids) == ret' = [op |-> op, ids |-> ids]

Init == q = EmptyQueue /\ raised = 0 /\ history = {} /\ ret = [op |-> "new", ids |-> {}]


PushRequest(a, l) ==
    /\ raised < MaxRequests
    /\ raised' = raised + 1
    /\ q' = Push(q, [id |-> raised + 1, agent |-> a], l)
    /\ Returns("push", {})
    /\ UNCHANGED history

PopRequest ==
    /\ ~IsEmpty(q)
    /\ q' = Pop(q)
    /\ Returns("pop", {Peek(q).id})
    /\ UNCHANGED <<raised, history>>

FindAndRemoveByAgentId(a) ==
    /\ HasRequest(q, a)
    /\ q' = RemoveByAgent(q, a)
    /\ Returns("remove_by_agent", {FindByAgent(q, a).id})
    /\ UNCHANGED <<raised, history>>

\* A response names a request by its id; one that is unknown, or that was
\* answered or has lapsed before, is refused.
CompleteRequest(id) ==
    /\ Indexed(q, id)
    /\ q' = Complete(q, id)
    /\ history' = history \cup ({id} \cap Ids(q))
    /\ Returns("complete", {id})
    /\ UNCHANGED raised

CheckExpired(n) ==
    /\ q' = DropExpired(q, n)
    /\ Returns("check_expired", {r.id : r \in Expired(q, n)})
    /\ UNCHANGED <<raised, history>>

ClearQueue ==
    /\ q' = EmptyQueue
    /\ history' = {}
    /\ Returns("clear", {})
    /\ UNCHANGED raised

Next == \/ \E a \in Agents, l \in Levels : PushRequest(a, l)
        \/ PopRequest
        \/ \E a \in Agents : FindAndRemoveByAgentId(a)
        \/ \E id \in 1..MaxRequests : CompleteRequest(id)
        \/ \E n \in Expiries(q) : CheckExpired(n)
        \/ ClearQueue

Spec == Init /\ [][Next]_vars
-----------------------------------------------------------------------------
\* Types: lanes of requests numbered up to the last one raised, an index into
\* the lanes, answered ids.
TypeOK ==
    /\ raised \in 0..MaxRequests
    /\ history \subseteq 1..raised
    /\ QueueType(q, Agents, raised)

\* The index that complete() trusts is exact: it knows the requests that are
\* held, no others, and names for each the lane that holds it.
IndexExact == IndexedExactly(q)

\* A lane is served oldest first: ids grow along it, so no request is held
\* twice and none overtakes an older one of its lane.
LanesInOrder == InOrder(q)

\* A request that was answered is gone: no answer is applied twice.
AnsweredOnce == history \cap Ids(q) = {}

\* The lanes and the index implement the set of pending requests.
Pending == UNION {{[id |-> q.lanes[l][p].id, agent |-> q.lanes[l][p].agent,
                    level |-> l] : p \in DOMAIN q.lanes[l]} : l \in Levels}
Abstract == INSTANCE PendingRequests WITH pending <- Pending
AbstractSpec == Abstract!Spec
=============================================================================
