---------------------------- MODULE HumanQueueOps ----------------------------
(***************************************************************************)
(* HumanDecisionQueue (decision/src/state/blocking.rs): four first-in      *)
(* first-out lanes, one per urgency, and an index from request id to the   *)
(* lane that holds it.  The queue is a value [lanes, index], so that the   *)
(* worker pool can carry it as one of its fields.                          *)
(*                                                                         *)
(* A request is a record [id, agent]; its urgency is the lane it is pushed *)
(* to.  Descriptions, options and clock times are left out.                *)
(***************************************************************************)
EXTENDS Naturals, Sequences

\* UrgencyLevel, most urgent first.
Critical == 1
Low == 4
Levels == Critical..Low

EmptyQueue ==
    [lanes |-> [l \in Levels |-> <<>>], index |-> [i \in {} |-> Critical]]

\* Mutant of Push: the index is not told.
PushNotIndexed(q, r, l) ==
    [q EXCEPT !.lanes[l] = Append(@, r)]

\* Mutant of Push: the newest request is put first in its lane.
PushInFront(q, r, l) ==
    [lanes |-> [q.lanes EXCEPT ![l] = <<r>> \o @],
     index |-> [i \in DOMAIN q.index \cup {r.id} |->
                    IF i = r.id THEN l ELSE q.index[i]]]

Push(q, r, l) ==
    [lanes |-> [q.lanes EXCEPT ![l] = Append(@, r)],
     index |-> [i \in DOMAIN q.index \cup {r.id} |->
                    IF i = r.id THEN l ELSE q.index[i]]]

WithoutPos(s, p) ==
    [k \in 1..(Len(s) - 1) |-> IF k < p THEN s[k] ELSE s[k + 1]]

\* The entry at position p of lane l leaves, and its id leaves the index.
RemoveEntry(q, l, p) ==
    [lanes |-> [q.lanes EXCEPT ![l] = WithoutPos(@, p)],
     index |-> [i \in DOMAIN q.index \ {q.lanes[l][p].id} |-> q.index[i]]]

IsEmpty(q) == \A l \in Levels : q.lanes[l] = <<>>
Requests(q) ==
    UNION {{q.lanes[l][p] : p \in DOMAIN q.lanes[l]} : l \in Levels}
Ids(q) == {r.id : r \in Requests(q)}

\* Mutant of FirstLane: the least urgent lane is looked at first.
LastLane(q) ==
    CHOOSE l \in Levels : /\ q.lanes[l] # <<>>
                          /\ \A k \in Levels : k > l => q.lanes[k] = <<>>

\* The most urgent lane that is not empty; peek and pop look there.
FirstLane(q) ==
    CHOOSE l \in Levels : /\ q.lanes[l] # <<>>
                          /\ \A k \in Levels : k < l => q.lanes[k] = <<>>
Peek(q) == Head(q.lanes[FirstLane(q)])
Pop(q) == RemoveEntry(q, FirstLane(q), 1)

\* find_by_agent_id: the first request of the agent, lane by lane.
HasRequest(q, a) == \E r \in Requests(q) : r.agent = a
PosOf(s, a) ==
    CHOOSE p \in DOMAIN s : /\ s[p].agent = a
                            /\ \A k \in 1..(p - 1) : s[k].agent # a
LaneOf(q, a) ==
    CHOOSE l \in Levels :
        /\ \E p \in DOMAIN q.lanes[l] : q.lanes[l][p].agent = a
        /\ \A k \in Levels : k < l =>
              \A p \in DOMAIN q.lanes[k] : q.lanes[k][p].agent # a
FindByAgent(q, a) == q.lanes[LaneOf(q, a)][PosOf(q.lanes[LaneOf(q, a)], a)]
RemoveByAgent(q, a) ==
    RemoveEntry(q, LaneOf(q, a), PosOf(q.lanes[LaneOf(q, a)], a))

Indexed(q, id) == id \in DOMAIN q.index

\* Mutant of Complete: the request stays in its lane.
CompleteIndexOnly(q, id) ==
    [q EXCEPT !.index = [i \in DOMAIN q.index \ {id} |-> q.index[i]]]

\* complete: the index names the lane in which the id is searched.  An id
\* that the index does not know is refused; one that the index knows but the
\* lane does not hold only leaves the index.
Complete(q, id) ==
    LET l == q.index[id]
        held == {p \in DOMAIN q.lanes[l] : q.lanes[l][p].id = id}
    IN  IF held = {}
        THEN [q EXCEPT !.index =
                [i \in DOMAIN q.index \ {id} |-> q.index[i]]]
        ELSE RemoveEntry(q, l, CHOOSE p \in held : \A k \in held : p <= k)

\* check_expired: the expired requests of each lane leave.  All requests of
\* a lane are given the same timeout, so in a lane the oldest expire first:
\* n[l] is how many of lane l have expired.
Expired(q, n) ==
    UNION {{q.lanes[l][p] : p \in 1..n[l]} : l \in Levels}
DropExpired(q, n) ==
    LET gone == {r.id : r \in Expired(q, n)}
    IN  [lanes |-> [l \in Levels |->
                        SubSeq(q.lanes[l], n[l] + 1, Len(q.lanes[l]))],
         index |-> [i \in DOMAIN q.index \ gone |-> q.index[i]]]
TotalPending(q) == Len(q.lanes[1]) + Len(q.lanes[2]) + Len(q.lanes[3]) + Len(q.lanes[4])
Expiries(q) ==
    {n \in [Levels -> 0..TotalPending(q)] : \A l \in Levels : n[l] <= Len(q.lanes[l])}
-----------------------------------------------------------------------------
\* A queue value: lanes of requests with ids up to n, an index into the lanes.
QueueType(q, agents, n) ==
    /\ q = [lanes |-> q.lanes, index |-> q.index]
    /\ q.lanes \in [Levels -> Seq([id : 1..n, agent : agents])]
    /\ q.index \in [DOMAIN q.index -> Levels]

\* The index knows the requests that are held, no others, and their lanes.
IndexedExactly(q) ==
    /\ DOMAIN q.index = Ids(q)
    /\ \A l \in Levels : \A p \in DOMAIN q.lanes[l] :
            q.index[q.lanes[l][p].id] = l

\* Ids grow along each lane.
InOrder(q) ==
    \A l \in Levels : \A p, k \in DOMAIN q.lanes[l] :
        p < k => q.lanes[l][p].id < q.lanes[l][k].id
=============================================================================
