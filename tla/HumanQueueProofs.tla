-------------------------- MODULE HumanQueueProofs --------------------------
(***************************************************************************)
(* For any set of agents and any number of requests: the index of the      *)
(* human decision queue stays exact, the lanes stay in order, no request   *)
(* is answered twice, and the queue implements the abstract set of pending *)
(* requests.                                                               *)
(***************************************************************************)
EXTENDS HumanDecisionQueue, HumanQueueLemmas

QueueInv == TypeOK /\ IndexExact /\ LanesInOrder /\ AnsweredOnce

LEMMA QueueInvIsSound ==
    QueueInv <=> /\ raised \in 0..MaxRequests
                 /\ history \subseteq 1..raised
                 /\ Sound(q, Agents, raised)
                 /\ history \cap Ids(q) = {}
  BY DEF QueueInv, TypeOK, IndexExact, LanesInOrder, AnsweredOnce, Sound

LEMMA QueueInvStep ==
    ASSUME QueueInv, [Next]_vars
    PROVE  QueueInv'
  <1>1. /\ raised \in 0..MaxRequests
        /\ raised \in Nat
        /\ history \subseteq 1..raised
        /\ Sound(q, Agents, raised)
        /\ history \cap Ids(q) = {}
    BY QueueInvIsSound, MaxRequestsAssumption
  <1>2. SUFFICES /\ raised' \in 0..MaxRequests
                 /\ history' \subseteq 1..raised'
                 /\ Sound(q', Agents, raised')
                 /\ history' \cap Ids(q') = {}
    BY DEF QueueInv, TypeOK, IndexExact, LanesInOrder, AnsweredOnce, Sound
  <1>3. ASSUME NEW l \in Levels, NEW p \in DOMAIN q.lanes[l],
               q' = RemoveEntry(q, l, p), raised' = raised
        PROVE  /\ raised' \in 0..MaxRequests
               /\ Sound(q', Agents, raised')
               /\ Ids(q') = Ids(q) \ {q.lanes[l][p].id}
    BY <1>1, <1>3, RemoveEntrySound
  <1>4. ASSUME NEW a \in Agents, NEW l \in Levels, PushRequest(a, l)
        PROVE  /\ raised' \in 0..MaxRequests
               /\ history' \subseteq 1..raised'
               /\ Sound(q', Agents, raised')
               /\ history' \cap Ids(q') = {}
    <2>1. /\ raised' = raised + 1 /\ raised < MaxRequests
          /\ q' = Push(q, [id |-> raised + 1, agent |-> a], l)
          /\ history' = history
      BY <1>4 DEF PushRequest
    <2>2. Sound(q', Agents, raised')
      BY <1>1, <2>1, PushSound
    <2>3. DOMAIN q'.index = DOMAIN q.index \cup {raised + 1}
      BY <2>1 DEF Push
    <2>4. Ids(q') = Ids(q) \cup {raised + 1}
      BY <1>1, <2>2, <2>3 DEF Sound, IndexedExactly
    <2>5. raised + 1 \notin history
      BY <1>1
    <2> QED BY <1>1, <2>1, <2>2, <2>4, <2>5, MaxRequestsAssumption
  <1>5. CASE PopRequest
    <2>1. FirstLane(q) \in Levels /\ 1 \in DOMAIN q.lanes[FirstLane(q)]
      BY <1>1, <1>5, FirstLaneFacts DEF PopRequest
    <2>2. q' = RemoveEntry(q, FirstLane(q), 1) /\ raised' = raised /\ history' = history
      BY <1>5 DEF PopRequest, Pop
    <2> QED BY <1>1, <1>3, <2>1, <2>2
  <1>6. ASSUME NEW a \in Agents, FindAndRemoveByAgentId(a)
        PROVE  /\ raised' \in 0..MaxRequests
               /\ history' \subseteq 1..raised'
               /\ Sound(q', Agents, raised')
               /\ history' \cap Ids(q') = {}
    <2> DEFINE l == LaneOf(q, a)
               p == PosOf(q.lanes[l], a)
    <2>1. l \in Levels /\ p \in DOMAIN q.lanes[l]
      BY <1>1, <1>6, FindFacts DEF FindAndRemoveByAgentId
    <2>2. q' = RemoveEntry(q, l, p) /\ raised' = raised /\ history' = history
      BY <1>6 DEF FindAndRemoveByAgentId, RemoveByAgent
    <2> QED BY <1>1, <1>3, <2>1, <2>2
  <1>7. ASSUME NEW id \in 1..MaxRequests, CompleteRequest(id)
        PROVE  /\ raised' \in 0..MaxRequests
               /\ history' \subseteq 1..raised'
               /\ Sound(q', Agents, raised')
               /\ history' \cap Ids(q') = {}
    <2>1. Indexed(q, id) /\ q' = Complete(q, id) /\ raised' = raised
      BY <1>7 DEF CompleteRequest
    <2>2. PICK l \in Levels : \E p \in DOMAIN q.lanes[l] :
                q.lanes[l][p].id = id /\ q' = RemoveEntry(q, l, p)
      BY <1>1, <2>1, CompleteFacts
    <2>3. PICK p \in DOMAIN q.lanes[l] :
                q.lanes[l][p].id = id /\ q' = RemoveEntry(q, l, p)
      BY <2>2
    <2>4. id \in 1..raised
      BY <1>1, <2>3, EntryFacts
    <2>5. history' \subseteq history \cup {id}
      BY <1>7 DEF CompleteRequest
    <2> QED BY <1>1, <1>3, <2>1, <2>3, <2>4, <2>5
  <1>8. ASSUME NEW e \in Expiries(q), CheckExpired(e)
        PROVE  /\ raised' \in 0..MaxRequests
               /\ history' \subseteq 1..raised'
               /\ Sound(q', Agents, raised')
               /\ history' \cap Ids(q') = {}
    <2>1. q' = DropExpired(q, e) /\ raised' = raised /\ history' = history
      BY <1>8 DEF CheckExpired
    <2>2. e \in [Levels -> Nat] /\ \A k \in Levels : e[k] <= Len(q.lanes[k])
      <3>1. e \in [Levels -> 0..TotalPending(q)] /\ \A k \in Levels : e[k] <= Len(q.lanes[k])
        BY DEF Expiries
      <3>2. 0..TotalPending(q) \subseteq Nat
        OBVIOUS
      <3> QED BY <3>1, <3>2
    <2>3. Sound(q', Agents, raised) /\ Ids(q') \subseteq Ids(q)
      BY <1>1, <2>1, <2>2, DropExpiredSound
    <2> QED BY <1>1, <2>1, <2>3
  <1>9. CASE ClearQueue
    BY <1>1, <1>9, EmptyIsSound DEF ClearQueue
  <1>10. CASE UNCHANGED vars
    BY <1>1, <1>10 DEF vars
  <1> QED BY <1>4, <1>5, <1>6, <1>7, <1>8, <1>9, <1>10 DEF Next

\* For every set of agents and every number of requests, the index that
\* complete() and check_expired() trust is exact, the lanes are in order of
\* arrival and no answered request is still pending.
THEOREM QueueSafe == Spec => [](TypeOK /\ IndexExact /\ LanesInOrder /\ AnsweredOnce)
  <1>1. Init => QueueInv
    <2>1. 0 \in Nat
      OBVIOUS
    <2> QED BY <2>1, EmptyIsSound, QueueInvIsSound, MaxRequestsAssumption DEF Init
  <1>2. QueueInv /\ [Next]_vars => QueueInv'
    BY QueueInvStep
  <1>3. QueueInv <=> (TypeOK /\ IndexExact /\ LanesInOrder /\ AnsweredOnce)
    BY DEF QueueInv
  <1> QED BY <1>1, <1>2, <1>3, PTL DEF Spec

\* For every number of agents and requests, push() keeps each lane in order of
\* arrival, whatever is removed from its middle.
COROLLARY LanesKeepOrder == Spec => []LanesInOrder
  BY QueueSafe, PTL

\* For every number of agents and requests, a request that complete() moved to
\* the history is in no lane and no index.
COROLLARY NeverAnsweredTwice == Spec => []AnsweredOnce
  BY QueueSafe, PTL
-----------------------------------------------------------------------------
(* The lanes and the index implement PendingRequests *)

\* A request of lane l as the abstract specification sees it.
Seen(x, l) == [id |-> x.id, agent |-> x.agent, level |-> l]

\* The pending requests are the requests that the lanes hold.
LEMMA PendingMembers ==
    \A r : r \in Pending <=> \E l \in Levels : \E x : InLane(q, l, x) /\ r = Seen(x, l)
  BY DEF Pending, InLane, Seen

\* The same in the next state.
LEMMA PendingMembersNext ==
    \A r : r \in Pending' <=> \E l \in Levels : \E x : InLane(q', l, x) /\ r = Seen(x, l)
  BY DEF Pending, InLane, Seen

\* What is held is typed, a lane and an id tell two requests apart, and so the
\* abstract view of a request determines it.
LEMMA HeldFacts ==
    ASSUME QueueInv
    PROVE  /\ \A l \in Levels : \A x : InLane(q, l, x) =>
                x \in Reqs(Agents, raised) /\ x.id \in 1..raised /\ l \in Nat
           /\ \A l, k \in Levels : \A x, y :
                InLane(q, l, x) /\ InLane(q, k, y) /\ x.id = y.id => l = k /\ x = y
  <1>1. raised \in Nat /\ Sound(q, Agents, raised)
    BY QueueInvIsSound, MaxRequestsAssumption
  <1>2. \A l \in Levels : l \in Nat
    BY DEF Levels, Critical, Low
  <1>3. ASSUME NEW l \in Levels, NEW x, InLane(q, l, x)
        PROVE  x \in Reqs(Agents, raised) /\ x.id \in 1..raised
    BY <1>1, <1>3, EntryFacts DEF InLane
  <1>4. ASSUME NEW l \in Levels, NEW k \in Levels, NEW x, NEW y,
               InLane(q, l, x), InLane(q, k, y), x.id = y.id
        PROVE  l = k /\ x = y
    BY <1>1, <1>4, EntriesDiffer DEF InLane
  <1> QED BY <1>2, <1>3, <1>4

\* Taking one entry out of a lane takes one request from the abstract set and
\* hands out its id.
LEMMA RemoveIsHand ==
    ASSUME QueueInv, NEW l \in Levels, NEW p \in DOMAIN q.lanes[l], NEW op,
           q' = RemoveEntry(q, l, p), raised' = raised,
           ret' = [op |-> op, ids |-> {q.lanes[l][p].id}]
    PROVE  /\ Seen(q.lanes[l][p], l) \in Pending
           /\ Abstract!Hand(op, {Seen(q.lanes[l][p], l)})
  <1> DEFINE x0 == q.lanes[l][p]
             r0 == Seen(x0, l)
  <1>1. raised \in Nat /\ Sound(q, Agents, raised)
    BY QueueInvIsSound, MaxRequestsAssumption
  <1>2. InLane(q, l, x0)
    BY DEF InLane
  <1>3. \A k \in Levels : \A x : InLane(q', k, x) <=> InLane(q, k, x) /\ ~(k = l /\ x = x0)
    BY <1>1, RemoveEntrySound
  <1> HIDE DEF x0
  <1>4. r0.id = x0.id /\ r0.level = l
    BY DEF Seen
  <1>5. r0 \in Pending
    BY <1>2, PendingMembers
  <1>6. ASSUME NEW k \in Levels, NEW x, InLane(q, k, x)
        PROVE  Seen(x, k) = r0 <=> k = l /\ x = x0
    <2>1. Seen(x, k).id = x.id
      BY DEF Seen
    <2> QED BY <1>2, <1>4, <1>6, <2>1, HeldFacts
  <1> HIDE DEF r0
  <1>7. ASSUME NEW r
        PROVE  r \in Pending' <=> r \in Pending \ {r0}
    <2>1. r \in Pending' <=> \E k \in Levels : \E x : InLane(q', k, x) /\ r = Seen(x, k)
      BY PendingMembersNext
    <2>2. r \in Pending <=> \E k \in Levels : \E x : InLane(q, k, x) /\ r = Seen(x, k)
      BY PendingMembers
    <2> QED BY <1>3, <1>6, <2>1, <2>2
  <1>8. {r.id : r \in {r0}} = {x0.id}
    BY <1>4
  <1>9. Abstract!Hand(op, {r0})
    BY <1>7, <1>8 DEF Abstract!Hand, x0
  <1> QED BY <1>5, <1>9 DEF r0, x0

\* pop() hands out the request that is next in service order.
LEMMA PopServes ==
    ASSUME QueueInv, PopRequest
    PROVE  Abstract!Serve
  <1> DEFINE l == FirstLane(q)
             x0 == q.lanes[l][1]
  <1>1. raised \in Nat /\ Sound(q, Agents, raised)
    BY QueueInvIsSound, MaxRequestsAssumption
  <1>2. /\ l \in Levels /\ 1 \in DOMAIN q.lanes[l]
        /\ \A k \in Levels : k < l => q.lanes[k] = <<>>
    BY <1>1, FirstLaneFacts DEF PopRequest
  <1>3. x0 = Peek(q)
    BY <1>1, <1>2, EntryFacts DEF Peek
  <1>4. q' = RemoveEntry(q, l, 1) /\ raised' = raised /\ ret' = [op |-> "pop", ids |-> {x0.id}]
    BY <1>3 DEF PopRequest, Pop, Returns
  <1> HIDE DEF l
  <1>5. Seen(x0, l) \in Pending /\ Abstract!Hand("pop", {Seen(x0, l)})
    BY <1>2, <1>4, RemoveIsHand
  <1>6. ASSUME NEW s \in Pending, s # Seen(x0, l)
        PROVE  Abstract!Before(Seen(x0, l), s)
    <2>1. PICK k \in Levels : \E x : InLane(q, k, x) /\ s = Seen(x, k)
      BY PendingMembers
    <2>2. PICK m \in DOMAIN q.lanes[k] : s = Seen(q.lanes[k][m], k)
      BY <2>1 DEF InLane
    <2>3. s.level = k /\ s.id = q.lanes[k][m].id /\ Seen(x0, l).level = l /\ Seen(x0, l).id = x0.id
      BY <2>2 DEF Seen
    <2>4. k \in Nat /\ l \in Nat /\ ~(k < l)
      BY <1>2, <2>2 DEF Levels, Critical, Low
    <2>5. CASE k = l
      <3>1. m \in Nat /\ m # 1 /\ 1 < m
        BY <1>1, <1>6, <2>2, <2>5, EntryFacts
      <3>2. x0.id < q.lanes[l][m].id
        BY <1>1, <1>2, <2>5, <3>1 DEF Sound, InOrder
      <3> QED BY <2>3, <2>5, <3>2 DEF Abstract!Before
    <2>6. CASE k # l
      BY <2>3, <2>4, <2>6 DEF Abstract!Before
    <2> QED BY <2>5, <2>6
  <1> QED BY <1>5, <1>6 DEF Abstract!Serve

\* find_and_remove_by_agent_id() hands out the agent's next request.
LEMMA RemoveServesAgent ==
    ASSUME QueueInv, NEW a \in Agents, FindAndRemoveByAgentId(a)
    PROVE  Abstract!ServeAgent
  <1> DEFINE l == LaneOf(q, a)
             p == PosOf(q.lanes[l], a)
             x0 == q.lanes[l][p]
  <1>1. raised \in Nat /\ Sound(q, Agents, raised)
    BY QueueInvIsSound, MaxRequestsAssumption
  <1>2. /\ l \in Levels /\ p \in DOMAIN q.lanes[l] /\ x0.agent = a
        /\ \A m \in 1..(p - 1) : q.lanes[l][m].agent # a
        /\ \A k \in Levels : k < l => \A m \in DOMAIN q.lanes[k] : q.lanes[k][m].agent # a
    BY <1>1, FindFacts DEF FindAndRemoveByAgentId
  <1>3. /\ q' = RemoveEntry(q, l, p) /\ raised' = raised
        /\ ret' = [op |-> "remove_by_agent", ids |-> {x0.id}]
    BY DEF FindAndRemoveByAgentId, RemoveByAgent, Returns, FindByAgent
  <1> HIDE DEF l, p
  <1>4. Seen(x0, l) \in Pending /\ Abstract!Hand("remove_by_agent", {Seen(x0, l)})
    BY <1>2, <1>3, RemoveIsHand
  <1>5. ASSUME NEW s \in Pending, s # Seen(x0, l), s.agent = Seen(x0, l).agent
        PROVE  Abstract!Before(Seen(x0, l), s)
    <2>1. PICK k \in Levels : \E x : InLane(q, k, x) /\ s = Seen(x, k)
      BY PendingMembers
    <2>2. PICK m \in DOMAIN q.lanes[k] : s = Seen(q.lanes[k][m], k)
      BY <2>1 DEF InLane
    <2>3. /\ s.level = k /\ s.id = q.lanes[k][m].id /\ s.agent = q.lanes[k][m].agent
          /\ Seen(x0, l).level = l /\ Seen(x0, l).id = x0.id /\ Seen(x0, l).agent = a
      BY <1>2, <2>2 DEF Seen
    <2>4. q.lanes[k][m].agent = a
      BY <1>5, <2>3
    <2>4a. k \in Nat /\ l \in Nat /\ ~(k < l)
      <3>1. ~(k < l)
        BY <1>2, <2>4
      <3> QED BY <1>2, <3>1 DEF Levels, Critical, Low
    <2>5. CASE k = l
      <3>1. m \in Nat /\ p \in Nat /\ m # p /\ m >= 1
        BY <1>1, <1>2, <1>5, <2>2, <2>5, EntryFacts
      <3>2. p < m
        <4>1. m \notin 1..(p - 1)
          BY <1>2, <2>4, <2>5
        <4> QED BY <3>1, <4>1
      <3>3. x0.id < q.lanes[l][m].id
        BY <1>1, <1>2, <2>5, <3>2 DEF Sound, InOrder
      <3> QED BY <2>3, <2>5, <3>3 DEF Abstract!Before
    <2>6. CASE k # l
      BY <2>3, <2>4a, <2>6 DEF Abstract!Before
    <2> QED BY <2>5, <2>6
  <1> QED BY <1>4, <1>5 DEF Abstract!ServeAgent

\* check_expired() takes the oldest requests of each lane, and hands out the
\* ids of the ones it takes.
LEMMA ExpiryLapses ==
    ASSUME QueueInv, NEW e \in Expiries(q), CheckExpired(e)
    PROVE  Abstract!Lapse
  <1> DEFINE Gone(k, x) == \E m \in 1..e[k] : x = q.lanes[k][m]
             gone == {r \in Pending : \E k \in Levels : \E x : InLane(q, k, x) /\ Gone(k, x) /\ r = Seen(x, k)}
  <1>1. raised \in Nat /\ Sound(q, Agents, raised)
    BY QueueInvIsSound, MaxRequestsAssumption
  <1>2. e \in [Levels -> Nat] /\ \A k \in Levels : e[k] <= Len(q.lanes[k])
    <2>1. e \in [Levels -> 0..TotalPending(q)] /\ \A k \in Levels : e[k] <= Len(q.lanes[k])
      BY DEF Expiries
    <2>2. 0..TotalPending(q) \subseteq Nat
      OBVIOUS
    <2> QED BY <2>1, <2>2
  <1>3. /\ q' = DropExpired(q, e) /\ raised' = raised
        /\ ret' = [op |-> "check_expired", ids |-> {r.id : r \in Expired(q, e)}]
    BY DEF CheckExpired, Returns
  <1>4. \A k \in Levels : \A x : InLane(q', k, x) <=> InLane(q, k, x) /\ ~Gone(k, x)
    BY <1>1, <1>2, <1>3, DropExpiredSound
  <1>5. \A k \in Levels : \A m \in 1..e[k] : m \in DOMAIN q.lanes[k]
    BY <1>1, <1>2, EntryFacts
  <1>6. \A k \in Levels : \A x : Gone(k, x) => InLane(q, k, x)
    BY <1>5 DEF InLane
  <1>7. Pending' = Pending \ gone
    <2>1. ASSUME NEW k \in Levels, NEW x, InLane(q, k, x)
          PROVE  Seen(x, k) \in gone <=> Gone(k, x)
      <3>1. ASSUME NEW j \in Levels, NEW y, InLane(q, j, y), Seen(y, j) = Seen(x, k)
            PROVE  j = k /\ y = x
        <4>1. Seen(y, j).id = y.id /\ Seen(x, k).id = x.id
          BY DEF Seen
        <4> QED BY <2>1, <3>1, <4>1, HeldFacts
      <3>2. Seen(x, k) \in Pending
        BY <2>1, PendingMembers
      <3> HIDE DEF Gone
      <3> QED BY <2>1, <3>1, <3>2
    <2> HIDE DEF gone, Gone
    <2>2. ASSUME NEW r
          PROVE  r \in Pending' <=> r \in Pending \ gone
      <3>1. r \in Pending' <=> \E k \in Levels : \E x : InLane(q', k, x) /\ r = Seen(x, k)
        BY PendingMembersNext
      <3>2. r \in Pending <=> \E k \in Levels : \E x : InLane(q, k, x) /\ r = Seen(x, k)
        BY PendingMembers
      <3> QED BY <1>4, <2>1, <3>1, <3>2
    <2> QED BY <2>2
  <1>8. {r.id : r \in gone} = {r.id : r \in Expired(q, e)}
    <2>1. ASSUME NEW i
          PROVE  i \in {r.id : r \in Expired(q, e)} <=>
                    \E k \in Levels : \E x : Gone(k, x) /\ i = x.id
      BY DEF Expired
    <2>2. ASSUME NEW i
          PROVE  i \in {r.id : r \in gone} <=>
                    \E k \in Levels : \E x : Gone(k, x) /\ i = x.id
      <3>1. ASSUME NEW k \in Levels, NEW x, Gone(k, x)
            PROVE  Seen(x, k) \in gone /\ Seen(x, k).id = x.id
        <4>1. InLane(q, k, x) /\ Seen(x, k) \in Pending /\ Seen(x, k).id = x.id
          BY <1>6, <3>1, PendingMembers DEF Seen
        <4> HIDE DEF Gone
        <4> QED BY <3>1, <4>1
      <3>2. ASSUME NEW r \in gone
            PROVE  \E k \in Levels : \E x : Gone(k, x) /\ r.id = x.id
        <4>1. \A k, x : Seen(x, k).id = x.id
          BY DEF Seen
        <4> HIDE DEF Gone
        <4> QED BY <4>1
      <3> HIDE DEF gone, Gone
      <3> QED BY <3>1, <3>2
    <2> HIDE DEF gone, Gone
    <2> QED BY <2>1, <2>2
  <1>9. ASSUME NEW r \in gone, NEW s \in Pending, s.level = r.level, s.id < r.id
        PROVE  s \in gone
    <2>k. PICK k \in Levels : \E x : InLane(q, k, x) /\ Gone(k, x) /\ r = Seen(x, k)
      OBVIOUS
    <2>1. PICK x : InLane(q, k, x) /\ Gone(k, x) /\ r = Seen(x, k)
      BY <2>k
    <2>j. PICK j \in Levels : \E y : InLane(q, j, y) /\ s = Seen(y, j)
      BY PendingMembers
    <2>2. PICK y : InLane(q, j, y) /\ s = Seen(y, j)
      BY <2>j
    <2>3. j = k /\ y.id < x.id
      BY <1>9, <2>1, <2>2 DEF Seen
    <2>4. PICK m \in 1..e[k] : x = q.lanes[k][m]
      BY <2>1
    <2>5. PICK i \in DOMAIN q.lanes[k] : y = q.lanes[k][i]
      BY <2>2, <2>3 DEF InLane
    <2>6. m \in Nat /\ i \in Nat /\ i >= 1 /\ e[k] \in Nat /\ m \in DOMAIN q.lanes[k]
      BY SMTT(40), <1>1, <1>2, <1>5, EntryFacts
    <2>7. x.id \in Nat /\ y.id \in Nat
      BY <1>1, <2>1, <2>2, HeldFacts
    <2>8. i < m
      <3>1. m < i => x.id < y.id
        BY <1>1, <2>4, <2>5, <2>6 DEF Sound, InOrder
      <3> QED BY <2>3, <2>4, <2>5, <2>6, <2>7, <3>1
    <2>9. Gone(k, y)
      BY <2>4, <2>5, <2>6, <2>8
    <2> HIDE DEF Gone
    <2> QED BY <2>2, <2>3, <2>9
  <1>10. gone \in SUBSET Pending
    OBVIOUS
  <1> HIDE DEF gone
  <1>11. Abstract!Hand("check_expired", gone)
    BY <1>3, <1>7, <1>8 DEF Abstract!Hand
  <1> QED BY <1>9, <1>10, <1>11 DEF Abstract!Lapse

\* complete() answers one pending request.
LEMMA CompleteAnswers ==
    ASSUME QueueInv, NEW id, CompleteRequest(id)
    PROVE  Abstract!Answer
  <1>1. raised \in Nat /\ Sound(q, Agents, raised)
    BY QueueInvIsSound, MaxRequestsAssumption
  <1>2. PICK l \in Levels : \E p \in DOMAIN q.lanes[l] :
            q.lanes[l][p].id = id /\ Complete(q, id) = RemoveEntry(q, l, p)
    BY <1>1, CompleteFacts DEF CompleteRequest
  <1>3. PICK p \in DOMAIN q.lanes[l] :
            q.lanes[l][p].id = id /\ Complete(q, id) = RemoveEntry(q, l, p)
    BY <1>2
  <1>4. q' = RemoveEntry(q, l, p) /\ raised' = raised
    BY <1>3 DEF CompleteRequest
  <1>5. ret' = [op |-> "complete", ids |-> {q.lanes[l][p].id}]
    BY <1>3 DEF CompleteRequest, Returns
  <1>6. /\ Seen(q.lanes[l][p], l) \in Pending
        /\ Abstract!Hand("complete", {Seen(q.lanes[l][p], l)})
    BY <1>4, <1>5, RemoveIsHand
  <1> QED BY <1>6 DEF Abstract!Answer

\* push() raises one request.
LEMMA PushRaises ==
    ASSUME QueueInv, NEW a \in Agents, NEW l \in Levels, PushRequest(a, l)
    PROVE  Abstract!Raise
  <1> DEFINE x0 == [id |-> raised + 1, agent |-> a]
  <1>1. raised \in Nat /\ Sound(q, Agents, raised)
    BY QueueInvIsSound, MaxRequestsAssumption
  <1>2. q' = Push(q, x0, l) /\ raised' = raised + 1 /\ ret' = [op |-> "push", ids |-> {}]
    BY DEF PushRequest, Returns
  <1>3. \A k \in Levels : \A x : InLane(q', k, x) <=> InLane(q, k, x) \/ (k = l /\ x = x0)
    BY <1>1, <1>2, PushSound
  <1>4. Seen(x0, l) = [id |-> raised + 1, agent |-> a, level |-> l]
    BY DEF Seen
  <1> HIDE DEF x0
  <1>5. ASSUME NEW r
        PROVE  r \in Pending' <=> r \in Pending \cup {Seen(x0, l)}
    <2>1. r \in Pending' <=> \E k \in Levels : \E x : InLane(q', k, x) /\ r = Seen(x, k)
      BY PendingMembersNext
    <2>2. r \in Pending <=> \E k \in Levels : \E x : InLane(q, k, x) /\ r = Seen(x, k)
      BY PendingMembers
    <2> QED BY <1>3, <2>1, <2>2
  <1> QED BY <1>2, <1>4, <1>5 DEF Abstract!Raise

\* An empty queue has no pending requests.
LEMMA NothingPending ==
    /\ q = EmptyQueue => Pending = {}
    /\ q' = EmptyQueue => Pending' = {}
  <1>1. \A l \in Levels : DOMAIN EmptyQueue.lanes[l] = {}
    BY DEF EmptyQueue
  <1>2. ASSUME q = EmptyQueue
        PROVE  Pending = {}
    BY <1>1, <1>2 DEF Pending
  <1>3. ASSUME q' = EmptyQueue
        PROVE  Pending' = {}
    BY <1>1, <1>3 DEF Pending
  <1> QED BY <1>2, <1>3

\* Every operation of the queue is an operation of the abstract specification.
LEMMA QueueStepImplements ==
    ASSUME QueueInv, [Next]_vars
    PROVE  [Abstract!Next]_(Abstract!vars)
  <1>1. CASE ClearQueue
    <2>1. Pending' = {} /\ raised' = raised /\ ret' = [op |-> "clear", ids |-> {}]
      BY <1>1, NothingPending DEF ClearQueue, Returns
    <2> QED BY <2>1 DEF Abstract!Clear, Abstract!Next
  <1>2. CASE UNCHANGED vars
    <2>1. Pending' = Pending /\ raised' = raised /\ ret' = ret
      BY <1>2 DEF vars, Pending
    <2> QED BY <2>1 DEF Abstract!vars
  <1>3. ASSUME NEW a \in Agents, NEW l \in Levels, PushRequest(a, l)
        PROVE  Abstract!Next
    BY <1>3, PushRaises DEF Abstract!Next
  <1>4. CASE PopRequest
    BY <1>4, PopServes DEF Abstract!Next
  <1>5. ASSUME NEW a \in Agents, FindAndRemoveByAgentId(a)
        PROVE  Abstract!Next
    BY <1>5, RemoveServesAgent DEF Abstract!Next
  <1>6. ASSUME NEW id \in 1..MaxRequests, CompleteRequest(id)
        PROVE  Abstract!Next
    BY <1>6, CompleteAnswers DEF Abstract!Next
  <1>7. ASSUME NEW e \in Expiries(q), CheckExpired(e)
        PROVE  Abstract!Next
    BY <1>7, ExpiryLapses DEF Abstract!Next
  <1> QED BY <1>1, <1>2, <1>3, <1>4, <1>5, <1>6, <1>7 DEF Next

\* For every set of agents and every number of requests, the lanes and the
\* index implement the abstract set of pending requests: pop() serves the most
\* urgent and among those the oldest, an agent's removal its own next request,
\* complete() exactly the request that the id names, check_expired() never the
\* later of two requests of a lane first, and each hands out what it removed.
THEOREM QueueImplementsRequests == Spec => AbstractSpec
  <1>1. Init => Abstract!Init
    BY NothingPending DEF Init, Abstract!Init
  <1>2. QueueInv /\ [Next]_vars => [Abstract!Next]_(Abstract!vars)
    BY QueueStepImplements
  <1>3. QueueInv <=> (TypeOK /\ IndexExact /\ LanesInOrder /\ AnsweredOnce)
    BY DEF QueueInv
  <1>4. Spec => []QueueInv
    BY <1>3, QueueSafe, PTL
  <1> QED BY <1>1, <1>2, <1>4, PTL DEF Spec, AbstractSpec, Abstract!Spec
=============================================================================
