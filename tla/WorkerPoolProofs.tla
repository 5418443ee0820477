-------------------------- MODULE WorkerPoolProofs --------------------------
(***************************************************************************)
(* For every capacity, set of providers, set of blocking reasons, policy   *)
(* and number of tasks: the pool keeps its shape, decision agents belong   *)
(* to slots, tasks that were never given against the backlog are held by   *)
(* one agent at a time, and an agent that is blocked on a human keeps a    *)
(* request.                                                                *)
(***************************************************************************)
EXTENDS WorkerPool, HumanQueueLemmas

QueueOK == Sound(queue, Agents, raised)
ExecOK == /\ exec \in [pos : 0..MaxSlots, left : 0..MaxActions]
          /\ exec.left > 0 => exec.pos \in DOMAIN slots
MailOK == mail \in [DOMAIN mail -> 0..MaxMail] /\ DOMAIN mail \subseteq Agents

\* The inductive invariant: the properties, and a sound human queue.
PoolInv == TypeOK /\ PoolShape /\ DecisionAgentsInPool /\ TaskExclusive /\ QueueOK

\* What most operations make of a slot: the same agent in another condition.
SameAgent(s, t) == t \in Slots /\ t.id = s.id /\ t.provider = s.provider
SameAgents ==
    /\ slots' \in Seq(Slots) /\ Len(slots') = Len(slots)
    /\ \A p \in DOMAIN slots : SameAgent(slots[p], slots'[p])
TasksKept ==
    /\ backlog' = backlog /\ bypassed' = bypassed
    /\ \A p \in DOMAIN slots : slots'[p].task \in {slots[p].task, NoTask}

LEMMA SlotFacts ==
    ASSUME NEW ss \in Seq(Slots)
    PROVE  /\ DOMAIN ss = 1..Len(ss) /\ Len(ss) \in Nat
           /\ \A p \in DOMAIN ss : ss[p] \in Slots
           /\ \A s \in Slots :
                /\ s.id \in Agents /\ s.provider \in Providers
                /\ s.status \in Statuses /\ s.task \in Tasks \cup {NoTask}
                /\ s = [id |-> s.id, provider |-> s.provider,
                        status |-> s.status, task |-> s.task]
  <1>1. DOMAIN ss = 1..Len(ss) /\ Len(ss) \in Nat /\ \A p \in DOMAIN ss : ss[p] \in Slots
    OBVIOUS
  <1> QED BY <1>1 DEF Slots

\* A slot-wise change of the pool keeps its agents.
LEMMA Mapped ==
    ASSUME slots \in Seq(Slots), slots' = [p \in DOMAIN slots |-> slots'[p]],
           \A p \in DOMAIN slots : SameAgent(slots[p], slots'[p])
    PROVE  SameAgents
  <1>1. DOMAIN slots = 1..Len(slots) /\ Len(slots) \in Nat
    OBVIOUS
  <1>2. slots' \in [1..Len(slots) -> Slots]
    BY <1>1 DEF SameAgent
  <1>3. slots' \in Seq(Slots) /\ Len(slots') = Len(slots)
    BY <1>1, <1>2
  <1> QED BY <1>3 DEF SameAgents

\* A change of one slot keeps the agents and the other slots.
LEMMA Replaced ==
    ASSUME slots \in Seq(Slots), NEW p \in DOMAIN slots, NEW s,
           SameAgent(slots[p], s), slots' = [slots EXCEPT ![p] = s]
    PROVE  /\ SameAgents
           /\ slots'[p] = s
           /\ \A k \in DOMAIN slots : k # p => slots'[k] = slots[k]
  <1>1. \A k \in DOMAIN slots : slots[k] \in Slots
    BY SlotFacts
  <1>2. slots = [k \in DOMAIN slots |-> slots[k]]
    OBVIOUS
  <1>3. /\ slots' = [k \in DOMAIN slots |-> slots'[k]]
        /\ slots'[p] = s
        /\ \A k \in DOMAIN slots : k # p => slots'[k] = slots[k]
    BY <1>2
  <1>4. \A k \in DOMAIN slots : SameAgent(slots[k], slots'[k])
    BY <1>1, <1>3 DEF SameAgent
  <1> QED BY <1>3, <1>4, Mapped

\* Refused or not, a move changes the status only; clearing, the task only.
LEMMA MoveFacts ==
    ASSUME NEW s \in Slots, NEW t \in Statuses
    PROVE  /\ SameAgent(s, Move(s, t))
           /\ Move(s, t).task = s.task
           /\ Move(s, t).status = IF CanTransition(s.status, t) THEN t ELSE s.status
  BY DEF Move, SameAgent, Slots

LEMMA ClearTaskFacts ==
    ASSUME NEW s \in Slots
    PROVE  /\ SameAgent(s, ClearTask(s))
           /\ ClearTask(s).task = NoTask
           /\ ClearTask(s).status = s.status
  BY DEF ClearTask, SameAgent, Slots

LEMMA StatusFacts ==
    /\ Idle \in Statuses /\ Responding \in Statuses
    /\ \A r \in Tags : StoppedBy(r) \in Statuses
    /\ \A k \in SlotKinds, r \in Tags : Tagged(k, r) \in Statuses
    /\ \A k \in SlotKinds : Plain(k) \in Statuses
  BY DEF Idle, Responding, StoppedBy, Tagged, Plain, Statuses, Tags, SlotKinds

LEMMA KeptShape ==
    ASSUME PoolInv, SameAgents, nextIndex' = nextIndex,
           focus' = focus \/ focus' \in DOMAIN slots,
           ExecOK'
    PROVE  PoolShape'
  <1>1. /\ slots \in Seq(Slots) /\ slots' \in Seq(Slots)
        /\ DOMAIN slots = DOMAIN slots' /\ Len(slots') = Len(slots)
        /\ \A p \in DOMAIN slots : slots'[p].id = slots[p].id
    BY SlotFacts DEF PoolInv, TypeOK, SameAgents, SameAgent
  <1>2. slots = <<>> <=> slots' = <<>>
    BY <1>1, EmptySeq
  <1>3. focus' \in DOMAIN slots => focus' <= Len(slots') /\ slots' # <<>>
    BY <1>1
  <1>4. IF slots' = <<>> THEN focus' = 1 ELSE focus' <= Len(slots')
    BY <1>1, <1>2, <1>3 DEF PoolInv, PoolShape
  <1> QED BY <1>1, <1>4 DEF PoolInv, PoolShape, ExecOK

LEMMA KeptDecision ==
    ASSUME PoolInv, SameAgents, DOMAIN mail' \subseteq DOMAIN mail
    PROVE  DecisionAgentsInPool'
  <1>1. DOMAIN slots' = DOMAIN slots
    BY SlotFacts DEF PoolInv, TypeOK, SameAgents
  <1> QED BY <1>1 DEF PoolInv, DecisionAgentsInPool, SameAgents, SameAgent

LEMMA KeptTasks ==
    ASSUME PoolInv, SameAgents, TasksKept
    PROVE  TaskExclusive'
  <1>1. DOMAIN slots' = DOMAIN slots
    BY SlotFacts DEF PoolInv, TypeOK, SameAgents
  <1> QED BY <1>1 DEF PoolInv, TaskExclusive, TasksKept

\* The steps that move statuses and drop tasks, requests and mail.
LEMMA QuietStep ==
    ASSUME PoolInv, SameAgents, TasksKept, MailOK', DOMAIN mail' \subseteq DOMAIN mail,
           UNCHANGED <<nextIndex, focus>>, ExecOK',
           QueueOK', raised' \in 0..MaxRequests
    PROVE  PoolInv'
  <1>1. PoolShape' /\ DecisionAgentsInPool' /\ TaskExclusive'
    BY KeptShape, KeptDecision, KeptTasks
  <1>2. TypeOK'
    BY DEF PoolInv, TypeOK, SameAgents, TasksKept, MailOK, ExecOK, QueueOK, Sound
  <1> QED BY <1>1, <1>2 DEF PoolInv
-----------------------------------------------------------------------------
(* Slots come and go *)

LEMMA StartDecisionFacts ==
    ASSUME MailOK, NEW s \in Slots, mail' = StartDecision(mail, s)
    PROVE  /\ MailOK'
           /\ \A a \in DOMAIN mail' :
                 a \in DOMAIN mail \/ (a = s.id /\ s.provider # "mock")
  <1>1. s.id \in Agents /\ 0 \in 0..MaxMail
    BY PoolAssumption DEF Slots
  <1>2. CASE s.provider = "mock"
    BY <1>2 DEF StartDecision, MailOK
  <1>3. CASE s.provider # "mock"
    BY <1>1, <1>3 DEF StartDecision, MailOK
  <1> QED BY <1>2, <1>3

LEMMA StopDecisionFacts ==
    ASSUME MailOK, NEW a, mail' = StopDecision(mail, a)
    PROVE  MailOK' /\ DOMAIN mail' = DOMAIN mail \ {a}
  BY DEF StopDecision, MailOK

\* A slot that may join the pool: there is room, and its id is free.
MayJoin(s) ==
    /\ s \in Slots /\ Len(slots) < MaxSlots
    /\ \A p \in DOMAIN slots : slots[p].id # s.id

\* slots' holds the old slots and s, which stands at position j.
Joined(s, j) ==
    /\ slots' \in Seq(Slots) /\ Len(slots') = Len(slots) + 1
    /\ j \in DOMAIN slots' /\ slots'[j] = s
    /\ \A k \in DOMAIN slots' : k = j \/ (k - 1 \in DOMAIN slots /\ k > j /\ slots'[k] = slots[k - 1])
                                     \/ (k \in DOMAIN slots /\ k < j /\ slots'[k] = slots[k])
    /\ \A k \in DOMAIN slots : \E m \in DOMAIN slots' : slots'[m] = slots[k]

LEMMA AppendJoined ==
    ASSUME slots \in Seq(Slots), NEW s \in Slots, slots' = Append(slots, s)
    PROVE  Joined(s, Len(slots) + 1)
  <1>1. /\ slots' \in Seq(Slots) /\ Len(slots') = Len(slots) + 1
        /\ slots'[Len(slots) + 1] = s
        /\ \A k \in 1..Len(slots) : slots'[k] = slots[k]
    BY AppendProperties
  <1>2. DOMAIN slots' = 1..(Len(slots) + 1) /\ DOMAIN slots = 1..Len(slots) /\ Len(slots) \in Nat
    BY <1>1
  <1> QED BY <1>1, <1>2 DEF Joined

LEMMA FrontJoined ==
    ASSUME slots \in Seq(Slots), NEW s \in Slots, slots' = InFront(s, slots)
    PROVE  Joined(s, 1)
  <1>1. /\ slots' \in Seq(Slots) /\ Len(slots') = Len(slots) + 1
        /\ slots'[1] = s
        /\ \A k \in 1..Len(slots) : slots'[k + 1] = slots[k]
        /\ \A k \in 2..(Len(slots) + 1) : slots'[k] = slots[k - 1]
    <2>1. Len(slots) + 1 \in Nat /\ DOMAIN slots = 1..Len(slots)
      OBVIOUS
    <2>2. slots' \in [1..(Len(slots) + 1) -> Slots]
      BY <2>1 DEF InFront
    <2>3. slots' \in Seq(Slots) /\ Len(slots') = Len(slots) + 1
      BY <2>1, <2>2
    <2> QED BY <2>1, <2>3 DEF InFront
  <1>2. DOMAIN slots' = 1..(Len(slots) + 1) /\ DOMAIN slots = 1..Len(slots) /\ Len(slots) \in Nat
    BY <1>1
  <1>3. \A k \in DOMAIN slots : \E m \in DOMAIN slots' : slots'[m] = slots[k]
    <2> TAKE k \in DOMAIN slots
    <2>1. k + 1 \in DOMAIN slots' /\ slots'[k + 1] = slots[k]
      BY <1>1, <1>2
    <2> QED BY <2>1
  <1>4. 1 \in DOMAIN slots'
    BY <1>2
  <1>5. \A k \in DOMAIN slots' : k = 1 \/ (k - 1 \in DOMAIN slots /\ k > 1 /\ slots'[k] = slots[k - 1])
    BY <1>1, <1>2
  <1> QED BY <1>1, <1>3, <1>4, <1>5 DEF Joined

\* What giving a task without the backlog exempts.
LEMMA BypassFacts ==
    ASSUME NEW t \in Tasks \cup {NoTask}, bypassed \subseteq Tasks, bypassed' = Bypass(t)
    PROVE  /\ bypassed \subseteq bypassed' /\ bypassed' \subseteq Tasks
           /\ t \notin bypassed' \cup {NoTask} => backlog[t] = "Running" /\ ~Held(t)
  BY DEF Bypass

\* A slot joins at the end, or in front as OVERVIEW.
LEMMA JoinStep ==
    ASSUME PoolInv, exec.left = 0, NEW s, MayJoin(s), NEW j, Joined(s, j),
           j = IF s.id = Overview THEN 1 ELSE Len(slots) + 1,
           nextIndex' = IF s.id < nextIndex THEN nextIndex ELSE s.id + 1,
           focus' = 1 \/ (slots # <<>> /\ focus' = focus),
           mail' = StartDecision(mail, s), bypassed' = Bypass(s.task),
           UNCHANGED <<backlog, humanVars, exec>>
    PROVE  PoolInv'
  <1>1. /\ slots \in Seq(Slots) /\ slots' \in Seq(Slots) /\ s \in Slots
        /\ DOMAIN slots = 1..Len(slots) /\ DOMAIN slots' = 1..(Len(slots) + 1)
        /\ Len(slots) \in Nat /\ Len(slots') = Len(slots) + 1
        /\ s.id \in 0..MaxIndex /\ nextIndex \in 1..(MaxIndex + 1) /\ MaxIndex \in Nat
        /\ MaxSlots \in Nat /\ Len(slots) < MaxSlots
    BY SlotFacts, PoolAssumption DEF PoolInv, TypeOK, Joined, MayJoin, Agents
  <1>2. nextIndex' \in 1..(MaxIndex + 1) /\ nextIndex' >= nextIndex /\ s.id < nextIndex'
    BY <1>1
  <1>0. /\ bypassed \subseteq bypassed' /\ bypassed' \subseteq Tasks
        /\ s.task \notin bypassed' \cup {NoTask} => backlog[s.task] = "Running" /\ ~Held(s.task)
    <2>1. s.task \in Tasks \cup {NoTask} /\ bypassed \subseteq Tasks
      BY <1>1, SlotFacts DEF PoolInv, TypeOK
    <2> QED BY <2>1, BypassFacts
  <1>3. /\ MailOK'
        /\ \A a \in DOMAIN mail' : a \in DOMAIN mail \/ (a = s.id /\ s.provider # "mock")
    BY <1>1, StartDecisionFacts DEF PoolInv, TypeOK, MailOK
  <1>4. focus' \in 1..MaxSlots /\ focus' <= Len(slots') /\ slots' # <<>>
    <2>1. slots # <<>> => focus \in 1..Len(slots)
      BY <1>1 DEF PoolInv, TypeOK, PoolShape
    <2> QED BY <1>1, <2>1
  <1>5. TypeOK'
    BY <1>0, <1>1, <1>2, <1>3, <1>4 DEF PoolInv, TypeOK, MailOK, humanVars
  <1>6. ASSUME NEW k \in DOMAIN slots', NEW m \in DOMAIN slots', k # m
        PROVE  /\ slots'[k].id # slots'[m].id
               /\ slots'[k].task \notin bypassed' \cup {NoTask} => slots'[k].task # slots'[m].task
    <2>1. /\ \A p, q \in DOMAIN slots : p # q =>
                /\ slots[p].id # slots[q].id
                /\ slots[p].task \notin bypassed' \cup {NoTask} => slots[p].task # slots[q].task
          /\ \A p \in DOMAIN slots :
                /\ slots[p].id # s.id
                /\ s.task \notin bypassed' \cup {NoTask} => slots[p].task # s.task
      BY <1>0 DEF PoolInv, PoolShape, TaskExclusive, MayJoin, Held
    <2>2. /\ \/ k = j /\ slots'[k] = s
             \/ (k - 1 \in DOMAIN slots /\ k > j /\ slots'[k] = slots[k - 1])
             \/ (k \in DOMAIN slots /\ k < j /\ slots'[k] = slots[k])
          /\ \/ m = j /\ slots'[m] = s
             \/ (m - 1 \in DOMAIN slots /\ m > j /\ slots'[m] = slots[m - 1])
             \/ (m \in DOMAIN slots /\ m < j /\ slots'[m] = slots[m])
      BY DEF Joined
    <2>3. k \in Nat /\ m \in Nat /\ j \in Nat
      BY <1>1 DEF Joined
    <2> QED BY <1>6, <2>1, <2>2, <2>3
  <1>7. ASSUME NEW k \in DOMAIN slots'
        PROVE  /\ slots'[k].id < nextIndex' /\ (slots'[k].id = Overview => k = 1)
               /\ slots'[k].task \notin bypassed' \cup {NoTask}
                  => backlog'[slots'[k].task] \in {"Running", "Blocked"}
    <2>1. \A p \in DOMAIN slots :
            /\ slots[p].id < nextIndex /\ slots[p].id \in Nat
            /\ slots[p].id = Overview => p = 1
            /\ slots[p].task \notin bypassed' \cup {NoTask}
               => backlog[slots[p].task] \in {"Running", "Blocked"}
      BY <1>0, <1>1, SlotFacts DEF PoolInv, PoolShape, TaskExclusive, Agents
    <2>2. CASE k = j
      BY <1>0, <1>1, <1>2, <2>2 DEF Joined, MayJoin
    <2>3. CASE k # j /\ s.id = Overview
      <3>1. k - 1 \in DOMAIN slots /\ slots'[k] = slots[k - 1]
        BY <1>1, <2>3 DEF Joined
      <3>2. slots[k - 1].id # Overview
        BY <3>1, <2>3 DEF MayJoin
      <3> QED BY <1>1, <1>2, <2>1, <3>1, <3>2
    <2>4. CASE k # j /\ s.id # Overview
      <3>1. k \in DOMAIN slots /\ slots'[k] = slots[k]
        BY <1>1, <2>4 DEF Joined
      <3> QED BY <1>1, <1>2, <2>1, <3>1
    <2> QED BY <2>2, <2>3, <2>4
  <1>8. PoolShape'
    BY <1>1, <1>4, <1>6, <1>7 DEF PoolShape
  <1>9. TaskExclusive'
    BY <1>6, <1>7 DEF TaskExclusive
  <1>10. DecisionAgentsInPool'
    <2> SUFFICES ASSUME NEW a \in DOMAIN mail'
                 PROVE  \E p \in DOMAIN slots' : slots'[p].id = a /\ slots'[p].provider # "mock"
      BY DEF DecisionAgentsInPool
    <2>1. CASE a = s.id /\ s.provider # "mock"
      BY <2>1 DEF Joined
    <2>2. CASE a \in DOMAIN mail
      <3>1. PICK k \in DOMAIN slots : slots[k].id = a /\ slots[k].provider # "mock"
        BY <2>2 DEF PoolInv, DecisionAgentsInPool
      <3> QED BY <3>1 DEF Joined
    <2> QED BY <1>3, <2>1, <2>2
  <1>11. QueueOK'
    BY DEF PoolInv, QueueOK, humanVars
  <1> QED BY <1>5, <1>8, <1>9, <1>10, <1>11 DEF PoolInv

\* The slots after p move up by one, and the focus with them.
LEMMA RemoveStep ==
    ASSUME PoolInv, exec.left = 0, NEW p \in DOMAIN slots, RemoveAgent(p)
    PROVE  PoolInv'
  <1> DEFINE n == Len(slots) - 1
             From(k) == IF k < p THEN k ELSE k + 1
  <1>1. /\ slots \in Seq(Slots) /\ DOMAIN slots = 1..Len(slots) /\ Len(slots) \in Nat
        /\ p \in 1..Len(slots) /\ n \in Nat /\ slots # <<>>
        /\ Len(slots) <= MaxSlots /\ MaxSlots \in Nat /\ exec \in [pos : 0..MaxSlots, left : 0..MaxActions]
    BY SlotFacts, PoolAssumption DEF PoolInv, TypeOK, PoolShape
  <1>2. slots' \in [1..n -> Slots]
    BY <1>1 DEF RemoveAgent, WithoutPos
  <1>3. /\ slots' \in Seq(Slots) /\ Len(slots') = n /\ DOMAIN slots' = 1..n
        /\ \A k \in 1..n : From(k) \in DOMAIN slots /\ slots'[k] = slots[From(k)]
    BY <1>1, <1>2 DEF RemoveAgent, WithoutPos
  <1>4. \A k, m \in 1..n : k # m => From(k) # From(m)
    BY <1>1
  <1>5. focus \in 1..Len(slots)
    BY <1>1 DEF PoolInv, TypeOK, PoolShape
  <1>6. /\ focus' \in 1..MaxSlots
        /\ IF slots' = <<>> THEN focus' = 1 ELSE focus' <= Len(slots')
    <2>1. focus' = AdjustOnRemove(p, n)
      BY DEF RemoveAgent
    <2>2. slots' = <<>> <=> n = 0
      BY <1>3, EmptySeq
    <2>3. CASE n = 0
      <3>0. Len(slots) = 1
        <4>1. Len(slots) \in Nat
          BY <1>1
        <4> QED BY <2>3, <4>1
      <3>1. focus = 1 /\ p = 1 /\ ~(focus > p) /\ ~(n > 0)
        BY <1>1, <1>5, <2>3, <3>0
      <3>2. focus' = 1
        BY <2>1, <2>3, <3>1 DEF AdjustOnRemove
      <3> QED BY <1>1, <2>2, <2>3, <3>2
    <2>4. CASE n > 0 /\ focus > p
      BY <1>1, <1>3, <1>5, <2>1, <2>2, <2>4 DEF AdjustOnRemove
    <2>5. CASE n > 0 /\ focus = p
      BY <1>1, <1>3, <1>5, <2>1, <2>2, <2>5 DEF AdjustOnRemove
    <2>6. CASE n > 0 /\ focus < p
      <3>1. focus' = IF focus > n /\ n > 0 THEN n ELSE focus
        BY <1>1, <1>5, <2>1, <2>6 DEF AdjustOnRemove
      <3> QED BY <1>1, <1>3, <1>5, <2>2, <2>6, <3>1
    <2> QED BY <1>1, <1>5, <2>3, <2>4, <2>5, <2>6
  <1>7. MailOK' /\ DOMAIN mail' = DOMAIN mail \ {slots[p].id}
    BY StopDecisionFacts DEF PoolInv, TypeOK, MailOK, RemoveAgent
  <1>8. UNCHANGED <<nextIndex, backlog, bypassed, queue, raised, exec>>
    BY DEF RemoveAgent, humanVars
  <1>9. TypeOK'
    BY <1>3, <1>6, <1>7, <1>8 DEF PoolInv, TypeOK, MailOK
  <1>10. PoolShape'
    <2>1. \A k, m \in DOMAIN slots' : k # m => slots'[k].id # slots'[m].id
      <3>1. \A a, b \in DOMAIN slots : a # b => slots[a].id # slots[b].id
        BY DEF PoolInv, PoolShape
      <3> HIDE DEF From, n
      <3> QED BY <1>3, <1>4, <3>1
    <2>2. \A k \in DOMAIN slots' : slots'[k].id < nextIndex' /\ (slots'[k].id = Overview => k = 1)
      <3>1. \A a \in DOMAIN slots : slots[a].id < nextIndex /\ (slots[a].id = Overview => a = 1)
        BY DEF PoolInv, PoolShape
      <3>2. \A k \in 1..n : From(k) = 1 => k = 1
        BY <1>1
      <3> HIDE DEF From, n
      <3> QED BY <1>3, <1>8, <3>1, <3>2
    <2> QED BY <1>1, <1>3, <1>6, <1>8, <2>1, <2>2 DEF PoolShape
  <1>11. TaskExclusive'
    <2>1. /\ \A a, b \in DOMAIN slots :
                a # b /\ slots[a].task \notin bypassed \cup {NoTask} => slots[a].task # slots[b].task
          /\ \A a \in DOMAIN slots :
                slots[a].task \notin bypassed \cup {NoTask} => backlog[slots[a].task] \in {"Running", "Blocked"}
      BY DEF PoolInv, TaskExclusive
    <2> HIDE DEF From, n
    <2>2. \A k, m \in DOMAIN slots' :
              k # m /\ slots'[k].task \notin bypassed' \cup {NoTask} => slots'[k].task # slots'[m].task
      BY <1>3, <1>4, <1>8, <2>1
    <2>3. \A k \in DOMAIN slots' :
              slots'[k].task \notin bypassed' \cup {NoTask} => backlog'[slots'[k].task] \in {"Running", "Blocked"}
      BY <1>3, <1>8, <2>1
    <2> QED BY <2>2, <2>3 DEF TaskExclusive
  <1>12. DecisionAgentsInPool'
    <2> SUFFICES ASSUME NEW a \in DOMAIN mail'
                 PROVE  \E k \in DOMAIN slots' : slots'[k].id = a /\ slots'[k].provider # "mock"
      BY DEF DecisionAgentsInPool
    <2>1. PICK m \in DOMAIN slots : slots[m].id = a /\ slots[m].provider # "mock"
      BY <1>7 DEF PoolInv, DecisionAgentsInPool
    <2>2. m # p
      BY <1>7, <2>1
    <2>3. CASE m < p
      <3>1. m \in 1..n /\ From(m) = m
        BY <1>1, <2>3
      <3> QED BY <1>3, <2>1, <3>1
    <2>4. CASE m > p
      <3>1. m - 1 \in 1..n /\ From(m - 1) = m
        BY <1>1, <2>4
      <3> QED BY <1>3, <2>1, <3>1
    <2> QED BY <1>1, <2>2, <2>3, <2>4
  <1>13. QueueOK'
    BY <1>8 DEF PoolInv, QueueOK
  <1> QED BY <1>9, <1>10, <1>11, <1>12, <1>13 DEF PoolInv

\* The status of one slot changes, and nothing else.
LEMMA StatusStep ==
    ASSUME PoolInv, NEW p \in DOMAIN slots, NEW t \in Statuses,
           slots' = [slots EXCEPT ![p].status = t],
           UNCHANGED <<nextIndex, focus, backlog, bypassed, humanVars, exec>>,
           MailOK', DOMAIN mail' \subseteq DOMAIN mail
    PROVE  PoolInv' /\ SameAgents
  <1>1. slots \in Seq(Slots) /\ slots[p] \in Slots
    BY SlotFacts DEF PoolInv, TypeOK
  <1>2. SameAgent(slots[p], [slots[p] EXCEPT !.status = t])
    BY <1>1 DEF SameAgent, Slots
  <1>3. slots' = [slots EXCEPT ![p] = [slots[p] EXCEPT !.status = t]]
    OBVIOUS
  <1>4. /\ SameAgents
        /\ slots'[p] = [slots[p] EXCEPT !.status = t]
        /\ \A k \in DOMAIN slots : k # p => slots'[k] = slots[k]
    BY <1>1, <1>2, <1>3, Replaced
  <1>5. TasksKept
    BY <1>1, <1>4 DEF TasksKept, Slots
  <1>6. ExecOK'
    <2>1. DOMAIN slots' = DOMAIN slots
      OBVIOUS
    <2> QED BY <2>1 DEF ExecOK, PoolInv, TypeOK, PoolShape
  <1>7. QueueOK' /\ raised' \in 0..MaxRequests
    BY DEF PoolInv, TypeOK, QueueOK, humanVars
  <1> QED BY <1>4, <1>5, <1>6, <1>7, QuietStep

LEMMA LifecycleKeeps ==
    ASSUME PoolInv, exec.left = 0, LifecycleStep
    PROVE  PoolInv'
  <1>1. /\ slots \in Seq(Slots) /\ DOMAIN slots = 1..Len(slots) /\ Len(slots) \in Nat
        /\ slots = <<>> <=> Len(slots) = 0
        /\ nextIndex \in 1..(MaxIndex + 1) /\ MaxIndex \in Nat
        /\ MailOK /\ DOMAIN mail \subseteq Agents
    BY SlotFacts, EmptySeq, PoolAssumption DEF PoolInv, TypeOK, MailOK
  <1>2. \A id \in Agents, k \in Providers :
            /\ NewSlot(id, k) \in Slots
            /\ NewSlot(id, k).id = id /\ NewSlot(id, k).task = NoTask
            /\ Bypass(NewSlot(id, k).task) = bypassed
    BY StatusFacts DEF NewSlot, Slots, Bypass
  <1>3. ASSUME NEW k \in Providers, SpawnWorker(k)
        PROVE  PoolInv'
    <2>1. nextIndex \in Agents /\ nextIndex # Overview
      BY <1>1, <1>3 DEF SpawnWorker, Agents, Overview
    <2>2. MayJoin(NewSlot(nextIndex, k))
      BY <1>1, <1>2, <1>3, <2>1 DEF MayJoin, SpawnWorker, PoolInv, PoolShape
    <2>3. Joined(NewSlot(nextIndex, k), Len(slots) + 1)
      BY <1>1, <1>2, <1>3, <2>1, AppendJoined DEF SpawnWorker
    <2> QED BY <1>1, <1>2, <1>3, <2>1, <2>2, <2>3, JoinStep DEF SpawnWorker
  <1>4. ASSUME NEW k \in Providers, SpawnOverviewAgent(k)
        PROVE  PoolInv'
    <2>1. Overview \in Agents
      BY <1>1 DEF Agents, Overview
    <2>2. MayJoin(NewSlot(Overview, k))
      BY <1>2, <1>4, <2>1 DEF MayJoin, SpawnOverviewAgent
    <2>3. Joined(NewSlot(Overview, k), 1)
      BY <1>1, <1>2, <1>4, <2>1, FrontJoined DEF SpawnOverviewAgent
    <2>4. Overview < nextIndex
      BY <1>1 DEF Overview
    <2> QED BY <1>2, <1>4, <2>1, <2>2, <2>3, <2>4, JoinStep DEF SpawnOverviewAgent
  <1>5. CASE SpawnWorktreeFails
    <2>1. /\ UNCHANGED <<slots, mail, focus, backlog, bypassed, queue, raised, exec>>
          /\ nextIndex' = nextIndex + 1 /\ nextIndex' \in 1..(MaxIndex + 1)
      BY <1>1, <1>5 DEF SpawnWorktreeFails, humanVars
    <2>2. TypeOK'
      BY <2>1 DEF PoolInv, TypeOK
    <2>3. \A p \in DOMAIN slots : slots[p].id \in Nat
      BY <1>1, SlotFacts DEF Agents
    <2>4. PoolShape'
      BY <1>1, <2>1, <2>3 DEF PoolInv, PoolShape
    <2> QED BY <2>1, <2>2, <2>4 DEF PoolInv, DecisionAgentsInPool, TaskExclusive, QueueOK
  <1>6. ASSUME NEW id \in Agents, NEW k \in Providers, NEW st \in RestoreStatuses,
               NEW t \in Tasks \cup {NoTask}, RestoreSlot(id, k, st, t)
        PROVE  PoolInv'
    <2> DEFINE s == WithTask([NewSlot(id, k) EXCEPT !.status = st], t)
    <2>1. st \in Statuses
      BY StatusFacts DEF RestoreStatuses, Tags, SlotKinds
    <2>2. s \in Slots /\ s.id = id /\ s.task = t
      BY <2>1 DEF WithTask, NewSlot, Slots
    <2>3. /\ slots' = IF id = Overview THEN InFront(s, slots) ELSE Append(slots, s)
          /\ mail' = StartDecision(mail, s)
          /\ MayJoin(s) /\ bypassed' = Bypass(s.task)
          /\ UNCHANGED <<focus, backlog, humanVars, exec>>
          /\ nextIndex' = IF id < nextIndex THEN nextIndex ELSE id + 1
      BY <1>6, <2>2 DEF RestoreSlot, MayJoin
    <2> HIDE DEF s
    <2>4. focus' = 1 \/ (slots # <<>> /\ focus' = focus)
      BY <2>3 DEF PoolInv, PoolShape
    <2>5. CASE id = Overview
      <3>1. Joined(s, 1)
        BY <1>1, <2>2, <2>3, <2>5, FrontJoined
      <3> QED BY <2>2, <2>3, <2>4, <2>5, <3>1, JoinStep
    <2>6. CASE id # Overview
      <3>1. Joined(s, Len(slots) + 1)
        BY <1>1, <2>2, <2>3, <2>6, AppendJoined
      <3> QED BY <2>2, <2>3, <2>4, <2>6, <3>1, JoinStep
    <2> QED BY <2>5, <2>6
  <1>7. ASSUME NEW p \in DOMAIN slots, StopAgent(p)
        PROVE  PoolInv'
    <2>1. MailOK' /\ DOMAIN mail' \subseteq DOMAIN mail
      BY <1>1, <1>7, StopDecisionFacts DEF StopAgent
    <2>2. StoppedBy("user requested") \in Statuses
      BY StatusFacts DEF Tags
    <2> QED BY <1>7, <2>1, <2>2, StatusStep DEF StopAgent
  <1>8. ASSUME NEW p \in DOMAIN slots, NEW t \in Statuses,
               slots' = [slots EXCEPT ![p].status = t],
               UNCHANGED <<mail, nextIndex, focus, backlog, bypassed, humanVars, exec>>
        PROVE  PoolInv'
    <2>1. MailOK' /\ DOMAIN mail' \subseteq DOMAIN mail
      BY <1>1, <1>8 DEF MailOK
    <2> QED BY <1>8, <2>1, StatusStep
  <1>9. ASSUME NEW p \in DOMAIN slots, FocusByIndex(p)
        PROVE  PoolInv'
    <2>1. UNCHANGED <<slots, mail, nextIndex, backlog, bypassed, queue, raised, exec>> /\ focus' = p
      BY <1>9 DEF FocusByIndex, humanVars
    <2>2. p \in 1..Len(slots) /\ Len(slots) <= MaxSlots /\ MaxSlots \in Nat /\ slots # <<>>
      BY <1>1, PoolAssumption DEF PoolInv, PoolShape
    <2>3. TypeOK' /\ PoolShape'
      BY <2>1, <2>2 DEF PoolInv, TypeOK, PoolShape
    <2> QED BY <2>1, <2>3 DEF PoolInv, DecisionAgentsInPool, TaskExclusive, QueueOK
  <1>10. ASSUME NEW p \in DOMAIN slots, PauseAgent(p)
         PROVE  PoolInv'
    <2>1. Tagged("Paused", "worktree preserved") \in Statuses
      BY StatusFacts DEF Tags, SlotKinds
    <2> QED BY <1>8, <1>10, <2>1 DEF PauseAgent
  <1>11. ASSUME NEW p \in DOMAIN slots, StartProvider(p)
         PROVE  PoolInv'
    BY <1>8, <1>11, StatusFacts DEF StartProvider
  <1>12. ASSUME NEW p \in DOMAIN slots, NEW t \in LoopTargets, LoopStep(p, t)
         PROVE  PoolInv'
    <2>1. t \in Statuses
      BY StatusFacts DEF LoopTargets, Tags, SlotKinds
    <2> QED BY <1>8, <1>12, <2>1 DEF LoopStep
  <1>13. ASSUME NEW p \in DOMAIN slots, ResumeAgent(p)
         PROVE  PoolInv'
    <2> DEFINE s == [slots[p] EXCEPT !.status = Idle]
    <2>1. slots[p] \in Slots /\ Idle \in Statuses
      BY <1>1, StatusFacts, SlotFacts
    <2>2. SameAgent(slots[p], s) /\ s.task = slots[p].task
      BY <2>1 DEF SameAgent, Slots
    <2>3. slots' = [slots EXCEPT ![p] = s] /\ UNCHANGED <<nextIndex, focus, backlog, bypassed, queue, raised, exec>>
      BY <1>13 DEF ResumeAgent, humanVars
    <2>4. /\ SameAgents /\ slots'[p] = s
          /\ \A m \in DOMAIN slots : m # p => slots'[m] = slots[m]
      BY <1>1, <2>2, <2>3, Replaced
    <2> HIDE DEF s
    <2>5. DOMAIN slots' = DOMAIN slots
      BY <2>3
    <2>6. ExecOK'
      BY <2>3, <2>5 DEF ExecOK, PoolInv, TypeOK, PoolShape
    <2>7. TaskExclusive' /\ PoolShape'
      BY <2>2, <2>3, <2>4, <2>6, KeptTasks, KeptShape DEF TasksKept
    <2>8. /\ MailOK'
          /\ \A a \in DOMAIN mail' :
                a \in DOMAIN mail \/ (a = slots[p].id /\ slots[p].provider # "mock")
      <3>1. CASE slots[p].id \in DOMAIN mail
        BY <1>1, <1>13, <3>1 DEF ResumeAgent, MailOK
      <3>2. CASE slots[p].id \notin DOMAIN mail
        BY <1>1, <1>13, <2>1, <3>2, StartDecisionFacts DEF ResumeAgent
      <3> QED BY <3>1, <3>2
    <2>9. DecisionAgentsInPool'
      <3> SUFFICES ASSUME NEW a \in DOMAIN mail'
                   PROVE  \E m \in DOMAIN slots' : slots'[m].id = a /\ slots'[m].provider # "mock"
        BY DEF DecisionAgentsInPool
      <3>1. \E m \in DOMAIN slots : slots[m].id = a /\ slots[m].provider # "mock"
        BY <2>8 DEF PoolInv, DecisionAgentsInPool
      <3> QED BY <2>4, <2>5, <3>1 DEF SameAgents, SameAgent
    <2>10. TypeOK' /\ QueueOK'
      BY <2>3, <2>4, <2>8 DEF PoolInv, TypeOK, SameAgents, MailOK, QueueOK
    <2> QED BY <2>7, <2>9, <2>10 DEF PoolInv
  <1>14. ASSUME NEW p \in DOMAIN slots, RemoveAgent(p)
         PROVE  PoolInv'
    BY <1>14, RemoveStep
  <1> QED BY <1>3, <1>4, <1>5, <1>6, <1>7, <1>9, <1>10, <1>11, <1>12, <1>13, <1>14 DEF LifecycleStep
-----------------------------------------------------------------------------
(* Tasks *)

\* One slot takes a task, or gives its task up: who holds what else is kept.
LEMMA AssignKeeps ==
    ASSUME PoolInv, exec.left = 0, NEW p \in DOMAIN slots, NEW t \in Tasks,
           AssignTaskWithBacklog(p, t)
    PROVE  PoolInv'
  <1> DEFINE s == [slots[p] EXCEPT !.task = t]
  <1>1. slots \in Seq(Slots) /\ slots[p] \in Slots /\ backlog \in [Tasks -> TaskStatuses]
    BY SlotFacts DEF PoolInv, TypeOK
  <1>2. SameAgent(slots[p], s) /\ s.task = t
    BY <1>1 DEF SameAgent, Slots
  <1>3. /\ slots' = [slots EXCEPT ![p] = s]
        /\ UNCHANGED <<nextIndex, focus, bypassed, queue, raised, exec>>
        /\ backlog' = [backlog EXCEPT ![t] = "Running"] /\ backlog[t] = "Ready"
    BY DEF AssignTaskWithBacklog, humanVars
  <1>4. /\ SameAgents /\ slots'[p] = s
        /\ \A k \in DOMAIN slots : k # p => slots'[k] = slots[k]
    BY <1>1, <1>2, <1>3, Replaced
  <1> HIDE DEF s
  <1>5. DOMAIN slots' = DOMAIN slots
    BY <1>3
  <1>6. /\ MailOK' /\ DOMAIN mail' = DOMAIN mail
    <2>1. MailOK /\ MaxMail \in Nat
      BY PoolAssumption DEF PoolInv, TypeOK, MailOK
    <2>2. CASE slots[p].id \in DOMAIN mail
      <3>1. mail[slots[p].id] \in 0..MaxMail /\ mail[slots[p].id] < MaxMail
        BY <2>1, <2>2 DEF MailOK, AssignTaskWithBacklog
      <3>2. mail[slots[p].id] + 1 \in 0..MaxMail
        BY <2>1, <3>1
      <3>3. mail' = [mail EXCEPT ![slots[p].id] = mail[slots[p].id] + 1]
        BY <2>2 DEF AssignTaskWithBacklog
      <3> QED BY <2>1, <3>2, <3>3 DEF MailOK
    <2>3. CASE slots[p].id \notin DOMAIN mail
      BY <2>1, <2>3 DEF MailOK, AssignTaskWithBacklog
    <2> QED BY <2>2, <2>3
  <1>7. ExecOK'
    BY <1>3, <1>5 DEF ExecOK, PoolInv, TypeOK, PoolShape
  <1>8. PoolShape' /\ DecisionAgentsInPool'
    BY <1>3, <1>4, <1>6, <1>7, KeptShape, KeptDecision
  <1>9. backlog' \in [Tasks -> TaskStatuses]
    BY <1>1, <1>3 DEF TaskStatuses
  <1>10. t \notin bypassed => \A k \in DOMAIN slots : slots[k].task # t
    <2>1. t # NoTask
      BY PoolAssumption DEF Tasks, NoTask
    <2> QED BY <1>3, <2>1 DEF PoolInv, TaskExclusive
  <1>11. TaskExclusive'
    <2>1. \A k \in DOMAIN slots : slots[k].task \in Tasks \cup {NoTask}
      BY <1>1, SlotFacts
    <2> QED BY <1>1, <1>2, <1>3, <1>4, <1>5, <1>10, <2>1 DEF PoolInv, TaskExclusive
  <1>12. TypeOK' /\ QueueOK'
    BY <1>3, <1>4, <1>6, <1>7, <1>9 DEF PoolInv, TypeOK, SameAgents, MailOK, QueueOK
  <1> QED BY <1>8, <1>11, <1>12 DEF PoolInv

LEMMA CompleteKeeps ==
    ASSUME PoolInv, exec.left = 0, NEW p \in DOMAIN slots, NEW ok \in BOOLEAN,
           CompleteTask(p, ok)
    PROVE  PoolInv'
  <1> DEFINE t == slots[p].task
             done == IF ok THEN "Done" ELSE "Failed"
  <1>1. slots \in Seq(Slots) /\ slots[p] \in Slots /\ backlog \in [Tasks -> TaskStatuses]
    BY SlotFacts DEF PoolInv, TypeOK
  <1>2. SameAgent(slots[p], ClearTask(slots[p])) /\ ClearTask(slots[p]).task = NoTask
    BY <1>1, ClearTaskFacts
  <1>3. /\ slots' = [slots EXCEPT ![p] = ClearTask(slots[p])]
        /\ UNCHANGED <<mail, nextIndex, focus, bypassed, queue, raised, exec>>
        /\ t \in Tasks
        /\ backlog' = [backlog EXCEPT ![t] = IF backlog[t] = "Running" THEN done ELSE backlog[t]]
    BY <1>1, SlotFacts DEF CompleteTask, humanVars
  <1>4. /\ SameAgents /\ slots'[p].task = NoTask
        /\ \A k \in DOMAIN slots : k # p => slots'[k] = slots[k]
    BY <1>1, <1>2, <1>3, Replaced
  <1>5. DOMAIN slots' = DOMAIN slots
    BY <1>3
  <1>6. ExecOK'
    BY <1>3, <1>5 DEF ExecOK, PoolInv, TypeOK, PoolShape
  <1>7. PoolShape' /\ DecisionAgentsInPool'
    BY <1>3, <1>4, <1>6, KeptShape, KeptDecision
  <1>8. backlog' \in [Tasks -> TaskStatuses] /\ \A u \in Tasks : u # t => backlog'[u] = backlog[u]
    BY <1>1, <1>3 DEF TaskStatuses
  <1>9. TaskExclusive'
    <2>1. ASSUME NEW k \in DOMAIN slots, slots'[k].task \notin bypassed' \cup {NoTask}
          PROVE  /\ k # p /\ slots'[k] = slots[k] /\ slots[k].task \in Tasks /\ slots[k].task # t
                 /\ backlog'[slots'[k].task] \in {"Running", "Blocked"}
      <3>1. k # p /\ slots'[k] = slots[k]
        BY <1>4, <2>1
      <3>2. slots[k].task \in Tasks
        BY <1>1, <2>1, <3>1, SlotFacts
      <3>3. slots[k].task # t /\ backlog[slots[k].task] \in {"Running", "Blocked"}
        BY <1>3, <2>1, <3>1 DEF PoolInv, TaskExclusive
      <3> QED BY <1>8, <3>1, <3>2, <3>3
    <2>2. ASSUME NEW k \in DOMAIN slots, NEW m \in DOMAIN slots, k # m,
                 slots'[k].task \notin bypassed' \cup {NoTask}
          PROVE  slots'[k].task # slots'[m].task
      <3>1. k # p /\ slots'[k] = slots[k]
        BY <2>1, <2>2
      <3>2. CASE m = p
        BY <1>4, <2>2, <3>2
      <3>3. CASE m # p
        BY <1>3, <1>4, <2>2, <3>1, <3>3 DEF PoolInv, TaskExclusive
      <3> QED BY <3>2, <3>3
    <2> QED BY <1>5, <2>1, <2>2 DEF TaskExclusive
  <1>10. TypeOK' /\ QueueOK'
    BY <1>3, <1>4, <1>8 DEF PoolInv, TypeOK, SameAgents, QueueOK
  <1> QED BY <1>7, <1>9, <1>10 DEF PoolInv

\* A task given without the backlog is exempt, or nobody holds it.
LEMMA DirectKeeps ==
    ASSUME PoolInv, exec.left = 0, NEW p \in DOMAIN slots, NEW t \in Tasks, AssignTask(p, t)
    PROVE  PoolInv'
  <1> DEFINE s == [slots[p] EXCEPT !.task = t]
  <1>1. slots \in Seq(Slots) /\ slots[p] \in Slots
    BY SlotFacts DEF PoolInv, TypeOK
  <1>2. SameAgent(slots[p], s) /\ s.task = t
    BY <1>1 DEF SameAgent, Slots
  <1>3. /\ slots' = [slots EXCEPT ![p] = s] /\ bypassed' = Bypass(t)
        /\ UNCHANGED <<mail, nextIndex, focus, backlog, queue, raised, exec>>
    BY DEF AssignTask, humanVars
  <1>4. /\ SameAgents /\ slots'[p] = s
        /\ \A k \in DOMAIN slots : k # p => slots'[k] = slots[k]
    BY <1>1, <1>2, <1>3, Replaced
  <1> HIDE DEF s
  <1>5. DOMAIN slots' = DOMAIN slots
    BY <1>3
  <1>6. /\ bypassed \subseteq bypassed' /\ bypassed' \subseteq Tasks
        /\ t \notin bypassed' \cup {NoTask} => backlog[t] = "Running" /\ ~Held(t)
    BY <1>3, BypassFacts DEF PoolInv, TypeOK
  <1>7. ExecOK'
    BY <1>3, <1>5 DEF ExecOK, PoolInv, TypeOK, PoolShape
  <1>8. PoolShape' /\ DecisionAgentsInPool'
    BY <1>3, <1>4, <1>7, KeptShape, KeptDecision
  <1>9. TaskExclusive'
    <2>1. t \notin bypassed' \cup {NoTask} => \A k \in DOMAIN slots : slots[k].task # t
      BY <1>6 DEF Held
    <2> QED BY <1>2, <1>3, <1>4, <1>5, <1>6, <2>1 DEF PoolInv, TaskExclusive
  <1>10. TypeOK' /\ QueueOK'
    BY <1>3, <1>4, <1>6 DEF PoolInv, TypeOK, SameAgents, QueueOK
  <1> QED BY <1>8, <1>9, <1>10 DEF PoolInv

LEMMA TasksKeep ==
    ASSUME PoolInv, exec.left = 0, TaskStep
    PROVE  PoolInv'
  BY AssignKeeps, DirectKeeps, CompleteKeeps DEF TaskStep, AutoAssignTask
-----------------------------------------------------------------------------
(* The human queue and the decisions *)

LEMMA CompleteSound ==
    ASSUME QueueOK, raised \in 0..MaxRequests, NEW id, Indexed(queue, id)
    PROVE  Sound(Complete(queue, id), Agents, raised)
  <1>1. raised \in Nat /\ Sound(queue, Agents, raised)
    BY PoolAssumption DEF QueueOK
  <1>2. PICK l \in Levels : \E p \in DOMAIN queue.lanes[l] :
                /\ queue.lanes[l][p].id = id
                /\ Complete(queue, id) = RemoveEntry(queue, l, p)
    BY <1>1, CompleteFacts
  <1>3. PICK p \in DOMAIN queue.lanes[l] : Complete(queue, id) = RemoveEntry(queue, l, p)
    BY <1>2
  <1>4. Sound(RemoveEntry(queue, l, p), Agents, raised)
    BY <1>1, RemoveEntrySound
  <1> QED BY <1>3, <1>4

LEMMA ExpirySound ==
    ASSUME QueueOK, raised \in 0..MaxRequests, NEW e \in Expiries(queue)
    PROVE  Sound(DropExpired(queue, e), Agents, raised)
  <1>1. raised \in Nat /\ Sound(queue, Agents, raised)
    BY PoolAssumption DEF QueueOK
  <1>2. /\ e \in [Levels -> 0..TotalPending(queue)]
        /\ \A l \in Levels : e[l] <= Len(queue.lanes[l])
    BY DEF Expiries
  <1>3. 0..TotalPending(queue) \subseteq Nat
    OBVIOUS
  <1>4. e \in [Levels -> Nat]
    BY <1>2, <1>3
  <1> QED BY <1>1, <1>2, <1>4, DropExpiredSound

\* Statuses, tasks and the queue may change; nothing else does.
LEMMA SettleStep ==
    ASSUME PoolInv, SameAgents, TasksKept, QueueOK', ExecOK',
           UNCHANGED <<mail, nextIndex, focus, raised>>
    PROVE  PoolInv'
  <1>1. MailOK' /\ DOMAIN mail' \subseteq DOMAIN mail /\ raised' \in 0..MaxRequests
    BY DEF PoolInv, TypeOK, MailOK
  <1> QED BY <1>1, QuietStep

\* The first idle agent is an agent, and it is idle.
LEMMA FirstMember ==
    ASSUME NEW T, T \subseteq Nat, T # {}
    PROVE  (CHOOSE k \in T : \A j \in T : k <= j) \in T
  <1>1. T \in SUBSET Nat
    OBVIOUS
  <1>2. \E k \in T : \A j \in T : k <= j
    BY <1>1, LeastMember
  <1> QED BY <1>2

\* The task of a blocked agent moves whole: afterwards the old holder has none.
LEMMA HandOver ==
    ASSUME PoolInv, NEW p \in DOMAIN slots, NEW ss \in Seq(Slots), Len(ss) = Len(slots),
           \A k \in DOMAIN slots : SameAgent(slots[k], ss[k]) /\ ss[k].task = slots[k].task,
           ~IsIdle(ss[p].status),
           slots' = HandleBlockedTask(ss, p)
    PROVE  /\ SameAgents
           /\ \A k, m \in DOMAIN slots' :
                k # m /\ slots'[k].task \notin bypassed \cup {NoTask} => slots'[k].task # slots'[m].task
           /\ \A k \in DOMAIN slots' : slots'[k].task # NoTask =>
                \E m \in DOMAIN slots : slots'[k].task = slots[m].task
           /\ \A k \in DOMAIN slots : slots'[k].status = ss[k].status
  <1>1. /\ slots \in Seq(Slots) /\ DOMAIN slots = 1..Len(slots) /\ DOMAIN ss = DOMAIN slots
        /\ Len(slots) \in Nat /\ \A k \in DOMAIN slots : ss[k] \in Slots
    BY SlotFacts DEF PoolInv, TypeOK
  <1>2. \A k, m \in DOMAIN slots :
            k # m /\ ss[k].task \notin bypassed \cup {NoTask} => ss[k].task # ss[m].task
    BY DEF PoolInv, TaskExclusive
  <1> DEFINE idle == {k \in DOMAIN ss : IsIdle(ss[k].status)}
             first == CHOOSE k \in idle : \A j \in idle : k <= j
             moves == /\ TaskPolicy = "ReassignIfPossible"
                      /\ ss[p].task # NoTask /\ idle # {}
                      /\ backlog[ss[p].task] = "Running"
  <1>3. CASE ~moves
    <2>1. slots' = ss
      BY <1>3 DEF HandleBlockedTask
    <2> QED BY <1>1, <1>2, <2>1 DEF SameAgents
  <1>4. CASE moves
    <2>1. first \in idle
      <3>1. idle \subseteq Nat /\ idle # {}
        BY <1>1, <1>4
      <3> HIDE DEF idle
      <3> QED BY <3>1, FirstMember
    <2>2. first \in DOMAIN slots /\ first # p
      BY <1>1, <2>1
    <2>3. slots' = [ss EXCEPT ![first].task = ss[p].task, ![p].task = NoTask]
      BY <1>4 DEF HandleBlockedTask
    <2> HIDE DEF first, idle, moves
    <2>4. /\ DOMAIN slots' = DOMAIN slots
          /\ slots' = [k \in DOMAIN slots |-> slots'[k]]
          /\ slots'[first] = [ss[first] EXCEPT !.task = ss[p].task]
          /\ slots'[p] = [ss[p] EXCEPT !.task = NoTask]
          /\ \A k \in DOMAIN slots : k # first /\ k # p => slots'[k] = ss[k]
      BY <1>1, <2>2, <2>3
    <2>5. /\ slots'[first] \in Slots /\ slots'[first].id = ss[first].id
          /\ slots'[first].provider = ss[first].provider
          /\ slots'[first].task = ss[p].task /\ slots'[first].status = ss[first].status
      BY <1>1, <2>2, <2>4 DEF Slots
    <2>6. /\ slots'[p] \in Slots /\ slots'[p].id = ss[p].id
          /\ slots'[p].provider = ss[p].provider
          /\ slots'[p].task = NoTask /\ slots'[p].status = ss[p].status
      BY <1>1, <2>2, <2>4 DEF Slots
    <2>0. \A k \in DOMAIN slots : /\ ss[k].id = slots[k].id /\ ss[k].task = slots[k].task
                                  /\ ss[k].provider = slots[k].provider
      BY DEF SameAgent
    <2>7. ASSUME NEW k \in DOMAIN slots
          PROVE  SameAgent(slots[k], slots'[k])
      <3>1. CASE k = first
        BY <2>0, <2>2, <2>5, <3>1 DEF SameAgent
      <3>2. CASE k = p
        BY <2>0, <2>6, <3>2 DEF SameAgent
      <3>3. CASE k # first /\ k # p
        BY <1>1, <2>0, <2>4, <3>3 DEF SameAgent
      <3> QED BY <3>1, <3>2, <3>3
    <2>8. SameAgents
      BY <1>1, <2>4, <2>7, Mapped
    <2>9. ASSUME NEW k \in DOMAIN slots, slots'[k].task # NoTask
          PROVE  LET j == IF k = first THEN p ELSE k
                 IN  k # p /\ j \in DOMAIN slots /\ slots'[k].task = ss[j].task
      <3>1. k # p
        BY <2>6, <2>9
      <3>2. CASE k = first
        BY <2>5, <3>1, <3>2
      <3>3. CASE k # first
        BY <2>4, <3>1, <3>3
      <3> QED BY <3>2, <3>3
    <2>10. ASSUME NEW k \in DOMAIN slots, NEW m \in DOMAIN slots, k # m,
                  slots'[k].task \notin bypassed \cup {NoTask}
           PROVE  slots'[k].task # slots'[m].task
      <3>1. CASE slots'[m].task = NoTask
        BY <2>10, <3>1
      <3>2. CASE slots'[m].task # NoTask
        BY <1>2, <2>9, <2>10, <3>2
      <3> QED BY <3>1, <3>2
    <2>11. \A k \in DOMAIN slots : slots'[k].task # NoTask =>
                \E m \in DOMAIN slots : slots'[k].task = slots[m].task
      BY <2>0, <2>9
    <2>12. ASSUME NEW k \in DOMAIN slots
           PROVE  slots'[k].status = ss[k].status
      <3>1. CASE k = first
        BY <2>5, <3>1
      <3>2. CASE k = p
        BY <2>6, <3>2
      <3>3. CASE k # first /\ k # p
        BY <2>4, <3>3
      <3> QED BY <3>1, <3>2, <3>3
    <2>13. DOMAIN slots' = DOMAIN slots
      BY <2>4
    <2> QED BY <2>8, <2>10, <2>11, <2>12, <2>13
  <1> QED BY <1>3, <1>4

LEMMA BlockedKeeps ==
    ASSUME PoolInv, exec.left = 0, NEW p \in DOMAIN slots, NEW r \in Reasons,
           NEW withBacklog \in BOOLEAN, ProcessAgentBlocked(p, r, withBacklog)
    PROVE  PoolInv'
  <1> DEFINE moved == [slots EXCEPT ![p].status = BlockedStatus(r)]
  <1>1. /\ slots \in Seq(Slots) /\ slots[p] \in Slots /\ DOMAIN slots = 1..Len(slots)
        /\ Len(slots) \in Nat /\ \A k \in DOMAIN slots : slots[k] \in Slots
        /\ backlog \in [Tasks -> TaskStatuses]
    BY SlotFacts DEF PoolInv, TypeOK
  <1>2. BlockedStatus(r) \in Statuses /\ ~IsIdle(BlockedStatus(r))
    BY StatusFacts DEF BlockedStatus, Tags, SlotKinds, Tagged, IsIdle
  <1>3. /\ moved = [k \in DOMAIN slots |-> moved[k]]
        /\ moved[p] = [slots[p] EXCEPT !.status = BlockedStatus(r)]
        /\ \A k \in DOMAIN slots : k # p => moved[k] = slots[k]
    BY <1>1
  <1>4. /\ moved[p] \in Slots /\ moved[p].id = slots[p].id /\ moved[p].task = slots[p].task
        /\ moved[p].provider = slots[p].provider /\ moved[p].status = BlockedStatus(r)
    BY <1>1, <1>2, <1>3 DEF Slots
  <1> HIDE DEF moved
  <1>5. \A k \in DOMAIN slots : SameAgent(slots[k], moved[k]) /\ moved[k].task = slots[k].task
    BY <1>1, <1>3, <1>4 DEF SameAgent
  <1>6. moved \in [1..Len(slots) -> Slots]
    BY <1>1, <1>3, <1>5 DEF SameAgent
  <1>7. moved \in Seq(Slots) /\ Len(moved) = Len(slots)
    BY <1>1, <1>6
  <1>8. /\ slots' = IF withBacklog THEN HandleBlockedTask(moved, p) ELSE moved
        /\ backlog' = IF withBacklog THEN BlockTask(slots[p].task) ELSE backlog
        /\ UNCHANGED <<mail, nextIndex, focus, bypassed, exec>>
    BY DEF ProcessAgentBlocked, moved
  <1>9. /\ SameAgents
        /\ \A k, m \in DOMAIN slots' :
              k # m /\ slots'[k].task \notin bypassed \cup {NoTask} => slots'[k].task # slots'[m].task
        /\ \A k \in DOMAIN slots' : slots'[k].task # NoTask =>
              \E m \in DOMAIN slots : slots'[k].task = slots[m].task
    <2>1. CASE withBacklog
      BY <1>2, <1>4, <1>5, <1>7, <1>8, <2>1, HandOver
    <2>2. CASE ~withBacklog
      <3>1. slots' = moved /\ DOMAIN slots' = DOMAIN slots
        BY <1>3, <1>8, <2>2
      <3>2. SameAgents
        BY <1>5, <1>7, <3>1 DEF SameAgents
      <3>3. \A k \in DOMAIN slots' : slots'[k].task = slots[k].task
        BY <1>5, <3>1
      <3> QED BY <3>1, <3>2, <3>3 DEF PoolInv, TaskExclusive
    <2> QED BY <2>1, <2>2
  <1>10. backlog' \in [Tasks -> TaskStatuses]
         /\ \A u \in Tasks : backlog[u] \in {"Running", "Blocked"} => backlog'[u] \in {"Running", "Blocked"}
    <2>1. slots[p].task \in Tasks \cup {NoTask}
      BY <1>1, SlotFacts
    <2> QED BY <1>1, <1>8, <2>1 DEF BlockTask, TaskStatuses
  <1>11. TaskExclusive'
    <2>1. ASSUME NEW k \in DOMAIN slots', slots'[k].task \notin bypassed' \cup {NoTask}
          PROVE  backlog'[slots'[k].task] \in {"Running", "Blocked"}
      <3>1. PICK m \in DOMAIN slots : slots'[k].task = slots[m].task
        BY <1>9, <2>1
      <3>2. slots[m].task \in Tasks
        BY <1>1, <2>1, <3>1, SlotFacts
      <3>3. backlog[slots[m].task] \in {"Running", "Blocked"}
        BY <1>8, <2>1, <3>1 DEF PoolInv, TaskExclusive
      <3> QED BY <1>10, <3>1, <3>2, <3>3
    <2> QED BY <1>8, <1>9, <2>1 DEF TaskExclusive
  <1>12. QueueOK' /\ raised' \in 0..MaxRequests
    <2>1. raised \in 0..MaxRequests /\ raised \in Nat /\ MaxRequests \in Nat /\ Sound(queue, Agents, raised)
      BY PoolAssumption DEF PoolInv, TypeOK, QueueOK
    <2>2. CASE r \in HumanReasons
      <3>1. /\ raised < MaxRequests /\ raised' = raised + 1
            /\ queue' = Push(queue, [id |-> raised + 1, agent |-> slots[p].id], Urgency[r])
        BY <2>2 DEF ProcessAgentBlocked
      <3>2. slots[p].id \in Agents /\ Urgency[r] \in Levels
        BY <1>1, <2>2, SlotFacts, PoolAssumption
      <3>3. Sound(queue', Agents, raised + 1)
        BY <2>1, <3>1, <3>2, PushSound
      <3> QED BY <2>1, <3>1, <3>3 DEF QueueOK
    <2>3. CASE r \notin HumanReasons
      BY <2>1, <2>3 DEF ProcessAgentBlocked, humanVars, QueueOK
    <2> QED BY <2>2, <2>3
  <1>13. ExecOK'
    <2>1. DOMAIN slots' = DOMAIN slots
      BY <1>1, <1>9, SlotFacts DEF SameAgents
    <2> QED BY <1>8, <2>1 DEF ExecOK, PoolInv, TypeOK, PoolShape
  <1>14. PoolShape' /\ DecisionAgentsInPool'
    BY <1>8, <1>9, <1>13, KeptShape, KeptDecision
  <1>15. TypeOK'
    BY <1>8, <1>9, <1>10, <1>12 DEF PoolInv, TypeOK, SameAgents, QueueOK, Sound
  <1> QED BY <1>11, <1>12, <1>14, <1>15 DEF PoolInv

\* Slots that keep their agent and drop or keep their task.
LEMMA SlotWise ==
    ASSUME PoolInv, slots' = [p \in DOMAIN slots |-> slots'[p]],
           \A p \in DOMAIN slots :
              SameAgent(slots[p], slots'[p]) /\ slots'[p].task \in {slots[p].task, NoTask},
           QueueOK', UNCHANGED <<mail, nextIndex, focus, backlog, bypassed, raised, exec>>
    PROVE  PoolInv'
  <1>1. slots \in Seq(Slots)
    BY DEF PoolInv, TypeOK
  <1>2. SameAgents
    BY <1>1, Mapped
  <1>3. TasksKept
    BY DEF TasksKept
  <1>4. ExecOK'
    BY DEF ExecOK, PoolInv, TypeOK, PoolShape
  <1> QED BY <1>2, <1>3, <1>4, SettleStep

\* Each thing a decision or a time-out does to a slot.
LEMMA SelectionFacts ==
    ASSUME NEW s \in Slots
    PROVE  /\ \A sel \in Selections :
                LET t == ExecuteSelection(Move(s, Responding), sel)
                IN  SameAgent(s, t) /\ t.task \in {s.task, NoTask}
           /\ LET t == ExecuteTimeout(s)
              IN  SameAgent(s, t) /\ t.task \in {s.task, NoTask}
           /\ LET t == Move(ClearTask(s), Idle)
              IN  SameAgent(s, t) /\ t.task \in {s.task, NoTask}
  <1>1. Idle \in Statuses /\ Responding \in Statuses
    BY StatusFacts
  <1>2. \A u \in Slots : /\ SameAgent(u, Move(u, Idle)) /\ Move(u, Idle).task = u.task
                         /\ SameAgent(u, Move(u, Responding)) /\ Move(u, Responding).task = u.task
                         /\ SameAgent(u, ClearTask(u)) /\ ClearTask(u).task = NoTask
    BY <1>1, MoveFacts, ClearTaskFacts
  <1>3. \A u, v, w : SameAgent(u, v) /\ SameAgent(v, w) => SameAgent(u, w)
    BY DEF SameAgent
  <1>4. \A u, v : SameAgent(u, v) => v \in Slots
    BY DEF SameAgent
  <1>5. ASSUME NEW sel \in Selections
        PROVE  LET t == ExecuteSelection(Move(s, Responding), sel)
               IN  SameAgent(s, t) /\ t.task \in {s.task, NoTask}
    BY <1>2, <1>3, <1>4 DEF ExecuteSelection
  <1>6. LET t == ExecuteTimeout(s)
        IN  SameAgent(s, t) /\ t.task \in {s.task, NoTask}
    BY <1>2, <1>3, <1>4 DEF ExecuteTimeout, SameAgent
  <1>7. LET t == Move(ClearTask(s), Idle)
        IN  SameAgent(s, t) /\ t.task \in {s.task, NoTask}
    BY <1>2, <1>3, <1>4
  <1> QED BY <1>5, <1>6, <1>7

LEMMA HumanKeeps ==
    ASSUME PoolInv, exec.left = 0, HumanStep
    PROVE  PoolInv'
  <1>1. /\ slots \in Seq(Slots) /\ \A p \in DOMAIN slots : slots[p] \in Slots
        /\ raised \in 0..MaxRequests /\ raised \in Nat /\ QueueOK
    BY SlotFacts, PoolAssumption DEF PoolInv, TypeOK
  <1>2. \A p \in DOMAIN slots : SameAgent(slots[p], slots[p])
    BY <1>1 DEF SameAgent
  <1>3. ASSUME NEW p \in DOMAIN slots, NEW r \in Reasons, NEW withBacklog \in BOOLEAN,
               ProcessAgentBlocked(p, r, withBacklog)
        PROVE  PoolInv'
    BY <1>3, BlockedKeeps
  <1>4. ASSUME NEW id \in 1..MaxRequests, NEW sel \in Selections, ProcessHumanResponse(id, sel)
        PROVE  PoolInv'
    <2>1. /\ Indexed(queue, id) /\ queue' = Complete(queue, id)
          /\ UNCHANGED <<mail, nextIndex, focus, backlog, bypassed, raised, exec>>
          /\ slots' = [p \in DOMAIN slots |-> slots'[p]]
          /\ \A p \in DOMAIN slots :
                slots'[p] \in {slots[p], ExecuteSelection(Move(slots[p], Responding), sel)}
      BY <1>4 DEF ProcessHumanResponse
    <2>2. QueueOK'
      BY <1>1, <2>1, CompleteSound DEF QueueOK
    <2>3. \A p \in DOMAIN slots :
              SameAgent(slots[p], slots'[p]) /\ slots'[p].task \in {slots[p].task, NoTask}
      BY <1>1, <1>2, <2>1, SelectionFacts
    <2> QED BY <2>1, <2>2, <2>3, SlotWise
  <1>5. ASSUME NEW e \in Expiries(queue), ProcessExpiredRequests(e)
        PROVE  PoolInv'
    <2>1. /\ queue' = DropExpired(queue, e)
          /\ UNCHANGED <<mail, nextIndex, focus, backlog, bypassed, raised, exec>>
          /\ slots' = [p \in DOMAIN slots |-> slots'[p]]
          /\ \A p \in DOMAIN slots : slots'[p] \in {slots[p], ExecuteTimeout(slots[p])}
      BY <1>5 DEF ProcessExpiredRequests
    <2>2. QueueOK'
      BY <1>1, <2>1, ExpirySound DEF QueueOK
    <2>3. \A p \in DOMAIN slots :
              SameAgent(slots[p], slots'[p]) /\ slots'[p].task \in {slots[p].task, NoTask}
      BY <1>1, <1>2, <2>1, SelectionFacts
    <2> QED BY <2>1, <2>2, <2>3, SlotWise
  <1>6. ASSUME NEW e \in Expiries(queue), ClearAllBlocked(e)
        PROVE  PoolInv'
    <2>1. /\ queue' = DropExpired(queue, e)
          /\ UNCHANGED <<mail, nextIndex, focus, backlog, bypassed, raised, exec>>
          /\ slots' = [p \in DOMAIN slots |-> slots'[p]]
          /\ \A p \in DOMAIN slots : slots'[p] \in {slots[p], Move(slots[p], Idle)}
      BY <1>6 DEF ClearAllBlocked
    <2>2. QueueOK'
      BY <1>1, <2>1, ExpirySound DEF QueueOK
    <2>3. \A p \in DOMAIN slots :
              SameAgent(slots[p], slots'[p]) /\ slots'[p].task \in {slots[p].task, NoTask}
      BY <1>1, <1>2, <2>1, MoveFacts, StatusFacts
    <2> QED BY <2>1, <2>2, <2>3, SlotWise
  <1>7. ASSUME NEW p \in DOMAIN slots, ClearAgentContext(p)
        PROVE  PoolInv'
    <2>1. /\ UNCHANGED <<mail, nextIndex, focus, backlog, bypassed, queue, raised, exec>>
          /\ slots' = [k \in DOMAIN slots |-> slots'[k]]
          /\ \A k \in DOMAIN slots : slots'[k] \in {slots[k], Move(ClearTask(slots[k]), Idle)}
      BY <1>1, <1>7 DEF ClearAgentContext, humanVars
    <2>2. \A k \in DOMAIN slots :
              SameAgent(slots[k], slots'[k]) /\ slots'[k].task \in {slots[k].task, NoTask}
      BY <1>1, <1>2, <2>1, SelectionFacts
    <2>3. QueueOK'
      BY <1>1, <2>1 DEF QueueOK
    <2> QED BY <2>1, <2>2, <2>3, SlotWise
  <1>8. CASE ClearAllAgentContexts
    <2>1. /\ queue' = EmptyQueue
          /\ UNCHANGED <<mail, nextIndex, focus, backlog, bypassed, raised, exec>>
          /\ slots' = [p \in DOMAIN slots |-> slots'[p]]
          /\ \A p \in DOMAIN slots : slots'[p] = Move(ClearTask(slots[p]), Idle)
      BY <1>8 DEF ClearAllAgentContexts
    <2>2. \A p \in DOMAIN slots :
              SameAgent(slots[p], slots'[p]) /\ slots'[p].task \in {slots[p].task, NoTask}
      BY <1>1, <2>1, SelectionFacts
    <2>3. QueueOK'
      BY <1>1, <2>1, EmptyIsSound DEF QueueOK
    <2> QED BY <2>1, <2>2, <2>3, SlotWise
  <1> QED BY <1>3, <1>4, <1>5, <1>6, <1>7, <1>8 DEF HumanStep

\* Mail is counted and an output is taken up for a slot of the pool.
LEMMA DecisionKeeps ==
    ASSUME PoolInv, exec.left = 0, DecisionStep
    PROVE  PoolInv'
  <1>1. /\ slots \in Seq(Slots) /\ DOMAIN slots = 1..Len(slots) /\ Len(slots) <= MaxSlots
        /\ Len(slots) \in Nat /\ MaxSlots \in Nat /\ MailOK /\ MaxMail \in Nat /\ MaxActions \in Nat
        /\ \A p \in DOMAIN slots : slots[p] \in Slots
    BY SlotFacts, PoolAssumption DEF PoolInv, TypeOK, PoolShape, MailOK
  <1>2. ASSUME UNCHANGED <<slots, nextIndex, focus, backlog, bypassed, humanVars>>,
               MailOK', DOMAIN mail' = DOMAIN mail, ExecOK'
        PROVE  PoolInv'
    <2>1. SameAgents /\ TasksKept
      BY <1>1, <1>2 DEF SameAgents, SameAgent, TasksKept
    <2>2. QueueOK' /\ raised' \in 0..MaxRequests
      BY <1>2 DEF PoolInv, TypeOK, QueueOK, humanVars
    <2> QED BY <1>2, <2>1, <2>2, QuietStep
  <1>3. ASSUME NEW p \in DOMAIN slots, SendDecisionRequest(p)
        PROVE  PoolInv'
    <2> DEFINE a == slots[p].id
    <2>1. mail[a] \in 0..MaxMail /\ mail[a] < MaxMail /\ a \in DOMAIN mail
          /\ mail' = [mail EXCEPT ![a] = mail[a] + 1]
          /\ UNCHANGED <<slots, nextIndex, focus, backlog, bypassed, humanVars, exec>>
      BY <1>1, <1>3 DEF SendDecisionRequest, MailOK
    <2>2. mail[a] + 1 \in 0..MaxMail
      BY <1>1, <2>1
    <2>3. MailOK' /\ DOMAIN mail' = DOMAIN mail
      BY <1>1, <2>1, <2>2 DEF MailOK
    <2>4. ExecOK'
      BY <2>1 DEF ExecOK, PoolInv, TypeOK, PoolShape
    <2> QED BY <1>2, <2>1, <2>3, <2>4
  <1>4. ASSUME NEW p \in DOMAIN slots, NEW n \in 0..MaxActions, ReceiveDecision(p, n)
        PROVE  PoolInv'
    <2> DEFINE a == slots[p].id
    <2>1. mail[a] \in 0..MaxMail /\ mail[a] > 0 /\ a \in DOMAIN mail
          /\ mail' = [mail EXCEPT ![a] = mail[a] - 1]
          /\ UNCHANGED <<slots, nextIndex, focus, backlog, bypassed, humanVars>>
          /\ exec' \in {[pos |-> p, left |-> n], NotExecuting}
      BY <1>1, <1>4 DEF ReceiveDecision, MailOK
    <2>2. mail[a] - 1 \in 0..MaxMail
      BY <1>1, <2>1
    <2>3. MailOK' /\ DOMAIN mail' = DOMAIN mail
      BY <1>1, <2>1, <2>2 DEF MailOK
    <2>4. ExecOK'
      BY <1>1, <2>1 DEF ExecOK, NotExecuting
    <2> QED BY <1>2, <2>1, <2>3, <2>4
  <1> QED BY <1>3, <1>4 DEF DecisionStep

\* One action of an output.
LEMMA ActionDoneKeeps ==
    ASSUME PoolInv, exec.left > 0, NEW s, NEW v, ActionDone(s, v),
           SameAgent(Target, s), s.task \in {Target.task, NoTask},
           Sound(v, Agents, raised)
    PROVE  PoolInv'
  <1>1. exec.pos \in DOMAIN slots /\ slots \in Seq(Slots)
    BY DEF PoolInv, PoolShape, TypeOK
  <1>2. /\ slots' = [slots EXCEPT ![exec.pos] = s] /\ queue' = v
        /\ UNCHANGED <<mail, nextIndex, focus, backlog, bypassed, raised>>
    BY DEF ActionDone
  <1>3. /\ SameAgents /\ slots'[exec.pos] = s
        /\ \A k \in DOMAIN slots : k # exec.pos => slots'[k] = slots[k]
    BY <1>1, <1>2, Replaced DEF Target
  <1>4. TasksKept
    BY <1>1, <1>2, <1>3 DEF TasksKept, Target
  <1>5. ExecOK'
    <2>1. exec \in [pos : 0..MaxSlots, left : 0..MaxActions] /\ MaxActions \in Nat /\ MaxSlots \in Nat
      BY PoolAssumption DEF PoolInv, TypeOK
    <2>2. exec' = IF exec.left > 1 THEN [exec EXCEPT !.left = exec.left - 1] ELSE NotExecuting
      BY DEF ActionDone
    <2>3. DOMAIN slots' = DOMAIN slots
      BY <1>2
    <2> QED BY <1>1, <2>1, <2>2, <2>3 DEF ExecOK, NotExecuting
  <1>6. QueueOK'
    BY <1>2 DEF QueueOK
  <1> QED BY <1>2, <1>3, <1>4, <1>5, <1>6, SettleStep

LEMMA ExecuteKeeps ==
    ASSUME PoolInv, exec.left > 0, ExecuteAction
    PROVE  PoolInv'
  <1>1. /\ Target \in Slots /\ raised \in 0..MaxRequests /\ raised \in Nat
        /\ Sound(queue, Agents, raised)
    BY SlotFacts, PoolAssumption DEF PoolInv, PoolShape, TypeOK, Target, QueueOK
  <1>2. SameAgent(Target, Target)
    BY <1>1 DEF SameAgent
  <1>3. Idle \in Statuses /\ StoppedBy("all tasks complete") \in Statuses
    BY StatusFacts DEF Tags
  <1>4. SameAgent(Target, Move(Target, Idle)) /\ Move(Target, Idle).task = Target.task
    BY <1>1, <1>3, MoveFacts
  <1>5. SameAgent(Target, IfBlockedIdle(Target)) /\ IfBlockedIdle(Target).task = Target.task
    BY <1>2, <1>4 DEF IfBlockedIdle
  <1>6. CASE AnswerOwnRequest
    <2>1. CASE HasRequest(queue, Target.id)
      <3> DEFINE id == FindByAgent(queue, Target.id).id
                 l == LaneOf(queue, Target.id)
                 p == PosOf(queue.lanes[l], Target.id)
      <3>1. l \in Levels /\ p \in DOMAIN queue.lanes[l]
        BY <1>1, <2>1, FindFacts
      <3>2. id = queue.lanes[l][p].id
        BY DEF FindByAgent
      <3>3. Indexed(queue, id)
        BY <1>1, <3>1, <3>2, EntryFacts DEF Indexed
      <3>4. Sound(Complete(queue, id), Agents, raised)
        BY <1>1, <3>3, CompleteSound DEF QueueOK
      <3>5. ActionDone(Move(Target, Idle), Complete(queue, id))
        BY <1>6, <2>1 DEF AnswerOwnRequest
      <3> QED BY <1>4, <3>4, <3>5, ActionDoneKeeps
    <2>2. CASE ~HasRequest(queue, Target.id)
      BY <1>1, <1>2, <1>6, <2>2, ActionDoneKeeps DEF AnswerOwnRequest
    <2> QED BY <2>1, <2>2
  <1>7. CASE ContinueOrReflect
    BY <1>1, <1>5, <1>7, ActionDoneKeeps DEF ContinueOrReflect
  <1>8. CASE Retry
    <2>1. ActionDone(Target, queue) \/ ActionDone(IfBlockedIdle(Target), queue)
      BY <1>8 DEF Retry
    <2> QED BY <1>1, <1>2, <1>5, <2>1, ActionDoneKeeps
  <1>9. CASE ConfirmCompletion
    <2>1. IfBlockedIdle(Target) \in Slots
      BY <1>5 DEF SameAgent
    <2>2. /\ SameAgent(Target, ClearTask(IfBlockedIdle(Target)))
          /\ ClearTask(IfBlockedIdle(Target)).task = NoTask
      BY <1>5, <2>1, ClearTaskFacts DEF SameAgent
    <2> QED BY <1>1, <1>9, <2>2, ActionDoneKeeps DEF ConfirmCompletion
  <1>10. CASE StopIfComplete
    <2>1. /\ SameAgent(Target, Move(Target, StoppedBy("all tasks complete")))
          /\ Move(Target, StoppedBy("all tasks complete")).task = Target.task
      BY <1>1, <1>3, MoveFacts
    <2> QED BY <1>1, <1>10, <2>1, ActionDoneKeeps DEF StopIfComplete
  <1>11. CASE ActionDone(Target, queue)
    BY <1>1, <1>2, <1>11, ActionDoneKeeps
  <1> QED BY <1>6, <1>7, <1>8, <1>9, <1>10, <1>11
          DEF ExecuteAction, RequestHuman, CustomInstruction, ContinueAllTasks, PrepareTaskStart
-----------------------------------------------------------------------------
LEMMA PoolInvInit == Init => PoolInv
  <1> SUFFICES ASSUME Init PROVE PoolInv
    OBVIOUS
  <1>1. /\ slots = <<>> /\ nextIndex \in 1..(MaxIndex + 1) /\ focus = 1 /\ DOMAIN mail = {}
        /\ bypassed = {}
        /\ queue = EmptyQueue /\ raised = 0 /\ exec = NotExecuting
        /\ mail \in [DOMAIN mail -> 0..MaxMail]
        /\ backlog \in [Tasks -> {"Ready", "Running"}]
    BY DEF Init
  <1>2. QueueOK
    <2>1. 0 \in Nat
      OBVIOUS
    <2> QED BY <1>1, <2>1, EmptyIsSound DEF QueueOK
  <1>3. slots \in Seq(Slots) /\ DOMAIN slots = {} /\ Len(slots) = 0
    BY <1>1
  <1>4. TypeOK
    BY <1>1, <1>2, <1>3, PoolAssumption DEF TypeOK, TaskStatuses, NotExecuting, QueueOK, Sound
  <1>5. PoolShape
    BY <1>1, <1>3, PoolAssumption DEF PoolShape, NotExecuting
  <1> QED BY <1>1, <1>2, <1>3, <1>4, <1>5 DEF PoolInv, DecisionAgentsInPool, TaskExclusive

LEMMA PoolInvStep ==
    ASSUME PoolInv, [Next]_vars
    PROVE  PoolInv'
  <1>1. CASE exec.left = 0 /\ (LifecycleStep \/ TaskStep \/ HumanStep \/ DecisionStep)
    BY <1>1, LifecycleKeeps, TasksKeep, HumanKeeps, DecisionKeeps
  <1>2. CASE exec.left > 0 /\ ExecuteAction
    BY <1>2, ExecuteKeeps
  <1>3. CASE UNCHANGED vars
    BY <1>3 DEF vars, PoolInv, TypeOK, PoolShape, DecisionAgentsInPool, TaskExclusive, QueueOK
  <1> QED BY <1>1, <1>2, <1>3 DEF Next

\* Whatever the capacity, the providers, the blocking reasons, the policy and
\* the number of tasks: every variable keeps its type, ids are distinct and
\* the focus is on a slot, decision agents belong to slots of the pool, and a
\* task that was never given against the backlog is held at most once, and only
\* between its start and its end.
THEOREM PoolSafe ==
    Spec => [](TypeOK /\ PoolShape /\ DecisionAgentsInPool /\ TaskExclusive)
  <1>1. PoolInv => TypeOK /\ PoolShape /\ DecisionAgentsInPool /\ TaskExclusive
    BY DEF PoolInv
  <1> QED BY <1>1, PoolInvInit, PoolInvStep, PTL DEF Spec

\* For every capacity the ids in the pool are distinct and the focus is on a
\* slot, after any spawn, removal or reordering.
COROLLARY PoolKeepsShape == Spec => []PoolShape
  BY PoolSafe, PTL

\* For every set of providers, no decision agent outlives the slot of its
\* worker, and no mock agent has one.
COROLLARY DecisionAgentsStayInPool == Spec => []DecisionAgentsInPool
  BY PoolSafe, PTL

\* Every variable of the pool keeps its type, for every value of the constants.
COROLLARY PoolTyped == Spec => []TypeOK
  BY PoolSafe, PTL
-----------------------------------------------------------------------------
(* The focus *)

\* Only spawning, restoring and removing change how many slots there are.
LEMMA LengthChanges ==
    ASSUME PoolInv, PoolInv', [Next]_vars, Len(slots') # Len(slots)
    PROVE  \/ \E k \in Providers : SpawnWorker(k) \/ SpawnOverviewAgent(k)
           \/ \E id \in Agents, k \in Providers, st \in RestoreStatuses,
                 t \in Tasks \cup {NoTask} : RestoreSlot(id, k, st, t)
           \/ \E p \in DOMAIN slots : RemoveAgent(p)
  <1>1. DOMAIN slots' # DOMAIN slots
    <2>1. slots \in Seq(Slots) /\ slots' \in Seq(Slots)
      BY DEF PoolInv, TypeOK
    <2> QED BY <2>1
  <1>2. ASSUME TaskStep PROVE FALSE
    BY <1>1, <1>2 DEF TaskStep, AssignTask, AssignTaskWithBacklog, AutoAssignTask, CompleteTask
  <1>3. ASSUME HumanStep PROVE FALSE
    <2>1. \A p \in DOMAIN slots, r \in Reasons, withBacklog \in BOOLEAN :
            ~ProcessAgentBlocked(p, r, withBacklog)
      BY <1>1 DEF ProcessAgentBlocked, HandleBlockedTask
    <2> QED BY <1>1, <1>3, <2>1
        DEF HumanStep, ProcessHumanResponse, ProcessExpiredRequests, ClearAllBlocked,
            ClearAgentContext, ClearAllAgentContexts
  <1>4. ASSUME DecisionStep PROVE FALSE
    BY <1>1, <1>4 DEF DecisionStep, SendDecisionRequest, ReceiveDecision
  <1>5. ASSUME ExecuteAction PROVE FALSE
    <2>1. \A t, u : ~ActionDone(t, u)
      BY <1>1 DEF ActionDone
    <2> QED BY <1>5, <2>1
        DEF ExecuteAction, AnswerOwnRequest, ContinueOrReflect, Retry, ConfirmCompletion,
            StopIfComplete, RequestHuman, CustomInstruction, ContinueAllTasks, PrepareTaskStart
  <1>6. LifecycleStep
    BY <1>1, <1>2, <1>3, <1>4, <1>5 DEF Next, vars
  <1>7. ~SpawnWorktreeFails
    BY <1>1 DEF SpawnWorktreeFails
  <1>8. ASSUME NEW p \in DOMAIN slots
        PROVE  /\ ~StopAgent(p) /\ ~FocusByIndex(p) /\ ~PauseAgent(p)
               /\ ~ResumeAgent(p) /\ ~StartProvider(p)
               /\ \A t \in LoopTargets : ~LoopStep(p, t)
    BY <1>1 DEF StopAgent, FocusByIndex, PauseAgent, ResumeAgent, StartProvider, LoopStep
  <1> QED BY <1>6, <1>7, <1>8 DEF LifecycleStep

\* A slot added at the end leaves the focused slot where it is.
LEMMA AppendKeepsFocus ==
    ASSUME PoolInv, slots # <<>>, NEW s \in Slots, slots' = Append(slots, s), focus' = focus
    PROVE  slots'[focus'].id = slots[focus].id
  <1>1. slots \in Seq(Slots) /\ Len(slots) \in Nat /\ focus \in 1..Len(slots)
    BY PoolAssumption DEF PoolInv, TypeOK, PoolShape
  <1> QED BY <1>1

\* When a slot leaves, the focus follows the slots that move up.
LEMMA RemoveKeepsFocus ==
    ASSUME PoolInv, NEW p \in DOMAIN slots, RemoveAgent(p),
           \E k \in DOMAIN slots' : slots'[k].id = slots[focus].id
    PROVE  slots'[focus'].id = slots[focus].id
  <1> DEFINE n == Len(slots) - 1
  <1>1. /\ slots \in Seq(Slots) /\ Len(slots) \in Nat /\ DOMAIN slots = 1..Len(slots)
        /\ n \in Nat /\ p \in 1..Len(slots) /\ focus \in 1..Len(slots)
    BY SMTT(40), PoolAssumption DEF PoolInv, TypeOK, PoolShape
  <1>2. slots' = WithoutPos(slots, p) /\ focus' = AdjustOnRemove(p, n)
    BY DEF RemoveAgent
  <1>3. /\ DOMAIN slots' = 1..n
        /\ \A k \in 1..n : slots'[k] = IF k < p THEN slots[k] ELSE slots[k + 1]
    BY <1>1, <1>2, WithoutPosFacts DEF WithoutPos
  <1>4. focus # p
    <2>1. PICK k \in 1..n : slots'[k].id = slots[focus].id
      BY <1>3
    <2> DEFINE j == IF k < p THEN k ELSE k + 1
    <2>2. j \in DOMAIN slots /\ j # p /\ slots'[k] = slots[j]
      BY <1>1, <1>3
    <2> HIDE DEF j
    <2>3. j = focus
      BY <1>1, <2>1, <2>2 DEF PoolInv, PoolShape
    <2> QED BY <2>2, <2>3
  <1>5. focus' = IF focus > p THEN focus - 1 ELSE focus
    BY <1>1, <1>2, <1>4 DEF AdjustOnRemove
  <1>6. CASE focus > p
    <2>1. focus - 1 \in 1..n /\ ~(focus - 1 < p) /\ (focus - 1) + 1 = focus
      BY <1>1, <1>6
    <2>2. slots'[focus - 1] = slots[focus]
      BY <1>3, <2>1
    <2> QED BY <1>5, <1>6, <2>2
  <1>7. CASE focus < p
    <2>1. focus \in 1..n
      BY <1>1, <1>7
    <2>2. slots'[focus] = slots[focus]
      BY <1>3, <1>7, <2>1
    <2>3. ~(focus > p)
      BY <1>1, <1>7
    <2> QED BY <1>5, <2>2, <2>3
  <1> QED BY <1>1, <1>4, <1>6, <1>7

\* For every capacity, every set of providers and every number of agents, the
\* focus stays with the agent it was on when slots come or go, unless that
\* agent left or the OVERVIEW agent arrived (FocusManager::adjust_on_remove).
THEOREM FocusStays == Spec => FocusKept
  <1> DEFINE Kept == \A a \in Agents :
                        /\ slots # <<>> /\ slots[focus].id = a
                        /\ Len(slots') # Len(slots)
                        /\ \E p \in DOMAIN slots' : slots'[p].id = a
                        /\ Overview \in PoolIds \/ slots'[1].id # Overview
                        => slots'[focus'].id = a
  <1>1. PoolInv /\ PoolInv' /\ [Next]_vars => [Kept]_vars
    <2> SUFFICES ASSUME PoolInv, PoolInv', [Next]_vars, slots # <<>>,
                        Len(slots') # Len(slots),
                        \E p \in DOMAIN slots' : slots'[p].id = slots[focus].id,
                        Overview \in PoolIds \/ slots'[1].id # Overview
                 PROVE  slots'[focus'].id = slots[focus].id
      OBVIOUS
    <2>1. slots \in Seq(Slots) /\ Len(slots) # 0
      BY DEF PoolInv, TypeOK
    <2>2. ASSUME NEW k \in Providers, SpawnWorker(k)
          PROVE  slots'[focus'].id = slots[focus].id
      <3>1. nextIndex \in Agents
        BY <2>2, PoolAssumption DEF SpawnWorker, PoolInv, TypeOK, Agents
      <3>2. NewSlot(nextIndex, k) \in Slots
        BY <3>1, StatusFacts DEF NewSlot, Slots
      <3> QED BY <2>1, <2>2, <3>2, AppendKeepsFocus DEF SpawnWorker
    <2>3. ASSUME NEW k \in Providers, SpawnOverviewAgent(k)
          PROVE  FALSE
      <3>1. Overview \notin PoolIds
        BY <2>3 DEF SpawnOverviewAgent, PoolIds
      <3>2. slots'[1] = NewSlot(Overview, k)
        BY <2>1, <2>3 DEF SpawnOverviewAgent, InFront
      <3>3. slots'[1].id = Overview
        BY <3>2 DEF NewSlot
      <3> QED BY <3>1, <3>3
    <2>4. ASSUME NEW id \in Agents, NEW k \in Providers, NEW st \in RestoreStatuses,
                 NEW t \in Tasks \cup {NoTask}, RestoreSlot(id, k, st, t)
          PROVE  slots'[focus'].id = slots[focus].id
      <3> DEFINE s == WithTask([NewSlot(id, k) EXCEPT !.status = st], t)
      <3>0. id # Overview
        <4>1. ASSUME id = Overview PROVE FALSE
          <5>1. Overview \notin PoolIds
            BY <2>4, <4>1 DEF RestoreSlot, PoolIds
          <5>2. slots'[1] = s
            BY <2>1, <2>4, <4>1 DEF RestoreSlot, InFront
          <5>3. s.id = Overview
            BY <4>1 DEF WithTask, NewSlot
          <5> QED BY <5>1, <5>2, <5>3
        <4> QED BY <4>1
      <3>1. slots' = Append(slots, s) /\ focus' = focus
        BY <2>4, <3>0 DEF RestoreSlot
      <3>2. s \in Slots
        <4>1. st \in Statuses
          BY StatusFacts DEF RestoreStatuses, Tags, SlotKinds
        <4> QED BY <4>1 DEF WithTask, NewSlot, Slots
      <3> HIDE DEF s
      <3> QED BY <3>1, <3>2, AppendKeepsFocus
    <2>5. ASSUME NEW p \in DOMAIN slots, RemoveAgent(p)
          PROVE  slots'[focus'].id = slots[focus].id
      BY <2>5, RemoveKeepsFocus
    <2> QED BY <2>2, <2>3, <2>4, <2>5, LengthChanges
  <1>2. PoolInv /\ [Next]_vars => PoolInv'
    BY PoolInvStep
  <1> QED BY <1>1, <1>2, PoolInvInit, PTL DEF Spec, FocusKept

-----------------------------------------------------------------------------
(* When humans answer the request at the head of the queue, no agent stays   *)
(* blocked on a human without a request that a human can answer.             *)
AwaitsHuman(s) == s.status.kind = "BlockedForDecision" /\ s.status.tag \in HumanReasons

LEMMA BlockedHumanForm ==
    BlockedHumanHasRequest <=>
        \A p \in DOMAIN slots : AwaitsHuman(slots[p]) => HasRequest(queue, slots[p].id)
  BY DEF BlockedHumanHasRequest, AwaitsHuman

\* The queue stays, and only agents that awaited a human still await one.
LEMMA NobodyNew ==
    ASSUME BlockedHumanHasRequest, queue' = queue,
           \A p \in DOMAIN slots' : AwaitsHuman(slots'[p]) =>
              \E k \in DOMAIN slots : slots[k].id = slots'[p].id /\ AwaitsHuman(slots[k])
    PROVE  BlockedHumanHasRequest'
  BY BlockedHumanForm DEF BlockedHumanHasRequest, AwaitsHuman

\* Every slot that awaits a human after the step did before, and what it
\* waits for is still queued.
LEMMA StillQueued ==
    ASSUME BlockedHumanHasRequest, DOMAIN slots' = DOMAIN slots,
           \A p \in DOMAIN slots : AwaitsHuman(slots'[p]) =>
              /\ AwaitsHuman(slots[p]) /\ slots'[p].id = slots[p].id
              /\ HasRequest(queue, slots[p].id) => HasRequest(queue', slots[p].id)
    PROVE  BlockedHumanHasRequest'
  BY BlockedHumanForm DEF BlockedHumanHasRequest, AwaitsHuman

\* A move to a status other than BlockedForDecision is refused or ends the
\* wait; a blocked slot may always become idle or respond.
LEMMA MoveAwaits ==
    ASSUME NEW s \in Slots, NEW t \in Statuses, t.kind # "BlockedForDecision"
    PROVE  /\ AwaitsHuman(Move(s, t)) => AwaitsHuman(s)
           /\ t \in {Idle, Responding} => ~AwaitsHuman(Move(s, t))
  <1>1. Move(s, t).status = IF CanTransition(s.status, t) THEN t ELSE s.status
    BY MoveFacts
  <1>2. AwaitsHuman(Move(s, t)) => ~CanTransition(s.status, t) /\ AwaitsHuman(s)
    BY <1>1 DEF AwaitsHuman
  <1>3. t \in {Idle, Responding} /\ AwaitsHuman(s) => CanTransition(s.status, t)
    BY DEF AwaitsHuman, CanTransition, SlotSuccessors, SlotKinds, Idle, Responding, Plain
  <1> QED BY <1>2, <1>3

LEMMA KindFacts ==
    /\ Idle.kind = "Idle" /\ Responding.kind = "Responding"
    /\ \A r \in Tags : StoppedBy(r).kind = "Stopped"
    /\ \A t \in RestoreStatuses \cup LoopTargets : t.kind # "BlockedForDecision"
    /\ Tagged("Paused", "worktree preserved").kind = "Paused"
    /\ \A s : ClearTask(s).status = s.status => (AwaitsHuman(ClearTask(s)) <=> AwaitsHuman(s))
  BY DEF Idle, Responding, Plain, StoppedBy, Tagged, RestoreStatuses, LoopTargets, AwaitsHuman

\* One slot is given a status of another kind.
LEMMA OtherStatus ==
    ASSUME PoolInv, BlockedHumanHasRequest, NEW p \in DOMAIN slots, NEW t,
           t.kind # "BlockedForDecision",
           slots' = [slots EXCEPT ![p].status = t], queue' = queue
    PROVE  BlockedHumanHasRequest'
  <1>1. slots \in Seq(Slots) /\ \A k \in DOMAIN slots : slots[k] \in Slots
    BY SlotFacts DEF PoolInv, TypeOK
  <1>2. /\ DOMAIN slots' = DOMAIN slots
        /\ slots'[p] = [slots[p] EXCEPT !.status = t]
        /\ \A k \in DOMAIN slots : k # p => slots'[k] = slots[k]
    BY <1>1
  <1>3. slots'[p].status = t
    BY <1>1, <1>2 DEF Slots
  <1>4. \A k \in DOMAIN slots : AwaitsHuman(slots'[k]) => k # p
    BY <1>3 DEF AwaitsHuman
  <1> QED BY <1>2, <1>4, NobodyNew

LEMMA LifecycleAwaits ==
    ASSUME PoolInv, BlockedHumanHasRequest, LifecycleStep
    PROVE  BlockedHumanHasRequest'
  <1>1. /\ slots \in Seq(Slots) /\ \A k \in DOMAIN slots : slots[k] \in Slots
        /\ DOMAIN slots = 1..Len(slots) /\ Len(slots) \in Nat
        /\ nextIndex \in 1..(MaxIndex + 1) /\ MaxIndex \in Nat
    BY SlotFacts, PoolAssumption DEF PoolInv, TypeOK
  <1>2. ASSUME NEW s \in Slots, s.status.kind # "BlockedForDecision", queue' = queue,
               slots' = Append(slots, s) \/ slots' = InFront(s, slots)
        PROVE  BlockedHumanHasRequest'
    <2>1. \E j : Joined(s, j)
      BY <1>1, <1>2, AppendJoined, FrontJoined
    <2>2. PICK j : Joined(s, j)
      BY <2>1
    <2>3. ~AwaitsHuman(s)
      BY <1>2 DEF AwaitsHuman
    <2>4. \A k \in DOMAIN slots' : AwaitsHuman(slots'[k]) =>
              \E m \in DOMAIN slots : slots[m] = slots'[k]
      BY <2>2, <2>3 DEF Joined
    <2> QED BY <1>2, <2>4, NobodyNew
  <1>3. \A id \in Agents, k \in Providers :
            NewSlot(id, k) \in Slots /\ NewSlot(id, k).status.kind # "BlockedForDecision"
    BY StatusFacts, KindFacts DEF NewSlot, Slots
  <1>4. ASSUME NEW k \in Providers, SpawnWorker(k)
        PROVE  BlockedHumanHasRequest'
    <2>1. nextIndex \in Agents
      BY <1>1, <1>4 DEF SpawnWorker, Agents
    <2> QED BY <1>2, <1>3, <1>4, <2>1 DEF SpawnWorker, humanVars
  <1>5. ASSUME NEW k \in Providers, SpawnOverviewAgent(k)
        PROVE  BlockedHumanHasRequest'
    <2>1. Overview \in Agents
      BY <1>1 DEF Overview, Agents
    <2> QED BY <1>2, <1>3, <1>5, <2>1 DEF SpawnOverviewAgent, humanVars
  <1>6. CASE SpawnWorktreeFails
    BY <1>6, NobodyNew DEF SpawnWorktreeFails, humanVars
  <1>7. ASSUME NEW id \in Agents, NEW k \in Providers, NEW st \in RestoreStatuses,
               NEW t \in Tasks \cup {NoTask}, RestoreSlot(id, k, st, t)
        PROVE  BlockedHumanHasRequest'
    <2> DEFINE s == WithTask([NewSlot(id, k) EXCEPT !.status = st], t)
    <2>1. st \in Statuses
      BY StatusFacts DEF RestoreStatuses, Tags, SlotKinds
    <2>2. s \in Slots /\ s.status = st
      BY <2>1 DEF WithTask, NewSlot, Slots
    <2>3. /\ slots' = IF id = Overview THEN InFront(s, slots) ELSE Append(slots, s)
          /\ queue' = queue
      BY <1>7 DEF RestoreSlot, humanVars
    <2> HIDE DEF s
    <2>4. s.status.kind # "BlockedForDecision"
      BY <2>2, KindFacts
    <2> QED BY <1>2, <2>2, <2>3, <2>4
  <1>8. ASSUME NEW p \in DOMAIN slots, StopAgent(p)
        PROVE  BlockedHumanHasRequest'
    <2>1. StoppedBy("user requested").kind # "BlockedForDecision"
      BY KindFacts DEF Tags
    <2> QED BY <1>8, <2>1, OtherStatus DEF StopAgent, humanVars
  <1>9. ASSUME NEW p \in DOMAIN slots, RemoveAgent(p)
        PROVE  BlockedHumanHasRequest'
    <2>1. \A k \in DOMAIN slots' : \E m \in DOMAIN slots : slots'[k] = slots[m]
      <3>1. p \in 1..Len(slots) /\ Len(slots) - 1 \in Nat
        BY <1>1
      <3>2. slots' = [k \in 1..(Len(slots) - 1) |-> IF k < p THEN slots[k] ELSE slots[k + 1]]
        BY <1>9 DEF RemoveAgent, WithoutPos
      <3>3. \A k \in 1..(Len(slots) - 1) : k \in DOMAIN slots /\ k + 1 \in DOMAIN slots
        BY <1>1, <3>1
      <3> QED BY <3>2, <3>3
    <2> QED BY <1>9, <2>1, NobodyNew DEF RemoveAgent, humanVars
  <1>10. ASSUME NEW p \in DOMAIN slots, FocusByIndex(p)
         PROVE  BlockedHumanHasRequest'
    BY <1>10, NobodyNew DEF FocusByIndex, humanVars
  <1>11. ASSUME NEW p \in DOMAIN slots, PauseAgent(p) \/ ResumeAgent(p) \/ StartProvider(p)
         PROVE  BlockedHumanHasRequest'
    <2>1. PICK t \in {Idle, Responding, Tagged("Paused", "worktree preserved")} :
              slots' = [slots EXCEPT ![p].status = t] /\ queue' = queue
      BY <1>11 DEF PauseAgent, ResumeAgent, StartProvider, humanVars
    <2> QED BY <2>1, KindFacts, OtherStatus
  <1>12. ASSUME NEW p \in DOMAIN slots, NEW t \in LoopTargets, LoopStep(p, t)
         PROVE  BlockedHumanHasRequest'
    BY <1>12, KindFacts, OtherStatus DEF LoopStep, humanVars
  <1> QED BY <1>4, <1>5, <1>6, <1>7, <1>8, <1>9, <1>10, <1>11, <1>12 DEF LifecycleStep

\* Taking or finishing a task changes no status.
LEMMA TaskAwaits ==
    ASSUME PoolInv, BlockedHumanHasRequest, TaskStep
    PROVE  BlockedHumanHasRequest'
  <1>1. slots \in Seq(Slots) /\ \A k \in DOMAIN slots : slots[k] \in Slots
    BY SlotFacts DEF PoolInv, TypeOK
  <1>2. ASSUME NEW p \in DOMAIN slots, NEW t, slots' = [slots EXCEPT ![p].task = t], queue' = queue
        PROVE  BlockedHumanHasRequest'
    <2>1. /\ DOMAIN slots' = DOMAIN slots
          /\ slots'[p] = [slots[p] EXCEPT !.task = t]
          /\ \A k \in DOMAIN slots : k # p => slots'[k] = slots[k]
      BY <1>1, <1>2
    <2>2. slots'[p].status = slots[p].status /\ slots'[p].id = slots[p].id
      BY <1>1, <2>1 DEF Slots
    <2>3. \A k \in DOMAIN slots : slots'[k].status = slots[k].status /\ slots'[k].id = slots[k].id
      BY <2>1, <2>2
    <2>4. \A k \in DOMAIN slots' : AwaitsHuman(slots'[k]) =>
              slots[k].id = slots'[k].id /\ AwaitsHuman(slots[k])
      BY <2>1, <2>3 DEF AwaitsHuman
    <2> QED BY <1>2, <2>1, <2>4, NobodyNew
  <1>3. ASSUME NEW p \in DOMAIN slots, NEW t \in Tasks, AssignTaskWithBacklog(p, t)
        PROVE  BlockedHumanHasRequest'
    BY <1>2, <1>3 DEF AssignTaskWithBacklog, humanVars
  <1>4. ASSUME NEW p \in DOMAIN slots, NEW ok \in BOOLEAN, CompleteTask(p, ok)
        PROVE  BlockedHumanHasRequest'
    <2>1. slots' = [slots EXCEPT ![p].task = NoTask] /\ queue' = queue
      BY <1>4 DEF CompleteTask, humanVars, ClearTask
    <2> QED BY <1>2, <2>1
  <1>5. ASSUME NEW p \in DOMAIN slots, NEW t \in Tasks, AssignTask(p, t)
        PROVE  BlockedHumanHasRequest'
    BY <1>2, <1>5 DEF AssignTask, humanVars
  <1> QED BY <1>3, <1>4, <1>5 DEF TaskStep, AutoAssignTask
-----------------------------------------------------------------------------
\* Completing a request leaves the requests of the other agents.
LEMMA CompleteOthers ==
    ASSUME QueueOK, raised \in Nat, NEW l \in Levels, NEW p \in DOMAIN queue.lanes[l],
           NEW a, HasRequest(queue, a), a # queue.lanes[l][p].agent
    PROVE  HasRequest(Complete(queue, queue.lanes[l][p].id), a)
  <1> DEFINE id == queue.lanes[l][p].id
  <1>1. Sound(queue, Agents, raised) /\ Indexed(queue, id)
    BY EntryFacts DEF QueueOK, Indexed
  <1>2. PICK k \in Levels : \E m \in DOMAIN queue.lanes[k] :
            queue.lanes[k][m].id = id /\ Complete(queue, id) = RemoveEntry(queue, k, m)
    BY <1>1, CompleteFacts
  <1>3. PICK m \in DOMAIN queue.lanes[k] :
            queue.lanes[k][m].id = id /\ Complete(queue, id) = RemoveEntry(queue, k, m)
    BY <1>2
  <1>4. k = l
    BY <1>1, <1>3, EntryFacts
  <1>5. m = p
    BY <1>1, <1>3, <1>4, EntriesDiffer
  <1>6. PICK r \in Requests(queue) : r.agent = a
    BY DEF HasRequest
  <1>7. r # queue.lanes[k][m]
    BY <1>4, <1>5, <1>6
  <1>8. r \in Requests(RemoveEntry(queue, k, m))
    BY <1>1, <1>7, RemoveRequests
  <1> QED BY <1>3, <1>6, <1>8 DEF HasRequest

\* An indexed id means that the queue is not empty, so there is a head.
LEMMA HeadFacts ==
    ASSUME QueueOK, raised \in Nat, NEW id, Indexed(queue, id)
    PROVE  \E l \in Levels : /\ 1 \in DOMAIN queue.lanes[l]
                             /\ Peek(queue) = queue.lanes[l][1]
  <1>1. Sound(queue, Agents, raised)
    BY DEF QueueOK
  <1>2. ~IsEmpty(queue)
    <2>1. PICK l \in Levels : \E p \in DOMAIN queue.lanes[l] : queue.lanes[l][p].id = id
      BY <1>1, CompleteFacts
    <2>2. queue.lanes[l] # <<>>
      BY <2>1
    <2> QED BY <2>2 DEF IsEmpty
  <1>3. FirstLane(queue) \in Levels /\ 1 \in DOMAIN queue.lanes[FirstLane(queue)]
    BY <1>1, <1>2, FirstLaneFacts
  <1>4. Peek(queue) = queue.lanes[FirstLane(queue)][1]
    <2>1. queue.lanes[FirstLane(queue)] \in Seq(Reqs(Agents, raised))
      BY <1>1, <1>3, EntryFacts
    <2> QED BY <1>3, <2>1 DEF Peek
  <1> QED BY <1>3, <1>4

LEMMA BlockedAwaits ==
    ASSUME PoolInv, BlockedHumanHasRequest, NEW p \in DOMAIN slots, NEW r \in Reasons,
           NEW withBacklog \in BOOLEAN, ProcessAgentBlocked(p, r, withBacklog)
    PROVE  BlockedHumanHasRequest'
  <1> DEFINE moved == [slots EXCEPT ![p].status = BlockedStatus(r)]
  <1>1. /\ slots \in Seq(Slots) /\ slots[p] \in Slots /\ DOMAIN slots = 1..Len(slots)
        /\ Len(slots) \in Nat /\ \A k \in DOMAIN slots : slots[k] \in Slots
        /\ raised \in Nat /\ Sound(queue, Agents, raised)
    BY SlotFacts, PoolAssumption DEF PoolInv, TypeOK, QueueOK
  <1>2. /\ BlockedStatus(r) \in Statuses /\ ~IsIdle(BlockedStatus(r)) /\ BlockedStatus(r).tag = r
    BY StatusFacts DEF BlockedStatus, Tags, SlotKinds, Tagged, IsIdle
  <1>3. /\ moved = [k \in DOMAIN slots |-> moved[k]]
        /\ moved[p] = [slots[p] EXCEPT !.status = BlockedStatus(r)]
        /\ \A k \in DOMAIN slots : k # p => moved[k] = slots[k]
    BY <1>1
  <1>4. /\ moved[p] \in Slots /\ moved[p].id = slots[p].id /\ moved[p].task = slots[p].task
        /\ moved[p].provider = slots[p].provider /\ moved[p].status = BlockedStatus(r)
    BY <1>1, <1>2, <1>3 DEF Slots
  <1> HIDE DEF moved
  <1>5. \A k \in DOMAIN slots : SameAgent(slots[k], moved[k]) /\ moved[k].task = slots[k].task
    BY <1>1, <1>3, <1>4 DEF SameAgent
  <1>6. moved \in [1..Len(slots) -> Slots]
    BY <1>1, <1>3, <1>5 DEF SameAgent
  <1>7. moved \in Seq(Slots) /\ Len(moved) = Len(slots)
    BY <1>1, <1>6
  <1>8. slots' = IF withBacklog THEN HandleBlockedTask(moved, p) ELSE moved
    BY DEF ProcessAgentBlocked, moved
  <1>9. /\ DOMAIN slots' = DOMAIN slots
        /\ \A k \in DOMAIN slots : slots'[k].status = moved[k].status /\ slots'[k].id = slots[k].id
    <2>1. CASE withBacklog
      <3>1. SameAgents /\ \A k \in DOMAIN slots : slots'[k].status = moved[k].status
        BY <1>2, <1>4, <1>5, <1>7, <1>8, <2>1, HandOver
      <3> QED BY <1>1, <3>1, SlotFacts DEF SameAgents, SameAgent
    <2>2. CASE ~withBacklog
      <3>1. slots' = moved
        BY <1>8, <2>2
      <3> QED BY <1>3, <1>5, <3>1 DEF SameAgent
    <2> QED BY <2>1, <2>2
  <1>10. \A k \in DOMAIN slots : k # p => slots'[k].status = slots[k].status
    BY <1>3, <1>9
  <1>11. CASE r \in HumanReasons
    <2> DEFINE req == [id |-> raised + 1, agent |-> slots[p].id]
    <2>1. queue' = Push(queue, req, Urgency[r])
      BY <1>11 DEF ProcessAgentBlocked
    <2>2. req \in Reqs(Agents, raised + 1) /\ Urgency[r] \in Levels /\ req.agent = slots[p].id
      BY <1>1, <1>11, SlotFacts, PoolAssumption DEF Reqs
    <2> HIDE DEF req
    <2>3. req \in Requests(queue') /\ Requests(queue) \subseteq Requests(queue')
      BY <1>1, <2>1, <2>2, PushRequests
    <2>4. HasRequest(queue', slots[p].id)
      BY <2>2, <2>3 DEF HasRequest
    <2>5. \A a : HasRequest(queue, a) => HasRequest(queue', a)
      BY <2>3 DEF HasRequest
    <2>6. \A k \in DOMAIN slots : AwaitsHuman(slots'[k]) => HasRequest(queue', slots'[k].id)
      <3> SUFFICES ASSUME NEW k \in DOMAIN slots, AwaitsHuman(slots'[k])
                   PROVE  HasRequest(queue', slots'[k].id)
        OBVIOUS
      <3>1. CASE k = p
        BY <1>9, <2>4, <3>1
      <3>2. CASE k # p
        <4>1. AwaitsHuman(slots[k]) /\ slots'[k].id = slots[k].id
          BY <1>9, <1>10, <3>2 DEF AwaitsHuman
        <4> QED BY <2>5, <4>1, BlockedHumanForm
      <3> QED BY <3>1, <3>2
    <2> QED BY <1>9, <2>6 DEF BlockedHumanHasRequest, AwaitsHuman
  <1>12. CASE r \notin HumanReasons
    <2>1. queue' = queue
      BY <1>12 DEF ProcessAgentBlocked, humanVars
    <2>2. ~AwaitsHuman(slots'[p])
      BY <1>2, <1>4, <1>9, <1>12 DEF AwaitsHuman
    <2>3. \A k \in DOMAIN slots' : AwaitsHuman(slots'[k]) =>
              slots[k].id = slots'[k].id /\ AwaitsHuman(slots[k])
      BY <1>9, <1>10, <2>2 DEF AwaitsHuman
    <2> QED BY <1>9, <2>1, <2>3, NobodyNew
  <1> QED BY <1>11, <1>12

LEMMA HumanAwaits ==
    ASSUME PoolInv, BlockedHumanHasRequest, ~AnswerAnyRequest, HumanStep
    PROVE  BlockedHumanHasRequest'
  <1>1. /\ slots \in Seq(Slots) /\ \A p \in DOMAIN slots : slots[p] \in Slots
        /\ raised \in Nat /\ QueueOK /\ Sound(queue, Agents, raised)
    BY SlotFacts, PoolAssumption DEF PoolInv, TypeOK, QueueOK
  <1>2. /\ Idle \in Statuses /\ Responding \in Statuses
        /\ Idle.kind # "BlockedForDecision" /\ Responding.kind # "BlockedForDecision"
    BY StatusFacts, KindFacts
  <1>3. \A s \in Slots : /\ ~AwaitsHuman(Move(s, Idle)) /\ ~AwaitsHuman(Move(s, Responding))
                         /\ Move(s, Idle) \in Slots /\ Move(s, Responding) \in Slots
                         /\ ClearTask(s) \in Slots /\ ClearTask(s).status = s.status
    BY <1>2, MoveAwaits, MoveFacts, ClearTaskFacts DEF SameAgent
  <1>4. \A s \in Slots : /\ \A sel \in Selections : ~AwaitsHuman(ExecuteSelection(Move(s, Responding), sel))
                         /\ ~AwaitsHuman(ExecuteTimeout(s))
                         /\ ~AwaitsHuman(Move(ClearTask(s), Idle))
    <2> TAKE s \in Slots
    <2>1. ASSUME NEW sel \in Selections
          PROVE  ~AwaitsHuman(ExecuteSelection(Move(s, Responding), sel))
      <3> DEFINE u == Move(s, Responding)
      <3>1. u \in Slots /\ ~AwaitsHuman(u) /\ ClearTask(u).status = u.status /\ ~AwaitsHuman(Move(u, Idle))
        BY <1>3
      <3> HIDE DEF u
      <3>2. ~AwaitsHuman(ClearTask(u))
        BY <3>1 DEF AwaitsHuman
      <3>3. ExecuteSelection(u, sel) \in {u, ClearTask(u), Move(u, Idle)}
        BY DEF ExecuteSelection
      <3>4. ~AwaitsHuman(ExecuteSelection(u, sel))
        BY <3>1, <3>2, <3>3
      <3> QED BY <3>4 DEF u
    <2>2. ~AwaitsHuman(ExecuteTimeout(s)) /\ ~AwaitsHuman(Move(ClearTask(s), Idle))
      BY <1>3 DEF ExecuteTimeout
    <2> QED BY <2>1, <2>2
  <1>5. ASSUME NEW p \in DOMAIN slots, NEW r \in Reasons, NEW withBacklog \in BOOLEAN,
               ProcessAgentBlocked(p, r, withBacklog)
        PROVE  BlockedHumanHasRequest'
    BY <1>5, BlockedAwaits
  <1>6. ASSUME NEW id \in 1..MaxRequests, NEW sel \in Selections, ProcessHumanResponse(id, sel)
        PROVE  BlockedHumanHasRequest'
    <2> DEFINE a == Peek(queue).agent
    <2>1. Indexed(queue, id) /\ id = Peek(queue).id /\ queue' = Complete(queue, id)
      BY <1>6 DEF ProcessHumanResponse
    <2>2. PICK l \in Levels : 1 \in DOMAIN queue.lanes[l] /\ Peek(queue) = queue.lanes[l][1]
      BY <1>1, <2>1, HeadFacts
    <2>3. \A b : HasRequest(queue, b) /\ b # a => HasRequest(queue', b)
      BY <1>1, <2>1, <2>2, CompleteOthers
    <2>4. slots' = [p \in DOMAIN slots |->
                      IF /\ slots[p].id = a /\ IsBlocked(slots[p].status)
                         /\ CanTransition(slots[p].status, Responding)
                      THEN ExecuteSelection(Move(slots[p], Responding), sel) ELSE slots[p]]
      BY <1>6 DEF ProcessHumanResponse
    <2> HIDE DEF a
    <2>5. ASSUME NEW p \in DOMAIN slots, AwaitsHuman(slots'[p])
          PROVE  slots'[p] = slots[p] /\ slots[p].id # a
      <3>1. slots'[p] = slots[p]
        BY <1>1, <1>4, <2>4, <2>5
      <3>2. ~(slots[p].id = a /\ IsBlocked(slots[p].status) /\ CanTransition(slots[p].status, Responding))
        BY <1>1, <1>4, <2>4, <2>5
      <3>3. IsBlocked(slots[p].status) /\ CanTransition(slots[p].status, Responding)
        BY <2>5, <3>1 DEF AwaitsHuman, IsBlocked, CanTransition, SlotSuccessors, SlotKinds, Responding, Plain
      <3> QED BY <3>1, <3>2, <3>3
    <2>6. DOMAIN slots' = DOMAIN slots
      BY <2>4
    <2> QED BY <2>3, <2>5, <2>6, StillQueued
  <1>7. ASSUME NEW e \in Expiries(queue), ProcessExpiredRequests(e)
        PROVE  BlockedHumanHasRequest'
    <2>1. queue' = DropExpired(queue, e)
      BY <1>7 DEF ProcessExpiredRequests
    <2>2. slots' = [p \in DOMAIN slots |->
                      IF /\ IsBlocked(slots[p].status)
                         /\ \E r \in Expired(queue, e) : r.agent = slots[p].id
                      THEN ExecuteTimeout(slots[p]) ELSE slots[p]]
      BY <1>7 DEF ProcessExpiredRequests
    <2>3. e \in [Levels -> Nat] /\ \A k \in Levels : e[k] <= Len(queue.lanes[k])
      <3>1. e \in [Levels -> 0..TotalPending(queue)] /\ \A k \in Levels : e[k] <= Len(queue.lanes[k])
        BY DEF Expiries
      <3>2. 0..TotalPending(queue) \subseteq Nat
        OBVIOUS
      <3> QED BY <3>1, <3>2
    <2>4. ASSUME NEW p \in DOMAIN slots, AwaitsHuman(slots'[p])
          PROVE  slots'[p] = slots[p] /\ ~(\E r \in Expired(queue, e) : r.agent = slots[p].id)
      <3>1. slots'[p] = slots[p]
        BY <1>1, <1>4, <2>2, <2>4
      <3>2. IsBlocked(slots[p].status)
        BY <2>4, <3>1 DEF AwaitsHuman, IsBlocked
      <3> QED BY <1>1, <1>4, <2>2, <2>4, <3>1, <3>2
    <2>5. ASSUME NEW p \in DOMAIN slots, AwaitsHuman(slots'[p]), HasRequest(queue, slots[p].id)
          PROVE  HasRequest(queue', slots[p].id)
      <3>1. PICK r \in Requests(queue) : r.agent = slots[p].id
        BY <2>5 DEF HasRequest
      <3>2. r \notin Expired(queue, e)
        BY <2>4, <2>5, <3>1
      <3>3. r \in Requests(queue')
        BY <1>1, <2>1, <2>3, <3>2, DropRequests
      <3> QED BY <3>1, <3>3 DEF HasRequest
    <2>6. DOMAIN slots' = DOMAIN slots
      BY <2>2
    <2> QED BY <2>4, <2>5, <2>6, StillQueued
  <1>8. ASSUME NEW e \in Expiries(queue), ClearAllBlocked(e)
        PROVE  BlockedHumanHasRequest'
    <2>1. slots' = [p \in DOMAIN slots |->
                      IF IsBlocked(slots[p].status) THEN Move(slots[p], Idle) ELSE slots[p]]
      BY <1>8 DEF ClearAllBlocked
    <2>2. \A p \in DOMAIN slots : ~AwaitsHuman(slots'[p])
      BY <1>1, <1>3, <2>1 DEF AwaitsHuman, IsBlocked
    <2> QED BY <2>1, <2>2, StillQueued
  <1>9. ASSUME NEW p \in DOMAIN slots, ClearAgentContext(p)
        PROVE  BlockedHumanHasRequest'
    <2>1. /\ queue' = queue /\ DOMAIN slots' = DOMAIN slots
          /\ slots'[p] = Move(ClearTask(slots[p]), Idle)
          /\ \A k \in DOMAIN slots : k # p => slots'[k] = slots[k]
      BY <1>1, <1>9 DEF ClearAgentContext, humanVars
    <2>2. \A k \in DOMAIN slots' : AwaitsHuman(slots'[k]) => slots'[k] = slots[k]
      BY <1>1, <1>4, <2>1
    <2> QED BY <2>1, <2>2, NobodyNew
  <1>10. CASE ClearAllAgentContexts
    <2>1. slots' = [p \in DOMAIN slots |-> Move(ClearTask(slots[p]), Idle)]
      BY <1>10 DEF ClearAllAgentContexts
    <2>2. \A p \in DOMAIN slots : ~AwaitsHuman(slots'[p])
      BY <1>1, <1>4, <2>1
    <2> QED BY <2>1, <2>2, StillQueued
  <1> QED BY <1>5, <1>6, <1>7, <1>8, <1>9, <1>10 DEF HumanStep

LEMMA ExecuteAwaits ==
    ASSUME PoolInv, BlockedHumanHasRequest, exec.left > 0, ExecuteAction
    PROVE  BlockedHumanHasRequest'
  <1>1. /\ slots \in Seq(Slots) /\ exec.pos \in DOMAIN slots /\ Target \in Slots
        /\ raised \in Nat /\ QueueOK /\ Sound(queue, Agents, raised)
    BY SlotFacts, PoolAssumption DEF PoolInv, PoolShape, TypeOK, Target, QueueOK
  <1>2. ASSUME NEW s, NEW v, ActionDone(s, v)
        PROVE  /\ DOMAIN slots' = DOMAIN slots /\ slots'[exec.pos] = s /\ queue' = v
               /\ \A k \in DOMAIN slots : k # exec.pos => slots'[k] = slots[k]
    BY <1>1, <1>2 DEF ActionDone
  <1>3. ASSUME NEW s, ActionDone(s, queue), s.id = Target.id,
               AwaitsHuman(s) => AwaitsHuman(Target)
        PROVE  BlockedHumanHasRequest'
    <2>1. \A k \in DOMAIN slots : AwaitsHuman(slots'[k]) =>
              slots[k].id = slots'[k].id /\ AwaitsHuman(slots[k])
      BY <1>1, <1>2, <1>3 DEF Target
    <2> QED BY <1>2, <1>3, <2>1, NobodyNew
  <1>4. /\ Idle \in Statuses /\ Idle.kind # "BlockedForDecision"
        /\ StoppedBy("all tasks complete") \in Statuses
        /\ StoppedBy("all tasks complete").kind # "BlockedForDecision"
    BY StatusFacts, KindFacts DEF Tags
  <1>5. /\ Move(Target, Idle) \in Slots /\ Move(Target, Idle).id = Target.id
        /\ ~AwaitsHuman(Move(Target, Idle))
    BY <1>1, <1>4, MoveFacts, MoveAwaits DEF SameAgent
  <1>6. /\ IfBlockedIdle(Target) \in Slots /\ IfBlockedIdle(Target).id = Target.id
        /\ AwaitsHuman(IfBlockedIdle(Target)) => AwaitsHuman(Target)
    BY <1>1, <1>5 DEF IfBlockedIdle
  <1>7. CASE AnswerOwnRequest
    <2>1. CASE HasRequest(queue, Target.id)
      <3> DEFINE l == LaneOf(queue, Target.id)
                 p == PosOf(queue.lanes[l], Target.id)
                 id == queue.lanes[l][p].id
      <3>1. l \in Levels /\ p \in DOMAIN queue.lanes[l] /\ queue.lanes[l][p].agent = Target.id
        BY <1>1, <2>1, FindFacts
      <3>2. ActionDone(Move(Target, Idle), Complete(queue, id))
        BY <1>7, <2>1 DEF AnswerOwnRequest, FindByAgent
      <3> HIDE DEF l, p
      <3>3. \A b : HasRequest(queue, b) /\ b # Target.id => HasRequest(Complete(queue, id), b)
        BY <1>1, <3>1, CompleteOthers
      <3>4. ASSUME NEW k \in DOMAIN slots, AwaitsHuman(slots'[k])
            PROVE  slots'[k] = slots[k] /\ slots[k].id # Target.id
        <4>1. k # exec.pos /\ slots'[k] = slots[k]
          BY <1>2, <1>5, <3>2, <3>4
        <4> QED BY <1>1, <4>1 DEF PoolInv, PoolShape, Target
      <3> QED BY <1>2, <3>2, <3>3, <3>4, StillQueued
    <2>2. CASE ~HasRequest(queue, Target.id)
      BY <1>3, <1>7, <2>2 DEF AnswerOwnRequest
    <2> QED BY <2>1, <2>2
  <1>8. CASE ContinueOrReflect
    BY <1>3, <1>6, <1>8 DEF ContinueOrReflect
  <1>9. CASE Retry
    <2>1. ActionDone(Target, queue) \/ ActionDone(IfBlockedIdle(Target), queue)
      BY <1>9 DEF Retry
    <2> QED BY <1>3, <1>6, <2>1
  <1>10. CASE ConfirmCompletion
    <2> DEFINE s == ClearTask(IfBlockedIdle(Target))
    <2>1. s.id = IfBlockedIdle(Target).id /\ s.status = IfBlockedIdle(Target).status
      BY <1>6, ClearTaskFacts DEF SameAgent
    <2>2. AwaitsHuman(s) => AwaitsHuman(Target)
      BY <1>6, <2>1 DEF AwaitsHuman
    <2>3. ActionDone(s, queue)
      BY <1>10 DEF ConfirmCompletion
    <2> HIDE DEF s
    <2> QED BY <1>3, <1>6, <2>1, <2>2, <2>3
  <1>11. CASE StopIfComplete
    <2> DEFINE s == Move(Target, StoppedBy("all tasks complete"))
    <2>1. s.id = Target.id /\ (AwaitsHuman(s) => AwaitsHuman(Target))
      BY <1>1, <1>4, MoveFacts, MoveAwaits DEF SameAgent
    <2> QED BY <1>3, <1>11, <2>1 DEF StopIfComplete
  <1>12. CASE ActionDone(Target, queue)
    BY <1>3, <1>12
  <1> QED BY <1>7, <1>8, <1>9, <1>10, <1>11, <1>12
          DEF ExecuteAction, RequestHuman, CustomInstruction, ContinueAllTasks, PrepareTaskStart

\* For every pool in which humans answer the request that process_human_response
\* looks at, the head of the queue: an agent blocked on a human always has a
\* request in the queue, through expiry, clears, decision outputs and removals.
THEOREM HumanRequestKept ==
    ASSUME ~AnswerAnyRequest
    PROVE  Spec => []BlockedHumanHasRequest
  <1>1. Init => BlockedHumanHasRequest
    BY DEF Init, BlockedHumanHasRequest
  <1>2. PoolInv /\ BlockedHumanHasRequest /\ [Next]_vars => BlockedHumanHasRequest'
    <2> SUFFICES ASSUME PoolInv, BlockedHumanHasRequest, [Next]_vars
                 PROVE  BlockedHumanHasRequest'
      OBVIOUS
    <2>1. CASE LifecycleStep \/ TaskStep \/ HumanStep
      BY <2>1, LifecycleAwaits, TaskAwaits, HumanAwaits
    <2>2. CASE DecisionStep
      <3>1. slots' = slots /\ queue' = queue
        BY <2>2 DEF DecisionStep, SendDecisionRequest, ReceiveDecision, humanVars
      <3> QED BY <3>1, NobodyNew
    <2>3. CASE exec.left > 0 /\ ExecuteAction
      BY <2>3, ExecuteAwaits
    <2>4. CASE UNCHANGED vars
      BY <2>4 DEF vars, BlockedHumanHasRequest
    <2> QED BY <2>1, <2>2, <2>3, <2>4 DEF Next
  <1> QED BY <1>1, <1>2, PoolInvInit, PoolInvStep, PTL DEF Spec
=============================================================================
