--------------------------- MODULE DecisionProofs ---------------------------
(* For every set of agents, situations and providers and for every limit:    *)
(* the sessions, the rate limiter and the arbitrator that the decisions of   *)
(* several agents share (ConcurrentDecisions), the thread, the round and the *)
(* responses of one decision agent (DecisionAgents), and the ticks of a      *)
(* decision tree (DecisionFlow).                                             *)
EXTENDS ConcurrentDecisions, DecisionAgents, DecisionFlow, HumanQueueLemmas,
        FiniteSetTheorems, FunctionTheorems

-----------------------------------------------------------------------------
(* The rate limiter.  What was granted is counted, and an agent is queued once. *)
LimitInv ==
    /\ count \in Nat /\ allowed \in Nat /\ minuteOver \in BOOLEAN
    /\ waiting \in Seq(Deciders)
    /\ allowed <= count /\ count <= RequestsPerMinute
    /\ Distinct(waiting)

\* Those taken from the queue are at most as many as the limit allows.
LEMMA ServedFacts ==
    ASSUME waiting \in Seq(Deciders), NEW a
    PROVE  Served(a) \in 0..Len(waiting) /\ Served(a) <= RequestsPerMinute
  <1> DEFINE most == IF Len(waiting) < RequestsPerMinute THEN Len(waiting) ELSE RequestsPerMinute
             own == {i \in 1..most : waiting[i] = a}
  <1>1. Len(waiting) \in Nat /\ RequestsPerMinute \in Nat
    BY SharedBoundsAssumption
  <1>2. most \in Nat /\ most <= Len(waiting) /\ most <= RequestsPerMinute
    BY <1>1
  <1>3. Served(a) = IF own = {} THEN most ELSE CHOOSE i \in own : TRUE
    BY DEF Served
  <1>4. own # {} => (CHOOSE i \in own : TRUE) \in own
    OBVIOUS
  <1>5. Served(a) \in 0..most
    <2>1. own \subseteq 0..most
      BY <1>2
    <2> HIDE DEF own
    <2>2. CASE own = {}
      BY <1>2, <1>3, <2>2
    <2>3. CASE own # {}
      BY <1>3, <1>4, <2>1, <2>3
    <2> QED BY <2>2, <2>3
  <1> HIDE DEF most
  <1> QED BY <1>1, <1>2, <1>5

LEMMA CheckKeeps ==
    ASSUME LimitInv, NEW a \in Deciders, Check(a)
    PROVE  LimitInv'
  <1> DEFINE base == IF minuteOver THEN 0 ELSE count
             taken == IF minuteOver THEN Served(a) ELSE 0
             rest == SubSeq(waiting, taken + 1, Len(waiting))
             before == IF minuteOver THEN 0 ELSE allowed
  <1>1. /\ count \in Nat /\ allowed \in Nat /\ Len(waiting) \in Nat /\ RequestsPerMinute \in Nat
        /\ RequestsPerMinute # 0
    BY SharedBoundsAssumption DEF LimitInv
  <1>2. Served(a) \in 0..Len(waiting) /\ Served(a) <= RequestsPerMinute
    BY ServedFacts DEF LimitInv
  <1>3. /\ taken \in 0..Len(waiting) /\ base + taken \in Nat /\ base + taken <= RequestsPerMinute
        /\ before \in Nat /\ before <= base + taken
        /\ taken > 0 => before + 1 <= base + taken
    BY <1>1, <1>2 DEF LimitInv
  <1>4. rest \in Seq(Deciders) /\ Len(rest) = Len(waiting) - taken
        /\ \A k \in 1..(Len(waiting) - taken) : rest[k] = waiting[taken + k]
    BY <1>3, DropPrefixFacts DEF LimitInv
  <1>5. /\ minuteOver' = FALSE
        /\ \/ taken > 0 /\ count' = base + taken /\ waiting' = rest /\ allowed' = before + 1
           \/ /\ base + taken < RequestsPerMinute
              /\ count' = base + taken + 1 /\ waiting' = Without(a, rest) /\ allowed' = before + 1
           \/ /\ count' = base + taken
              /\ waiting' = IF In(a, rest) THEN rest ELSE Append(rest, a)
              /\ allowed' = before
    BY DEF Check
  <1> HIDE DEF base, taken, before, rest
  <1>6. Distinct(rest)
    <2> SUFFICES ASSUME NEW i \in 1..Len(rest), NEW j \in 1..Len(rest), i # j
                 PROVE  rest[i] # rest[j]
      BY DEF Distinct
    <2>1. taken + i \in 1..Len(waiting) /\ taken + j \in 1..Len(waiting) /\ taken + i # taken + j
      BY <1>1, <1>3, <1>4
    <2> QED BY <1>4, <2>1 DEF LimitInv, Distinct
  <1>7. Without(a, rest) \in Seq(Deciders) /\ Distinct(Without(a, rest))
    BY <1>4, <1>6, SelectLists, SelectDistinct DEF Without
  <1>8. ~In(a, rest) => Append(rest, a) \in Seq(Deciders) /\ Distinct(Append(rest, a))
    <2> SUFFICES ASSUME ~In(a, rest) PROVE Append(rest, a) \in Seq(Deciders) /\ Distinct(Append(rest, a))
      OBVIOUS
    <2>1. /\ Append(rest, a) \in Seq(Deciders) /\ Len(Append(rest, a)) = Len(rest) + 1
          /\ \A k \in 1..Len(rest) : Append(rest, a)[k] = rest[k]
          /\ Append(rest, a)[Len(rest) + 1] = a
          /\ Len(rest) \in Nat
      BY <1>4
    <2>2. \A k \in 1..(Len(rest) + 1) : k = Len(rest) + 1 \/ k \in 1..Len(rest)
      BY <2>1
    <2>3. \A k \in 1..Len(rest) : rest[k] # a
      BY DEF In
    <2> QED BY <1>6, <2>1, <2>2, <2>3 DEF Distinct
  <1>9. waiting' \in Seq(Deciders) /\ Distinct(waiting')
    BY <1>4, <1>5, <1>6, <1>7, <1>8
  <1>10. count' \in Nat /\ allowed' \in Nat /\ allowed' <= count' /\ count' <= RequestsPerMinute
    BY <1>1, <1>3, <1>5
  <1> QED BY <1>5, <1>9, <1>10, Zenon DEF LimitInv

LEMMA LimitInvStep == LimitInv /\ [LimiterNext]_limiterVars => LimitInv'
  <1> SUFFICES ASSUME LimitInv, [LimiterNext]_limiterVars PROVE LimitInv'
    OBVIOUS
  <1>1. ASSUME NEW a \in Deciders, CancelWaiting(a) PROVE LimitInv'
    <2>1. Without(a, waiting) \in Seq(Deciders) /\ Distinct(Without(a, waiting))
      BY SelectLists, SelectDistinct DEF LimitInv, Without
    <2> QED BY <1>1, <2>1 DEF CancelWaiting, LimitInv
  <1>2. CASE ClearWaiting
    BY <1>2 DEF ClearWaiting, LimitInv, Distinct
  <1>3. CASE MinutePasses
    BY <1>3, Zenon DEF MinutePasses, LimitInv
  <1>4. CASE UNCHANGED limiterVars
    BY <1>4 DEF limiterVars, LimitInv
  <1> QED BY <1>1, <1>2, <1>3, <1>4, CheckKeeps DEF LimiterNext

\* For every limit and every set of agents: DecisionRateLimiter::check grants no more
\* requests in a minute than the limit, those it takes from its queue included, and no
\* agent waits twice.
THEOREM RateIsRespected == LimiterSpec => []RateRespected
  <1>1. LimiterInit => LimitInv
    <2> SUFFICES ASSUME LimiterInit PROVE LimitInv
      OBVIOUS
    <2>1. minuteOver \in BOOLEAN
      BY Zenon DEF LimiterInit
    <2> QED BY <2>1, SharedBoundsAssumption DEF LimiterInit, LimitInv, Distinct
  <1>2. LimitInv => RateRespected
    BY DEF LimitInv, Distinct, RateRespected
  <1> QED BY <1>1, <1>2, LimitInvStep, PTL DEF LimiterSpec

-----------------------------------------------------------------------------
(* The session pool.  Every session has an id of its own; it is idle in the  *)
(* queue of its provider or held by one agent, and what is held and what is  *)
(* idle make up the provider's share together.                               *)
\* A session with the id x lies in a queue of idle sessions.
IdleIn(av, x) == \E p \in Providers : \E i \in 1..Len(av[p]) : av[p][i].id = x

Session == [id : Nat \ {0}, provider : Providers]

SessionTypes ==
    /\ reuse \in BOOLEAN
    /\ available \in [Providers -> Seq(Session)]
    /\ held \in [Deciders -> Session \cup {NoSession}]
    /\ sessionsMade \in Nat

\* An idle session lies in the queue of its provider; n sessions were made.
Home(av, n) == \A p \in Providers : \A i \in 1..Len(av[p]) : av[p][i].provider = p /\ av[p][i].id <= n

\* No session is in two places.
Apart(av) ==
    \A p, q \in Providers : \A i \in 1..Len(av[p]), j \in 1..Len(av[q]) :
        av[p][i].id = av[q][j].id => p = q /\ i = j
AtHome == Home(available, sessionsMade)
OnePlace ==
    /\ Apart(available)
    /\ \A a, b \in Deciders : held[a] # NoSession /\ held[a].id = held[b].id => a = b
    /\ \A a \in Deciders : held[a] # NoSession => held[a].id <= sessionsMade /\ ~IdleIn(available, held[a].id)

RoomForAll ==
    \A p \in Providers : /\ IsFiniteSet(InUse(p))
                         /\ Cardinality(InUse(p)) + Len(available[p]) <= MaxPerProvider

SessionInv == SessionTypes /\ AtHome /\ OnePlace /\ RoomForAll /\ (~reuse => \A p \in Providers : available[p] = <<>>)

\* What is left of a queue: some of its sessions, each once.
LeftOf(r, s) ==
    /\ r \in Seq(Session)
    /\ Len(r) <= Len(s)
    /\ \E g \in [1..Len(r) -> 1..Len(s)] :
         /\ \A i, j \in 1..Len(r) : i # j => g[i] # g[j]
         /\ \A i \in 1..Len(r) : r[i] = s[g[i]]

LEMMA SelectLeft ==
    ASSUME NEW s \in Seq(Session), NEW P
    PROVE  LeftOf(Select(s, P), s)
  <1> DEFINE r == Select(s, P)
  <1>1. PICK g : Lists(r, g, s, P, Len(s))
    BY SelectLists
  <1>2. r \in Seq(Session) /\ Len(r) \in Nat
    BY SelectLists
  <1> HIDE DEF r
  <1>3. \A i, j \in 1..Len(r) : i # j => g[i] # g[j]
    <2> TAKE i, j \in 1..Len(r)
    <2>1. g[i] \in Nat /\ g[j] \in Nat
      BY <1>1 DEF Lists
    <2>2. i < j \/ j < i \/ i = j
      BY <1>2
    <2> QED BY <1>1, <2>1, <2>2 DEF Lists
  <1>4. /\ Len(r) <= Len(s)
        /\ g \in [1..Len(r) -> 1..Len(s)]
        /\ \A i \in 1..Len(r) : r[i] = s[g[i]]
    BY <1>1 DEF Lists
  <1> QED BY <1>2, <1>3, <1>4 DEF LeftOf, r

LEMMA LeftSame ==
    ASSUME NEW s \in Seq(Session)
    PROVE  LeftOf(s, s) /\ LeftOf(<<>>, s)
  <1>1. LeftOf(s, s)
    <2> DEFINE g == [i \in 1..Len(s) |-> i]
    <2>1. g \in [1..Len(s) -> 1..Len(s)]
      OBVIOUS
    <2>2. \A i \in 1..Len(s) : g[i] = i
      OBVIOUS
    <2> HIDE DEF g
    <2>3. Len(s) \in Nat
      OBVIOUS
    <2> QED BY <2>1, <2>2, <2>3 DEF LeftOf
  <1>2. ASSUME NEW r \in Seq(Session), Len(r) = 0 PROVE LeftOf(r, s)
    <2> DEFINE e == [i \in 1..Len(r) |-> s[1]]
               Maps(g) == /\ \A i, j \in 1..Len(r) : i # j => g[i] # g[j]
                          /\ \A i \in 1..Len(r) : r[i] = s[g[i]]
    <2>1. (\A i \in 1..Len(r) : FALSE) /\ Len(s) \in Nat
      BY <1>2
    <2>2. e \in [1..Len(r) -> 1..Len(s)]
      BY <2>1
    <2>3. Maps(e)
      BY <2>1
    <2>4. \E g \in [1..Len(r) -> 1..Len(s)] : Maps(g)
      BY <2>2, <2>3
    <2>5. Len(r) <= Len(s)
      BY <1>2, <2>1
    <2> QED BY <2>4, <2>5 DEF LeftOf
  <1>3. <<>> \in Seq(Session) /\ Len(<<>>) = 0
    OBVIOUS
  <1> QED BY <1>1, <1>2, <1>3

\* The first session that is left leaves the queue.
LEMMA HeadLeaves ==
    ASSUME NEW s \in Seq(Session), NEW r, LeftOf(r, s), r # <<>>
    PROVE  /\ LeftOf(Tail(r), s) /\ Len(Tail(r)) < Len(s)
           /\ \E i \in 1..Len(s) :
                /\ Head(r) = s[i]
                /\ \A k \in 1..Len(Tail(r)) : \E j \in 1..Len(s) : j # i /\ Tail(r)[k] = s[j]
  <1>1. PICK g \in [1..Len(r) -> 1..Len(s)] :
           /\ \A i, j \in 1..Len(r) : i # j => g[i] # g[j]
           /\ \A i \in 1..Len(r) : r[i] = s[g[i]]
    BY DEF LeftOf
  <1>2. r \in Seq(Session) /\ Len(r) \in Nat /\ Len(s) \in Nat /\ Len(r) <= Len(s)
    BY DEF LeftOf
  <1>3. Len(r) # 0
    BY <1>2
  <1> DEFINE t == Tail(r)
             h == [k \in 1..(Len(r) - 1) |-> g[k + 1]]
  <1>4. /\ t \in Seq(Session) /\ Len(t) = Len(r) - 1
        /\ \A k \in 1..(Len(r) - 1) : t[k] = r[k + 1]
        /\ Head(r) = r[1]
    BY <1>2, <1>3
  <1> HIDE DEF t
  <1>5. \A k \in 1..(Len(r) - 1) : k + 1 \in 1..Len(r) /\ k + 1 # 1
    BY <1>2
  <1>6. 1 \in 1..Len(r)
    BY <1>2, <1>3
  <1>7. h \in [1..Len(t) -> 1..Len(s)] /\ \A k \in 1..Len(t) : h[k] = g[k + 1]
    BY <1>1, <1>4, <1>5
  <1> HIDE DEF h
  <1>8. \A i, j \in 1..Len(t) : i # j => h[i] # h[j]
    <2> SUFFICES ASSUME NEW i \in 1..Len(t), NEW j \in 1..Len(t), i # j PROVE h[i] # h[j]
      OBVIOUS
    <2>1. i + 1 \in 1..Len(r) /\ j + 1 \in 1..Len(r) /\ i + 1 # j + 1
      BY <1>2, <1>4
    <2> QED BY <1>1, <1>7, <2>1
  <1>9. \A i \in 1..Len(t) : t[i] = s[h[i]] /\ h[i] # g[1]
    <2> SUFFICES ASSUME NEW i \in 1..Len(t) PROVE t[i] = s[h[i]] /\ h[i] # g[1]
      OBVIOUS
    <2>1. i \in 1..(Len(r) - 1)
      BY <1>4
    <2>2. i + 1 \in 1..Len(r) /\ i + 1 # 1
      BY <1>5, <2>1
    <2>3. t[i] = r[i + 1] /\ h[i] = g[i + 1]
      BY <1>4, <1>7, <2>1
    <2>4. r[i + 1] = s[g[i + 1]]
      BY <1>1, <2>2
    <2>5. g[i + 1] # g[1]
      BY <1>1, <1>6, <2>2
    <2> QED BY <2>3, <2>4, <2>5
  <1>10. Len(t) <= Len(s) /\ Len(t) < Len(s)
    BY <1>2, <1>3, <1>4
  <1>11. LeftOf(t, s)
    BY <1>4, <1>7, <1>8, <1>9, <1>10 DEF LeftOf
  <1>12. \E i \in 1..Len(s) :
                /\ Head(r) = s[i]
                /\ \A k \in 1..Len(t) : \E j \in 1..Len(s) : j # i /\ t[k] = s[j]
    <2>1. g[1] \in 1..Len(s) /\ Head(r) = s[g[1]]
      BY <1>1, <1>4, <1>6
    <2>2. \A k \in 1..Len(t) : h[k] \in 1..Len(s) /\ h[k] # g[1] /\ t[k] = s[h[k]]
      BY <1>7, <1>9
    <2> QED BY <2>1, <2>2
  <1> QED BY <1>10, <1>11, <1>12 DEF t

\* Queues that only lose sessions keep the sessions apart.
LEMMA ThinnedPool ==
    ASSUME SessionInv, available' \in [Providers -> Seq(Session)],
           \A p \in Providers : LeftOf(available'[p], available[p])
    PROVE  /\ Home(available', sessionsMade)
           /\ Apart(available')
           /\ \A x : IdleIn(available', x) => IdleIn(available, x)
           /\ \A p \in Providers : Len(available'[p]) <= Len(available[p])
           /\ ~reuse => \A p \in Providers : available'[p] = <<>>
  <1>1. ASSUME NEW p \in Providers, NEW i \in 1..Len(available'[p])
        PROVE  \E j \in 1..Len(available[p]) : available'[p][i] = available[p][j]
    BY DEF LeftOf
  <1>2. ASSUME NEW p \in Providers, NEW q \in Providers,
               NEW i \in 1..Len(available'[p]), NEW j \in 1..Len(available'[q]),
               available'[p][i].id = available'[q][j].id
        PROVE  p = q /\ i = j
    <2>1. p = q
      <3>1. PICK k \in 1..Len(available[p]) : available'[p][i] = available[p][k]
        BY <1>1
      <3>2. PICK l \in 1..Len(available[q]) : available'[q][j] = available[q][l]
        BY <1>1
      <3> QED BY <1>2, <3>1, <3>2 DEF SessionInv, OnePlace, Apart
    <2>2. PICK g \in [1..Len(available'[p]) -> 1..Len(available[p])] :
             /\ \A m, n \in 1..Len(available'[p]) : m # n => g[m] # g[n]
             /\ \A m \in 1..Len(available'[p]) : available'[p][m] = available[p][g[m]]
      BY DEF LeftOf
    <2>3. g[i] = g[j]
      <3>1. /\ g[i] \in 1..Len(available[p]) /\ g[j] \in 1..Len(available[p])
            /\ available'[p][i] = available[p][g[i]] /\ available'[p][j] = available[p][g[j]]
        BY <2>1, <2>2
      <3> QED BY <1>2, <2>1, <3>1 DEF SessionInv, OnePlace, Apart
    <2> QED BY <2>1, <2>2, <2>3
  <1>3. \A x : IdleIn(available', x) => IdleIn(available, x)
    BY <1>1 DEF IdleIn
  <1>4. \A p \in Providers : Len(available'[p]) <= Len(available[p])
    BY DEF LeftOf
  <1>5. ASSUME ~reuse, NEW p \in Providers PROVE available'[p] = <<>>
    <2>1. available[p] = <<>> /\ Len(available[p]) = 0
      BY <1>5 DEF SessionInv
    <2>2. available'[p] \in Seq(Session) /\ Len(available'[p]) \in Nat
      OBVIOUS
    <2>3. Len(available'[p]) = 0
      BY <1>4, <2>1, <2>2
    <2> QED BY <2>2, <2>3
  <1>6. Home(available', sessionsMade)
    <2> SUFFICES ASSUME NEW p \in Providers, NEW i \in 1..Len(available'[p])
                 PROVE  available'[p][i].provider = p /\ available'[p][i].id <= sessionsMade
      BY DEF Home
    <2>1. PICK j \in 1..Len(available[p]) : available'[p][i] = available[p][j]
      BY <1>1
    <2> QED BY <2>1 DEF SessionInv, AtHome, Home
  <1>7. Apart(available')
    BY <1>2 DEF Apart
  <1> QED BY <1>3, <1>4, <1>5, <1>6, <1>7

LEMMA HeldFacts ==
    ASSUME SessionTypes, NEW a \in Deciders
    PROVE  /\ held[a] = NoSession <=> held[a].id = 0
           /\ held[a] # NoSession => held[a] \in Session /\ held[a].provider \in Providers
  <1>1. held[a] \in Session \cup {NoSession}
    BY DEF SessionTypes
  <1>2. NoSession.id = 0
    BY DEF NoSession
  <1> QED BY <1>1, <1>2 DEF Session

LEMMA TakeCounts ==
    ASSUME SessionInv, NEW a \in Deciders, held[a] = NoSession,
           NEW s \in Session, held' = [held EXCEPT ![a] = s]
    PROVE  /\ held' \in [Deciders -> Session \cup {NoSession}]
           /\ held'[a] = s /\ s # NoSession /\ \A b \in Deciders : b # a => held'[b] = held[b]
           /\ \A q \in Providers : q # s.provider => InUse(q)' = InUse(q)
           /\ IsFiniteSet(InUse(s.provider)')
           /\ Cardinality(InUse(s.provider)') = Cardinality(InUse(s.provider)) + 1
  <1>1. /\ held' \in [Deciders -> Session \cup {NoSession}]
        /\ held'[a] = s /\ \A b \in Deciders : b # a => held'[b] = held[b]
    BY DEF SessionInv, SessionTypes
  <1>2. s # NoSession /\ s.id # 0 /\ held[a].id = 0 /\ s.provider \in Providers
    BY DEF NoSession, Session
  <1>3. \A q \in Providers : q # s.provider => InUse(q)' = InUse(q)
    BY <1>1, <1>2 DEF InUse
  <1>4. InUse(s.provider)' = InUse(s.provider) \cup {a}
    BY <1>1, <1>2 DEF InUse
  <1>5. a \notin InUse(s.provider) /\ IsFiniteSet(InUse(s.provider))
    BY <1>2 DEF InUse, SessionInv, RoomForAll
  <1> QED BY <1>1, <1>2, <1>3, <1>4, <1>5, FS_AddElement

\* An agent without a session takes the first idle one that is fit.
LEMMA ReuseKeeps ==
    ASSUME SessionInv, NEW p \in Providers, NEW a \in Deciders, held[a] = NoSession,
           NEW fit, LeftOf(fit, available[p]), fit # <<>>,
           held' = [held EXCEPT ![a] = Head(fit)],
           available' = [available EXCEPT ![p] = Tail(fit)],
           UNCHANGED <<reuse, sessionsMade>>
    PROVE  SessionInv'
  <1>1. available[p] \in Seq(Session) /\ available \in [Providers -> Seq(Session)]
    BY DEF SessionInv, SessionTypes
  <1>2. /\ LeftOf(Tail(fit), available[p]) /\ Len(Tail(fit)) < Len(available[p])
        /\ Tail(fit) \in Seq(Session)
    <2>1. LeftOf(Tail(fit), available[p]) /\ Len(Tail(fit)) < Len(available[p])
      BY <1>1, HeadLeaves
    <2> QED BY <2>1 DEF LeftOf
  <1>3. PICK i \in 1..Len(available[p]) :
          /\ Head(fit) = available[p][i]
          /\ \A k \in 1..Len(Tail(fit)) : \E j \in 1..Len(available[p]) :
                j # i /\ Tail(fit)[k] = available[p][j]
    BY <1>1, HeadLeaves
  <1> DEFINE s == available[p][i]
  <1>4. s \in Session /\ s.provider = p /\ s.id <= sessionsMade /\ IdleIn(available, s.id)
    BY <1>1 DEF SessionInv, AtHome, Home, IdleIn
  <1>5. /\ available' \in [Providers -> Seq(Session)] /\ available'[p] = Tail(fit)
        /\ \A q \in Providers : q # p => available'[q] = available[q]
        /\ \A q \in Providers : LeftOf(available'[q], available[q])
    BY <1>1, <1>2, LeftSame
  <1> HIDE DEF s
  <1>6. /\ held' \in [Deciders -> Session \cup {NoSession}]
        /\ held'[a] = s /\ s # NoSession /\ \A b \in Deciders : b # a => held'[b] = held[b]
        /\ \A q \in Providers : q # p => InUse(q)' = InUse(q)
        /\ IsFiniteSet(InUse(p)')
        /\ Cardinality(InUse(p)') = Cardinality(InUse(p)) + 1
    <2>1. held' = [held EXCEPT ![a] = s]
      BY <1>3 DEF s
    <2> QED BY <1>4, <2>1, TakeCounts
  <1>0. /\ Home(available', sessionsMade) /\ Apart(available')
        /\ \A x : IdleIn(available', x) => IdleIn(available, x)
        /\ ~reuse => \A q \in Providers : available'[q] = <<>>
    BY <1>5, ThinnedPool
  <1>7. SessionTypes'
    BY <1>5, <1>6 DEF SessionInv, SessionTypes
  <1>8. AtHome'
    BY <1>0 DEF AtHome
  <1>9. ~IdleIn(available', s.id)
    <2> SUFFICES ASSUME NEW q \in Providers, NEW k \in 1..Len(available'[q]),
                        available'[q][k].id = s.id
                 PROVE  FALSE
      BY DEF IdleIn
    <2>1. CASE q = p
      <3>1. PICK j \in 1..Len(available[p]) : j # i /\ available'[p][k] = available[p][j]
        BY <1>3, <1>5, <2>1
      <3> QED BY <2>1, <3>1 DEF SessionInv, OnePlace, Apart, s
    <2>2. CASE q # p
      <3>1. k \in 1..Len(available[q]) /\ available[q][k].id = available[p][i].id
        BY <1>5, <2>2 DEF s
      <3> QED BY <2>2, <3>1 DEF SessionInv, OnePlace, Apart
    <2> QED BY <2>1, <2>2
  <1>10. OnePlace'
    <2>1. \A b \in Deciders : b # a /\ held[b] # NoSession => held[b].id # s.id
      BY <1>4 DEF SessionInv, OnePlace
    <2>2. \A b, c \in Deciders : held'[b] # NoSession /\ held'[b].id = held'[c].id => b = c
      <3> SUFFICES ASSUME NEW b \in Deciders, NEW c \in Deciders, held'[b] # NoSession,
                          held'[b].id = held'[c].id, b # c
                   PROVE  FALSE
        OBVIOUS
      <3>1. CASE b = a
        <4>1. held[c].id = s.id /\ s.id # 0
          BY <1>4, <1>6, <3>1 DEF Session
        <4>2. held[c] # NoSession
          BY <4>1 DEF NoSession
        <4> QED BY <2>1, <3>1, <4>1, <4>2
      <3>2. CASE c = a
        BY <1>6, <2>1, <3>2
      <3>3. CASE b # a /\ c # a
        BY <1>6, <3>3 DEF SessionInv, OnePlace
      <3> QED BY <3>1, <3>2, <3>3
    <2>3. \A b \in Deciders : held'[b] # NoSession => held'[b].id <= sessionsMade' /\ ~IdleIn(available', held'[b].id)
      <3> TAKE b \in Deciders
      <3>1. CASE b = a
        BY <1>4, <1>6, <1>9, <3>1
      <3>2. CASE b # a
        <4>1. held[b] # NoSession => ~IdleIn(available, held[b].id) /\ held[b].id <= sessionsMade
          BY DEF SessionInv, OnePlace
        <4> QED BY <1>0, <1>6, <3>2, <4>1
      <3> QED BY <3>1, <3>2
    <2>4. Apart(available')
      BY <1>0
    <2> QED BY <2>2, <2>3, <2>4 DEF OnePlace
  <1>11. RoomForAll'
    <2>1. /\ \A q \in Providers : /\ IsFiniteSet(InUse(q))
                                  /\ Cardinality(InUse(q)) + Len(available[q]) <= MaxPerProvider
          /\ Cardinality(InUse(p)) \in Nat /\ MaxPerProvider \in Nat
          /\ Len(available[p]) \in Nat /\ Len(available'[p]) \in Nat /\ Len(available'[p]) < Len(available[p])
      BY <1>1, <1>2, <1>5, FS_CardinalityType, SharedBoundsAssumption DEF SessionInv, RoomForAll
    <2>2. ASSUME NEW q \in Providers
          PROVE  IsFiniteSet(InUse(q)') /\ Cardinality(InUse(q)') + Len(available'[q]) <= MaxPerProvider
      <3>1. CASE q = p
        BY <1>6, <2>1, <3>1
      <3>2. CASE q # p
        BY <1>5, <1>6, <2>1, <3>2
      <3> QED BY <3>1, <3>2
    <2> QED BY <2>2 DEF RoomForAll
  <1>12. ~reuse' => \A q \in Providers : available'[q] = <<>>
    BY <1>0
  <1> QED BY <1>7, <1>8, <1>10, <1>11, <1>12 DEF SessionInv

\* A new session is created when none is idle.
LEMMA CreateKeeps ==
    ASSUME SessionInv, NEW p \in Providers, NEW a \in Deciders, held[a] = NoSession,
           Cardinality(InUse(p)) < MaxPerProvider,
           available' = [available EXCEPT ![p] = <<>>],
           sessionsMade' = sessionsMade + 1,
           held' = [held EXCEPT ![a] = [id |-> sessionsMade + 1, provider |-> p]],
           reuse' = reuse
    PROVE  SessionInv'
  <1> DEFINE s == [id |-> sessionsMade + 1, provider |-> p]
  <1>1. available \in [Providers -> Seq(Session)] /\ sessionsMade \in Nat
    BY DEF SessionInv, SessionTypes
  <1>2. s \in Session /\ s.provider = p /\ s.id = sessionsMade + 1
    BY <1>1 DEF Session
  <1>3. /\ available' \in [Providers -> Seq(Session)] /\ available'[p] = <<>>
        /\ \A q \in Providers : q # p => available'[q] = available[q]
        /\ \A q \in Providers : LeftOf(available'[q], available[q])
    BY <1>1, LeftSame
  <1> HIDE DEF s
  <1>4. /\ held' \in [Deciders -> Session \cup {NoSession}]
        /\ held'[a] = s /\ s # NoSession /\ \A b \in Deciders : b # a => held'[b] = held[b]
        /\ \A q \in Providers : q # p => InUse(q)' = InUse(q)
        /\ IsFiniteSet(InUse(p)')
        /\ Cardinality(InUse(p)') = Cardinality(InUse(p)) + 1
    BY <1>2, TakeCounts DEF s
  <1>0. /\ Home(available', sessionsMade) /\ Apart(available')
        /\ \A x : IdleIn(available', x) => IdleIn(available, x)
        /\ ~reuse => \A q \in Providers : available'[q] = <<>>
    BY <1>3, ThinnedPool
  <1>5. SessionTypes'
    BY <1>1, <1>3, <1>4 DEF SessionInv, SessionTypes
  <1>6. \A q \in Providers : \A i \in 1..Len(available'[q]) :
            /\ available'[q][i] \in Session /\ available'[q][i].id \in Nat
            /\ available'[q][i].provider = q /\ available'[q][i].id <= sessionsMade
    <2> SUFFICES ASSUME NEW q \in Providers, NEW i \in 1..Len(available'[q])
                 PROVE  /\ available'[q][i] \in Session /\ available'[q][i].id \in Nat
                        /\ available'[q][i].provider = q /\ available'[q][i].id <= sessionsMade
      OBVIOUS
    <2>1. available'[q] \in Seq(Session)
      BY <1>3
    <2>2. available'[q][i] \in Session
      BY <2>1
    <2> QED BY <1>0, <2>2 DEF Session, Home
  <1>7. AtHome'
    BY <1>1, <1>6 DEF AtHome, Home
  <1>8. OnePlace'
    <2>1. \A b \in Deciders : held[b] # NoSession =>
             held[b].id \in Nat /\ held[b].id <= sessionsMade /\ ~IdleIn(available, held[b].id)
      BY HeldFacts DEF SessionInv, OnePlace, Session
    <2>2. \A b, c \in Deciders : held'[b] # NoSession /\ held'[b].id = held'[c].id => b = c
      <3> SUFFICES ASSUME NEW b \in Deciders, NEW c \in Deciders, held'[b] # NoSession,
                          held'[b].id = held'[c].id, b # c
                   PROVE  FALSE
        OBVIOUS
      <3>1. CASE b = a
        <4>1. held[c].id = sessionsMade + 1
          BY <1>2, <1>4, <3>1
        <4>2. held[c] # NoSession
          BY <1>1, <4>1 DEF NoSession
        <4> QED BY <1>1, <2>1, <4>1, <4>2
      <3>2. CASE c = a
        BY <1>1, <1>2, <1>4, <2>1, <3>2
      <3>3. CASE b # a /\ c # a
        BY <1>4, <3>3 DEF SessionInv, OnePlace
      <3> QED BY <3>1, <3>2, <3>3
    <2>3. ~IdleIn(available', s.id)
      BY <1>1, <1>2, <1>6 DEF IdleIn
    <2>4. \A b \in Deciders : held'[b] # NoSession => held'[b].id <= sessionsMade' /\ ~IdleIn(available', held'[b].id)
      <3> TAKE b \in Deciders
      <3>1. CASE b = a
        BY <1>1, <1>2, <1>4, <2>3, <3>1
      <3>2. CASE b # a
        <4>1. held[b] # NoSession =>
                /\ held[b].id \in Nat /\ held[b].id <= sessionsMade
                /\ ~IdleIn(available, held[b].id)
          BY <2>1
        <4>2. held[b] # NoSession => held[b].id <= sessionsMade' /\ ~IdleIn(available', held[b].id)
          <5>1. ASSUME held[b] # NoSession PROVE held[b].id <= sessionsMade'
            <6> DEFINE x == held[b].id
            <6>1. x \in Nat /\ x <= sessionsMade
              BY <4>1, <5>1
            <6> HIDE DEF x
            <6>2. x <= sessionsMade'
              BY <1>1, <6>1
            <6> QED BY <6>2 DEF x
          <5>2. held[b] # NoSession => ~IdleIn(available', held[b].id)
            BY <1>0, <4>1
          <5> QED BY <5>1, <5>2
        <4> QED BY <1>4, <3>2, <4>2
      <3> QED BY <3>1, <3>2
    <2>5. Apart(available')
      BY <1>0
    <2> QED BY <2>2, <2>4, <2>5 DEF OnePlace
  <1>9. RoomForAll'
    <2>1. /\ \A q \in Providers : /\ IsFiniteSet(InUse(q))
                                  /\ Cardinality(InUse(q)) + Len(available[q]) <= MaxPerProvider
          /\ Cardinality(InUse(p)) \in Nat /\ MaxPerProvider \in Nat /\ Len(available'[p]) = 0
      BY <1>3, FS_CardinalityType, SharedBoundsAssumption DEF SessionInv, RoomForAll
    <2>2. ASSUME NEW q \in Providers
          PROVE  IsFiniteSet(InUse(q)') /\ Cardinality(InUse(q)') + Len(available'[q]) <= MaxPerProvider
      <3>1. CASE q = p
        BY <1>4, <2>1, <3>1
      <3>2. CASE q # p
        BY <1>3, <1>4, <2>1, <3>2
      <3> QED BY <3>1, <3>2
    <2> QED BY <2>2 DEF RoomForAll
  <1>10. ~reuse' => \A q \in Providers : available'[q] = <<>>
    BY <1>0
  <1> QED BY <1>5, <1>7, <1>8, <1>9, <1>10 DEF SessionInv

\* Sessions that expire or are forgotten.
LEMMA FewerKeeps ==
    ASSUME SessionInv, available' \in [Providers -> Seq(Session)],
           \A p \in Providers : LeftOf(available'[p], available[p]),
           held' = held \/ held' = [a \in Deciders |-> NoSession],
           UNCHANGED <<reuse, sessionsMade>>
    PROVE  SessionInv'
  <1>1. /\ Home(available', sessionsMade) /\ Apart(available')
        /\ \A x : IdleIn(available', x) => IdleIn(available, x)
        /\ \A p \in Providers : Len(available'[p]) <= Len(available[p])
        /\ ~reuse => \A p \in Providers : available'[p] = <<>>
    BY ThinnedPool
  <1>2. held' \in [Deciders -> Session \cup {NoSession}]
        /\ \A a \in Deciders : held'[a] # NoSession => held' = held
    BY DEF SessionInv, SessionTypes
  <1>3. SessionTypes'
    BY <1>2 DEF SessionInv, SessionTypes
  <1>4. OnePlace'
    <2>1. \A a, b \in Deciders : held'[a] # NoSession /\ held'[a].id = held'[b].id => a = b
      BY <1>2 DEF SessionInv, OnePlace
    <2>2. \A a \in Deciders : held'[a] # NoSession =>
             held'[a].id <= sessionsMade' /\ ~IdleIn(available', held'[a].id)
      BY <1>1, <1>2 DEF SessionInv, OnePlace
    <2> QED BY <1>1, <2>1, <2>2 DEF OnePlace
  <1>5. RoomForAll'
    <2> SUFFICES ASSUME NEW p \in Providers
                 PROVE  IsFiniteSet(InUse(p)') /\ Cardinality(InUse(p)') + Len(available'[p]) <= MaxPerProvider
      BY DEF RoomForAll
    <2>1. /\ IsFiniteSet(InUse(p)) /\ Cardinality(InUse(p)) \in Nat
          /\ Cardinality(InUse(p)) + Len(available[p]) <= MaxPerProvider
          /\ MaxPerProvider \in Nat
      BY FS_CardinalityType, SharedBoundsAssumption DEF SessionInv, RoomForAll
    <2>2. available[p] \in Seq(Session) /\ available'[p] \in Seq(Session)
      BY DEF SessionInv, SessionTypes
    <2>3. Len(available[p]) \in Nat /\ Len(available'[p]) \in Nat /\ Len(available'[p]) <= Len(available[p])
      BY <1>1, <2>2
    <2>4. CASE held' = held
      <3>1. InUse(p)' = InUse(p)
        BY <2>4 DEF InUse
      <3> QED BY <2>1, <2>3, <3>1
    <2>5. CASE held' = [a \in Deciders |-> NoSession]
      <3>1. InUse(p)' = {}
        BY <2>5 DEF InUse, NoSession
      <3>2. IsFiniteSet(InUse(p)') /\ Cardinality(InUse(p)') = 0
        BY <3>1, FS_EmptySet
      <3> QED BY <2>1, <2>3, <3>2
    <2> QED BY <2>4, <2>5
  <1> QED BY <1>1, <1>3, <1>4, <1>5 DEF SessionInv, AtHome

LEMMA ReleaseKeeps ==
    ASSUME SessionInv, NEW a \in Deciders, Release(a)
    PROVE  SessionInv'
  <1> DEFINE s == held[a]
  <1>0. PICK p \in Providers : p = held[a].provider
    BY HeldFacts DEF SessionInv, Release
  <1>1. /\ s # NoSession /\ held' = [held EXCEPT ![a] = NoSession]
        /\ available' = IF reuse /\ Len(available[p]) < MaxPerProvider
                        THEN [available EXCEPT ![p] = Append(@, s)] ELSE available
        /\ UNCHANGED <<reuse, sessionsMade>>
    BY <1>0 DEF Release
  <1>2. /\ s \in Session /\ p \in Providers /\ s.id # 0 /\ s.id <= sessionsMade
        /\ ~IdleIn(available, s.id)
        /\ available \in [Providers -> Seq(Session)]
    BY <1>1, HeldFacts DEF SessionInv, OnePlace, Session, SessionTypes
  <1>3. /\ held' \in [Deciders -> Session \cup {NoSession}]
        /\ held'[a] = NoSession /\ \A b \in Deciders : b # a => held'[b] = held[b]
    BY <1>1 DEF SessionInv, SessionTypes
  <1>4. InUse(p)' = InUse(p) \ {a} /\ a \in InUse(p)
    <2>1. NoSession.id = 0
      BY DEF NoSession
    <2> QED BY <1>2, <1>0, <1>3, <2>1 DEF InUse
  <1>5. \A q \in Providers : q # p => InUse(q)' = InUse(q)
    <2>1. NoSession.id = 0
      BY DEF NoSession
    <2> QED BY <1>2, <1>0, <1>3, <2>1 DEF InUse
  <1>6. \A q \in Providers : IsFiniteSet(InUse(q)) /\ Cardinality(InUse(q)) \in Nat
                             /\ Cardinality(InUse(q)) + Len(available[q]) <= MaxPerProvider
    BY FS_CardinalityType DEF SessionInv, RoomForAll
  <1>7. IsFiniteSet(InUse(p)') /\ Cardinality(InUse(p)') = Cardinality(InUse(p)) - 1
        /\ Cardinality(InUse(p)') \in Nat
    BY <1>2, <1>4, <1>6, FS_RemoveElement, FS_CardinalityType
  <1>8. MaxPerProvider \in Nat /\ \A q \in Providers : Len(available[q]) \in Nat
    BY <1>2, SharedBoundsAssumption
  <1>9. \A b \in Deciders : b # a /\ held[b] # NoSession =>
           /\ held[b].id # s.id /\ held[b].id <= sessionsMade /\ ~IdleIn(available, held[b].id)
    BY <1>1 DEF SessionInv, OnePlace
  <1>10. \A b, c \in Deciders : held'[b] # NoSession /\ held'[b].id = held'[c].id => b = c
    <2> SUFFICES ASSUME NEW b \in Deciders, NEW c \in Deciders, held'[b] # NoSession,
                        held'[b].id = held'[c].id
                 PROVE  b = c
      OBVIOUS
    <2>1. b # a
      BY <1>3
    <2>2. c # a
      <3>1. held[b].id # 0 /\ NoSession.id = 0
        BY <1>3, <2>1, HeldFacts DEF SessionInv, NoSession
      <3> QED BY <1>3, <2>1, <3>1
    <2> QED BY <1>3, <2>1, <2>2 DEF SessionInv, OnePlace
  <1> HIDE DEF s
  <1>11. CASE available' = available
    <2>1. SessionTypes' /\ AtHome'
      BY <1>1, <1>3, <1>11 DEF SessionInv, SessionTypes, AtHome
    <2>2. OnePlace'
      BY <1>1, <1>3, <1>9, <1>10, <1>11 DEF SessionInv, OnePlace
    <2>3. RoomForAll'
      <3> SUFFICES ASSUME NEW q \in Providers
                   PROVE  IsFiniteSet(InUse(q)') /\ Cardinality(InUse(q)') + Len(available'[q]) <= MaxPerProvider
        BY DEF RoomForAll
      <3>1. CASE q = p
        BY <1>6, <1>7, <1>8, <1>11, <3>1
      <3>2. CASE q # p
        BY <1>5, <1>6, <1>11, <3>2
      <3> QED BY <3>1, <3>2
    <2> QED BY <1>1, <1>11, <2>1, <2>2, <2>3 DEF SessionInv
  <1>12. CASE reuse /\ available' = [available EXCEPT ![p] = Append(@, s)]
    <2>1. /\ available' \in [Providers -> Seq(Session)]
          /\ available'[p] = Append(available[p], s)
          /\ \A q \in Providers : q # p => available'[q] = available[q]
      BY <1>2, <1>12
    <2>2. /\ available[p] \in Seq(Session)
          /\ Len(available'[p]) = Len(available[p]) + 1
          /\ available'[p][Len(available[p]) + 1] = s
          /\ \A k \in 1..Len(available[p]) : available'[p][k] = available[p][k]
          /\ \A k \in 1..Len(available'[p]) : k = Len(available[p]) + 1 \/ k \in 1..Len(available[p])
      BY <1>2, <1>8, <2>1
    <2>3. ASSUME NEW q \in Providers, NEW k \in 1..Len(available'[q])
          PROVE  \/ k \in 1..Len(available[q]) /\ available'[q][k] = available[q][k]
                 \/ q = p /\ k = Len(available[p]) + 1 /\ available'[q][k] = s
      BY <2>1, <2>2
    <2>4. AtHome'
      <3>1. s.provider = p
        BY <1>0 DEF s
      <3> QED BY <1>1, <1>2, <2>3, <3>1 DEF SessionInv, AtHome, Home
    <2>5. Apart(available')
      <3> SUFFICES ASSUME NEW q \in Providers, NEW r \in Providers,
                          NEW m \in 1..Len(available'[q]), NEW n \in 1..Len(available'[r]),
                          available'[q][m].id = available'[r][n].id
                   PROVE  q = r /\ m = n
        BY DEF Apart
      <3>1. \A u \in Providers : \A k \in 1..Len(available[u]) : available[u][k].id # s.id
        BY <1>2 DEF IdleIn
      <3>2. Apart(available)
        BY DEF SessionInv, OnePlace
      <3>3. CASE m \in 1..Len(available[q]) /\ available'[q][m] = available[q][m]
        <4>1. ~(available'[r][n] = s)
          BY <3>1, <3>3
        <4>2. n \in 1..Len(available[r]) /\ available'[r][n] = available[r][n]
          BY <2>3, <4>1
        <4> QED BY <3>2, <3>3, <4>2 DEF Apart
      <3>4. CASE q = p /\ m = Len(available[p]) + 1 /\ available'[q][m] = s
        <4>1. ~(n \in 1..Len(available[r]) /\ available'[r][n] = available[r][n])
          BY <3>1, <3>4
        <4>2. r = p /\ n = Len(available[p]) + 1
          BY <2>3, <4>1
        <4> QED BY <3>4, <4>2
      <3> QED BY <2>3, <3>3, <3>4
    <2>6. \A x : IdleIn(available', x) => IdleIn(available, x) \/ x = s.id
      BY <2>3 DEF IdleIn
    <2>7. OnePlace'
      <3>1. \A b \in Deciders : held'[b] # NoSession =>
               held'[b].id <= sessionsMade' /\ ~IdleIn(available', held'[b].id)
        BY <1>1, <1>3, <1>9, <2>6
      <3> QED BY <1>10, <2>5, <3>1 DEF OnePlace
    <2>8. RoomForAll'
      <3> SUFFICES ASSUME NEW q \in Providers
                   PROVE  IsFiniteSet(InUse(q)') /\ Cardinality(InUse(q)') + Len(available'[q]) <= MaxPerProvider
        BY DEF RoomForAll
      <3>1. CASE q = p
        BY <1>6, <1>7, <1>8, <2>2, <3>1
      <3>2. CASE q # p
        BY <1>5, <1>6, <2>1, <3>2
      <3> QED BY <3>1, <3>2
    <2>9. SessionTypes'
      BY <1>1, <1>3, <2>1 DEF SessionInv, SessionTypes
    <2> QED BY <1>1, <1>12, <2>4, <2>7, <2>8, <2>9 DEF SessionInv
  <1> QED BY <1>1, <1>11, <1>12

LEMMA AcquireKeeps ==
    ASSUME SessionInv, NEW p \in Providers, NEW a \in Deciders, Acquire(p, a)
    PROVE  SessionInv'
  <1> DEFINE fit == IF reuse THEN Fit(available[p]) ELSE available[p]
  <1>1. available \in [Providers -> Seq(Session)] /\ available[p] \in Seq(Session)
    BY DEF SessionInv, SessionTypes
  <1>2. LeftOf(fit, available[p]) /\ fit \in Seq(Session)
    <2>1. LeftOf(Fit(available[p]), available[p]) /\ LeftOf(available[p], available[p])
      BY <1>1, SelectLeft, LeftSame DEF Fit
    <2> QED BY ZenonT(40), <2>1 DEF LeftOf
  <1>3. ~reuse => fit = <<>>
    BY DEF SessionInv
  <1>4. held[a] = NoSession /\ reuse' = reuse
    BY DEF Acquire
  <1>5. \/ /\ fit # <<>>
           /\ held' = [held EXCEPT ![a] = Head(fit)]
           /\ available' = [available EXCEPT ![p] = Tail(fit)]
           /\ UNCHANGED sessionsMade
        \/ /\ ~reuse \/ fit = <<>>
           /\ available' = [available EXCEPT ![p] = fit]
           /\ IF Cardinality(InUse(p)) < MaxPerProvider
              THEN /\ sessionsMade' = sessionsMade + 1
                   /\ held' = [held EXCEPT ![a] = [id |-> sessionsMade + 1, provider |-> p]]
              ELSE UNCHANGED <<sessionsMade, held>>
    BY DEF Acquire
  <1> HIDE DEF fit
  <1>6. CASE /\ fit # <<>>
             /\ held' = [held EXCEPT ![a] = Head(fit)]
             /\ available' = [available EXCEPT ![p] = Tail(fit)]
             /\ UNCHANGED sessionsMade
    BY <1>2, <1>4, <1>6, ReuseKeeps
  <1>7. CASE /\ available' = [available EXCEPT ![p] = <<>>]
             /\ Cardinality(InUse(p)) < MaxPerProvider
             /\ sessionsMade' = sessionsMade + 1
             /\ held' = [held EXCEPT ![a] = [id |-> sessionsMade + 1, provider |-> p]]
    BY <1>4, <1>7, CreateKeeps
  <1>8. CASE /\ available' = [available EXCEPT ![p] = <<>>]
             /\ UNCHANGED <<sessionsMade, held>>
    <2>1. available' \in [Providers -> Seq(Session)]
          /\ \A q \in Providers : LeftOf(available'[q], available[q])
      BY <1>1, <1>8, LeftSame
    <2> QED BY <1>4, <1>8, <2>1, FewerKeeps
  <1> QED BY <1>3, <1>5, <1>6, <1>7, <1>8

LEMMA SessionInvStep == SessionInv /\ [PoolNext]_poolVars => SessionInv'
  <1> SUFFICES ASSUME SessionInv, [PoolNext]_poolVars PROVE SessionInv'
    OBVIOUS
  <1>1. /\ available \in [Providers -> Seq(Session)]
        /\ \A p \in Providers : available[p] \in Seq(Session)
        /\ \A p \in Providers : LeftOf(available[p], available[p])
    BY LeftSame DEF SessionInv, SessionTypes
  <1>2. CASE CleanupExpired
    <2>1. /\ \A p \in Providers : LeftOf(Fit(available[p]), available[p])
          /\ available' = [p \in Providers |-> Fit(available[p])]
      BY <1>1, <1>2, SelectLeft DEF CleanupExpired, Fit
    <2>2. \A p \in Providers : Fit(available[p]) \in Seq(Session)
      BY <2>1 DEF LeftOf
    <2>3. available' \in [Providers -> Seq(Session)]
          /\ \A p \in Providers : LeftOf(available'[p], available[p])
      BY <2>1, <2>2
    <2> QED BY <1>2, <2>3, FewerKeeps DEF CleanupExpired
  <1>3. CASE ClearSessions
    <2>1. available' \in [Providers -> Seq(Session)]
          /\ \A p \in Providers : LeftOf(available'[p], available[p])
      BY <1>1, <1>3, LeftSame DEF ClearSessions
    <2> QED BY <1>3, <2>1, FewerKeeps DEF ClearSessions
  <1>4. CASE UNCHANGED <<reuse, available, held, sessionsMade>>
    BY <1>1, <1>4, FewerKeeps
  <1> QED BY <1>2, <1>3, <1>4, AcquireKeeps, ReleaseKeeps DEF PoolNext, SessionExpires, poolVars

\* For every set of agents and of providers, and every size of the pool: acquire, which
\* may take over an idle session, release, the expiry of sessions and clear
\* (DecisionSessionPool) never give a session to two agents, never leave one idle that
\* is in use, and keep every provider within max_per_provider.
THEOREM SessionsAreBounded == PoolSpec => []SessionsBounded
  <1>1. PoolInit => SessionInv
    <2> SUFFICES ASSUME PoolInit PROVE SessionInv
      OBVIOUS
    <2>1. /\ reuse \in BOOLEAN /\ available = [p \in Providers |-> <<>>]
          /\ held = [a \in Deciders |-> NoSession] /\ sessionsMade = 0
      BY DEF PoolInit
    <2>2. SessionTypes
      BY <2>1 DEF SessionTypes
    <2>3. AtHome /\ OnePlace
      BY <2>1 DEF AtHome, Home, OnePlace, Apart
    <2>4. \A p \in Providers : InUse(p) = {} /\ Len(available[p]) = 0
      BY <2>1 DEF InUse, NoSession
    <2>5. RoomForAll
      BY SMTT(40), <2>4, FS_EmptySet, SharedBoundsAssumption DEF RoomForAll
    <2> QED BY <2>1, <2>2, <2>3, <2>5 DEF SessionInv
  <1>2. SessionInv => SessionsBounded
    <2> SUFFICES ASSUME SessionInv PROVE SessionsBounded
      OBVIOUS
    <2>1. \A a, b \in Deciders : a # b /\ held[a] # NoSession => held[a] # held[b]
      BY DEF SessionInv, OnePlace
    <2>2. \A a \in Deciders : held[a] # NoSession => ~Idle(held[a].id)
      BY DEF SessionInv, OnePlace, Idle, IdleIn
    <2> QED BY <2>1, <2>2 DEF SessionInv, RoomForAll, SessionsBounded
  <1> QED BY <1>1, <1>2, SessionInvStep, PTL DEF PoolSpec

-----------------------------------------------------------------------------
(* The arbitrator.  A question is in one place: in the queue or with the human. *)
\* As many are selected as there are positions.
LEMMA SelectLen ==
    ASSUME NEW S, NEW s \in Seq(S), NEW P \in SUBSET (1..Len(s))
    PROVE  Len(Select(s, P)) = Cardinality(P)
  <1> DEFINE r == Select(s, P)
             n == Len(r)
  <1>1. PICK g : Lists(r, g, s, P, Len(s))
    BY SelectLists
  <1>2. n \in Nat
    BY SelectLists
  <1>0. Len(s) \in Nat
    OBVIOUS
  <1> HIDE DEF r
  <1>3. g \in [1..n -> P]
    BY <1>1 DEF Lists
  <1>4. \A i, j \in 1..n : g[i] = g[j] => i = j
    <2> SUFFICES ASSUME NEW i \in 1..n, NEW j \in 1..n, g[i] = g[j], i # j PROVE FALSE
      OBVIOUS
    <2>1. g[i] \in Nat /\ g[j] \in Nat
      <3>1. g[i] \in P /\ g[j] \in P
        BY <1>3
      <3>2. \A x \in P : x \in Nat
        BY <1>0
      <3> QED BY <3>1, <3>2
    <2>2. i < j \/ j < i
      BY <1>2
    <2> QED BY <1>1, <2>1, <2>2 DEF Lists
  <1>5. \A t \in P : \E k \in 1..n : g[k] = t
    BY <1>1 DEF Lists
  <1>6. g \in Bijection(1..n, P)
    BY <1>3, <1>4, <1>5, Fun_IsBij
  <1>7. ExistsBijection(1..n, P)
    BY <1>6 DEF ExistsBijection
  <1>8. IsFiniteSet(1..n) /\ Cardinality(1..n) = n
    <2> HIDE DEF n
    <2>1. n \in Int /\ 1 \in Int /\ n >= 0
      BY <1>2
    <2>2. IsFiniteSet(1..n) /\ Cardinality(1..n) = IF 1 > n THEN 0 ELSE n - 1 + 1
      BY <2>1, FS_Interval
    <2> QED BY <2>1, <2>2
  <1>9. Cardinality(P) = n
    BY <1>7, <1>8, FS_Bijection
  <1> QED BY <1>9 DEF r

Asked(id) == \E i \in 1..Len(active) : active[i].id = id

ArbTypes ==
    /\ submitted \in Nat
    /\ active \in Seq(Reqs(Deciders, submitted))
    /\ Sound(queue, Deciders, submitted)

OneOfEach(s) == \A i, j \in 1..Len(s) : s[i].id = s[j].id => i = j

\* A question is put to the human once, and does not wait any more.
AskedOnce ==
    /\ OneOfEach(active)
    /\ \A i \in 1..Len(active) : active[i].id \notin Ids(queue)

\* What NoQuestionLost says.
QuestionsKept ==
    /\ \A id \in 1..submitted : id \in answered \/ id \in Ids(queue) \/ Asked(id)
    /\ Len(active) <= Room
    /\ ~IsEmpty(queue) => Len(active) = Room

ArbInv == ArbTypes /\ AskedOnce /\ (~stray => QuestionsKept)

LEMMA SoundGrows ==
    ASSUME NEW v, NEW A, NEW n \in Nat, Sound(v, A, n)
    PROVE  Sound(v, A, n + 1)
  <1>1. 1..n \subseteq 1..(n + 1)
    OBVIOUS
  <1>2. Reqs(A, n) \subseteq Reqs(A, n + 1)
    BY <1>1 DEF Reqs
  <1>3. v.lanes \in [Levels -> Seq(Reqs(A, n))]
    BY DEF Sound, QueueType, Reqs
  <1>4. \A l \in Levels : v.lanes[l] \in Seq(Reqs(A, n + 1))
    BY <1>2, <1>3, SeqMonotonic
  <1>5. v.lanes \in [Levels -> Seq(Reqs(A, n + 1))]
    BY <1>3, <1>4
  <1> QED BY <1>5 DEF Sound, QueueType, Reqs

LEMMA PopFacts ==
    ASSUME NEW v, NEW A, NEW n \in Nat, Sound(v, A, n), ~IsEmpty(v)
    PROVE  /\ Sound(Pop(v), A, n)
           /\ Peek(v) \in Reqs(A, n) /\ Peek(v).id \in Ids(v)
           /\ Ids(Pop(v)) = Ids(v) \ {Peek(v).id}
  <1> DEFINE l == FirstLane(v)
  <1>1. l \in Levels /\ 1 \in DOMAIN v.lanes[l]
    BY FirstLaneFacts
  <1>2. v.lanes[l] \in Seq(Reqs(A, n)) /\ v.lanes[l][1] \in Reqs(A, n)
    BY <1>1, EntryFacts
  <1>3. Peek(v) = v.lanes[l][1]
    BY <1>1, <1>2 DEF Peek
  <1>4. Peek(v).id \in Ids(v)
    BY <1>1, <1>3 DEF Ids, Requests
  <1> HIDE DEF l
  <1>5. Sound(RemoveEntry(v, l, 1), A, n) /\ Ids(RemoveEntry(v, l, 1)) = Ids(v) \ {v.lanes[l][1].id}
    BY <1>1, RemoveEntrySound
  <1> QED BY <1>2, <1>3, <1>4, <1>5 DEF Pop, l

LEMMA NothingWaits ==
    ASSUME NEW v, IsEmpty(v)
    PROVE  Ids(v) = {}
  BY DEF IsEmpty, Ids, Requests

LEMMA RoomFacts == Room \in Nat /\ Room >= 1
  BY SharedBoundsAssumption DEF Room

LEMMA SubmitKeeps ==
    ASSUME ArbInv, NEW a \in Deciders, NEW l \in {Critical, Low}, Submit(a, l)
    PROVE  ArbInv'
  <1> DEFINE n == submitted
             r == [id |-> submitted + 1, agent |-> a]
             R == Reqs(Deciders, submitted + 1)
  <1>1. /\ submitted' = submitted + 1 /\ submitted' \in Nat /\ submitted \in Nat
        /\ answered' = answered /\ stray' = stray /\ Room' = Room
    BY DEF Submit, ArbInv, ArbTypes, Room
  <1>2. r \in R /\ active \in Seq(R) /\ l \in Levels
    <2>1. 1..submitted \subseteq 1..(submitted + 1)
      BY <1>1
    <2>2. Reqs(Deciders, submitted) \subseteq R
      BY <2>1 DEF Reqs
    <2>3. active \in Seq(R)
      BY <2>2, SeqMonotonic DEF ArbInv, ArbTypes
    <2>4. submitted + 1 \in 1..(submitted + 1)
      BY <1>1
    <2> QED BY <2>3, <2>4 DEF Reqs, Levels, Critical, Low
  <1>3. \A i \in 1..Len(active) : active[i].id \in 1..submitted
    <2>1. \A i \in 1..Len(active) : active[i] \in Reqs(Deciders, submitted)
      BY DEF ArbInv, ArbTypes
    <2> QED BY <2>1 DEF Reqs
  <1>4. \A id \in Ids(queue) : id \in 1..submitted
    <2>1. \A k \in Levels : \A p \in DOMAIN queue.lanes[k] : queue.lanes[k][p].id \in 1..submitted
      BY <1>1, EntryFacts DEF ArbInv, ArbTypes
    <2> QED BY <2>1 DEF Ids, Requests
  <1>5. submitted + 1 \notin 1..submitted /\ Len(active) \in Nat
        /\ \A id \in 1..(submitted + 1) : id = submitted + 1 \/ id \in 1..submitted
    BY <1>1, <1>2
  <1>6. CASE Len(active) < Room /\ active' = Append(active, r) /\ UNCHANGED queue
    <2>1. /\ active' \in Seq(R) /\ Len(active') = Len(active) + 1
          /\ active'[Len(active) + 1] = r /\ \A i \in 1..Len(active) : active'[i] = active[i]
          /\ \A i \in 1..(Len(active) + 1) : i = Len(active) + 1 \/ i \in 1..Len(active)
      BY <1>2, <1>5, <1>6
    <2>2. ArbTypes'
      BY <1>1, <1>6, <2>1, SoundGrows DEF ArbInv, ArbTypes
    <2>3. \A i \in 1..Len(active') : active'[i].id \notin Ids(queue)
      <3>1. r.id \notin Ids(queue)
        BY <1>4, <1>5
      <3> QED BY <2>1, <3>1 DEF ArbInv, AskedOnce, OneOfEach
    <2>4. \A i, j \in 1..Len(active') : active'[i].id = active'[j].id => i = j
      <3>1. r.id = submitted + 1
        OBVIOUS
      <3> HIDE DEF r
      <3>2. \A i \in 1..Len(active) : active[i].id # r.id
        BY <1>3, <1>5, <3>1
      <3> QED BY <2>1, <3>2 DEF ArbInv, AskedOnce, OneOfEach
    <2>5. AskedOnce'
      BY <1>6, <2>3, <2>4 DEF AskedOnce, OneOfEach
    <2>6. ~stray => QuestionsKept'
      <3> SUFFICES ASSUME QuestionsKept PROVE QuestionsKept'
        BY DEF ArbInv
      <3>1. IsEmpty(queue)
        BY <1>5, <1>6, RoomFacts DEF QuestionsKept
      <3>2. \A id \in 1..submitted' : id \in answered' \/ id \in Ids(queue)' \/ Asked(id)'
        <4> SUFFICES ASSUME NEW id \in 1..(submitted + 1)
                     PROVE  id \in answered \/ id \in Ids(queue) \/ \E i \in 1..Len(active') : active'[i].id = id
          BY <1>1, <1>6 DEF Asked
        <4>1. CASE id = submitted + 1
          <5>1. Len(active) + 1 \in 1..Len(active') /\ active'[Len(active) + 1].id = submitted + 1
            BY <1>5, <2>1
          <5> QED BY <4>1, <5>1
        <4>2. CASE id \in 1..submitted
          <5>1. id \in answered \/ id \in Ids(queue) \/ \E i \in 1..Len(active) : active[i].id = id
            BY <4>2 DEF QuestionsKept, Asked
          <5>2. \A i \in 1..Len(active) : i \in 1..Len(active') /\ active'[i] = active[i]
            BY <1>5, <2>1
          <5> QED BY <5>1, <5>2
        <4> QED BY <1>5, <4>1, <4>2
      <3>3. Len(active') <= Room
        BY <1>5, <1>6, <2>1, RoomFacts
      <3> QED BY <1>1, <1>6, <3>1, <3>2, <3>3 DEF QuestionsKept
    <2> QED BY <1>1, <2>2, <2>5, <2>6 DEF ArbInv
  <1>7. CASE ~(Len(active) < Room) /\ queue' = Push(queue, r, l) /\ UNCHANGED active
    <2>1. /\ Sound(queue', Deciders, submitted + 1)
          /\ \A k \in Levels : \A x : InLane(queue', k, x) <=> InLane(queue, k, x) \/ (k = l /\ x = r)
      BY <1>1, <1>2, <1>7, PushSound DEF ArbInv, ArbTypes
    <2>2. \A v : \A id : id \in Ids(v) <=> \E k \in Levels : \E x : InLane(v, k, x) /\ x.id = id
      BY DEF Ids, Requests, InLane
    <2>3. r.id = submitted + 1
      OBVIOUS
    <2> HIDE DEF r
    <2>4. \A id : id \in Ids(queue') <=> id \in Ids(queue) \/ id = submitted + 1
      BY <1>2, <2>1, <2>2, <2>3
    <2>5. ArbTypes'
      BY <1>1, <1>2, <1>7, <2>1 DEF ArbTypes
    <2>6. AskedOnce'
      <3>1. \A i \in 1..Len(active) : active[i].id \notin Ids(queue')
        BY <1>3, <1>5, <2>4 DEF ArbInv, AskedOnce, OneOfEach
      <3> QED BY <1>7, <3>1 DEF ArbInv, AskedOnce, OneOfEach
    <2>7. ~stray => QuestionsKept'
      <3> SUFFICES ASSUME QuestionsKept PROVE QuestionsKept'
        BY DEF ArbInv
      <3>1. Len(active) = Room
        BY <1>5, <1>7, RoomFacts DEF QuestionsKept
      <3>2. \A id \in 1..(submitted + 1) : id \in answered \/ id \in Ids(queue') \/ Asked(id)
        BY <1>5, <2>4 DEF QuestionsKept
      <3> QED BY <1>1, <1>7, <3>1, <3>2, RoomFacts DEF QuestionsKept, Asked
    <2> QED BY <1>1, <2>5, <2>6, <2>7 DEF ArbInv
  <1> QED BY <1>6, <1>7 DEF Submit

\* The next question, if one waits.
LEMMA NextFacts ==
    ASSUME NEW v, NEW A, NEW n \in Nat, Sound(v, A, n)
    PROVE  /\ Sound(Popped(v), A, n)
           /\ Next1(v) \in Seq(Reqs(A, n))
           /\ IsEmpty(v) => Next1(v) = <<>> /\ Popped(v) = v
           /\ ~IsEmpty(v) => /\ Next1(v) = <<Peek(v)>> /\ Peek(v) \in Reqs(A, n)
                             /\ Peek(v).id \in Ids(v)
                             /\ Ids(Popped(v)) = Ids(v) \ {Peek(v).id}
  <1>1. CASE IsEmpty(v)
    BY <1>1 DEF Next1, Popped
  <1>2. CASE ~IsEmpty(v)
    <2>1. Next1(v) = <<Peek(v)>> /\ Popped(v) = Pop(v)
      BY <1>2 DEF Next1, Popped
    <2>2. Peek(v) \in Reqs(A, n)
      BY <1>2, PopFacts
    <2> QED BY <1>2, <2>1, <2>2, PopFacts
  <1> QED BY <1>1, <1>2

\* r is s without the one element that has the id.
Trimmed(r, s, id, R) ==
    /\ r \in Seq(R)
    /\ Len(r) = IF \E i \in 1..Len(s) : s[i].id = id THEN Len(s) - 1 ELSE Len(s)
    /\ \A i, j \in 1..Len(r) : r[i].id = r[j].id => i = j
    /\ \A k \in 1..Len(r) : r[k].id # id /\ \E i \in 1..Len(s) : r[k] = s[i]
    /\ \A i \in 1..Len(s) : s[i].id # id => \E k \in 1..Len(r) : r[k] = s[i]

\* What is left of the active questions when the one with the id is answered.
LEMMA NotIdFacts ==
    ASSUME NEW R, NEW s \in Seq(R), NEW id, OneOfEach(s)
    PROVE  Trimmed(NotId(id, s), s, id, R)
  <1> USE DEF OneOfEach
  <1> DEFINE P == {i \in DOMAIN s : s[i].id # id}
             r == Select(s, P)
  <1>1. NotId(id, s) = r
    BY DEF NotId
  <1>2. DOMAIN s = 1..Len(s) /\ Len(s) \in Nat
    OBVIOUS
  <1>3. r \in Seq(R) /\ Len(r) \in Nat
    BY SelectLists
  <1>4. PICK g : Lists(r, g, s, P, Len(s))
    BY SelectLists
  <1>5. Len(r) = Cardinality(P)
    BY <1>2, SelectLen
  <1> HIDE DEF r
  <1>6. Cardinality(P) = IF \E i \in 1..Len(s) : s[i].id = id THEN Len(s) - 1 ELSE Len(s)
    <2>0. IsFiniteSet(1..Len(s)) /\ Cardinality(1..Len(s)) = Len(s)
      <3> DEFINE n == Len(s)
      <3>1. n \in Int /\ 1 \in Int /\ n >= 0
        BY <1>2
      <3> HIDE DEF n
      <3>2. IsFiniteSet(1..n) /\ Cardinality(1..n) = IF 1 > n THEN 0 ELSE n - 1 + 1
        BY <3>1, FS_Interval
      <3>3. IsFiniteSet(1..n) /\ Cardinality(1..n) = n
        BY <3>1, <3>2
      <3> QED BY <3>3 DEF n
    <2>1. CASE \E i \in 1..Len(s) : s[i].id = id
      <3>1. PICK i \in 1..Len(s) : s[i].id = id
        BY <2>1
      <3>2. P = (1..Len(s)) \ {i}
        BY <1>2, <3>1
      <3> QED BY ZenonT(40), <2>0, <2>1, <3>2, FS_RemoveElement
    <2>2. CASE ~ \E i \in 1..Len(s) : s[i].id = id
      <3>1. P = 1..Len(s)
        BY <1>2, <2>2
      <3> QED BY <2>0, <2>2, <3>1
    <2> QED BY <2>1, <2>2
  <1>7. \A k \in 1..Len(r) : /\ g[k] \in 1..Len(s) /\ r[k] = s[g[k]] /\ s[g[k]].id # id
    BY <1>4 DEF Lists
  <1>8. \A i, j \in 1..Len(r) : r[i].id = r[j].id => i = j
    <2> SUFFICES ASSUME NEW i \in 1..Len(r), NEW j \in 1..Len(r), r[i].id = r[j].id, i # j PROVE FALSE
      OBVIOUS
    <2>1. g[i] = g[j] /\ g[i] \in Nat
      BY <1>2, <1>7
    <2>2. i < j \/ j < i
      BY <1>3
    <2> QED BY <1>4, <2>1, <2>2 DEF Lists
  <1>9. \A i \in 1..Len(s) : s[i].id # id => \E k \in 1..Len(r) : r[k] = s[i]
    <2> SUFFICES ASSUME NEW i \in 1..Len(s), s[i].id # id PROVE \E k \in 1..Len(r) : r[k] = s[i]
      OBVIOUS
    <2>1. i \in P
      BY <1>2
    <2>2. PICK k \in 1..Len(r) : g[k] = i
      BY <1>4, <2>1 DEF Lists
    <2> QED BY <1>7, <2>2
  <1> QED BY <1>1, <1>3, <1>5, <1>6, <1>7, <1>8, <1>9 DEF Trimmed

LEMMA AnswerKeeps ==
    ASSUME ArbInv, NEW id \in 1..submitted, CompleteQuestion(id)
    PROVE  ArbInv'
  <1> DEFINE left == IF Indexed(queue, id) THEN Complete(queue, id) ELSE queue
             R == Reqs(Deciders, submitted)
             rest == IF strategy = "Parallel" THEN NotId(id, active) ELSE <<>>
  <1>1. /\ queue' = Popped(left) /\ active' = rest \o Next1(left)
        /\ answered' = answered \cup {id}
        /\ stray' = (stray \/ ~Asked(id))
        /\ submitted' = submitted /\ Room' = Room
        /\ submitted \in Nat /\ active \in Seq(R) /\ Sound(queue, Deciders, submitted)
    <2>1. Next1(left) = <<>> \o Next1(left)
      BY DEF Next1
    <2> QED BY <2>1 DEF CompleteQuestion, Asked, Room, ArbInv, ArbTypes
  <1>2. Sound(left, Deciders, submitted) /\ Ids(left) = Ids(queue) \ {id}
    <2>1. CASE Indexed(queue, id)
      <3>1. PICK k \in Levels : \E p \in DOMAIN queue.lanes[k] :
               queue.lanes[k][p].id = id /\ Complete(queue, id) = RemoveEntry(queue, k, p)
        BY <1>1, <2>1, CompleteFacts
      <3>2. PICK p \in DOMAIN queue.lanes[k] :
               queue.lanes[k][p].id = id /\ Complete(queue, id) = RemoveEntry(queue, k, p)
        BY <3>1
      <3> QED BY <1>1, <2>1, <3>2, RemoveEntrySound
    <2>2. CASE ~Indexed(queue, id)
      <3>1. id \notin Ids(queue)
        BY <1>1, <2>2 DEF Indexed, Sound, IndexedExactly
      <3> QED BY <1>1, <2>2, <3>1
    <2> QED BY <2>1, <2>2
  <1> HIDE DEF left, R
  <1>3. /\ Sound(queue', Deciders, submitted) /\ Next1(left) \in Seq(R)
        /\ IsEmpty(left) => Next1(left) = <<>> /\ queue' = left
        /\ ~IsEmpty(left) => /\ Next1(left) = <<Peek(left)>> /\ Peek(left) \in R
                             /\ Peek(left).id \in Ids(left)
                             /\ Ids(queue') = Ids(left) \ {Peek(left).id}
    BY <1>1, <1>2, NextFacts DEF R
  <1>8. Trimmed(NotId(id, active), active, id, R)
    BY <1>1, NotIdFacts DEF ArbInv, AskedOnce
  <1>4. /\ rest \in Seq(R) /\ Len(rest) \in Nat
        /\ \A i, j \in 1..Len(rest) : rest[i].id = rest[j].id => i = j
        /\ \A k \in 1..Len(rest) : rest[k].id # id /\ \E i \in 1..Len(active) : rest[k] = active[i]
    <2>1. CASE strategy = "Parallel"
      <3>1. rest = NotId(id, active)
        BY <2>1
      <3> HIDE DEF rest
      <3>2. Trimmed(rest, active, id, R)
        BY <1>8, <3>1
      <3>3. rest \in Seq(R) /\ Len(rest) \in Nat
        BY <3>2 DEF Trimmed
      <3> QED BY <3>2, <3>3, Zenon DEF Trimmed
    <2>2. CASE strategy # "Parallel"
      BY <2>2
    <2> QED BY <2>1, <2>2
  <1> HIDE DEF rest
  <1>5. \A k \in 1..Len(rest) : rest[k].id \notin Ids(left)
    BY <1>2, <1>4 DEF ArbInv, AskedOnce, OneOfEach
  <1>6. CASE IsEmpty(left)
    <2>1. active' = rest /\ Ids(queue') = {} /\ Ids(left) = {} /\ IsEmpty(queue')
      BY <1>1, <1>3, <1>4, <1>6, NothingWaits
    <2>2. ArbTypes' /\ AskedOnce'
      BY <1>1, <1>3, <1>4, <2>1 DEF ArbTypes, AskedOnce, OneOfEach, R
    <2>3. ASSUME ~stray' PROVE QuestionsKept'
      <3>0. QuestionsKept /\ Asked(id)
        BY <1>1, <2>3, Zenon DEF ArbInv
      <3>1. QuestionsKept /\ Asked(id) /\ Len(active) <= Room /\ Len(active) \in Nat
        BY <1>1, <3>0 DEF QuestionsKept
      <3>2. \A x \in 1..submitted : x \in answered' \/ \E i \in 1..Len(rest) : rest[i].id = x
        <4> SUFFICES ASSUME NEW x \in 1..submitted, x \notin answered, x # id
                     PROVE  \E i \in 1..Len(rest) : rest[i].id = x
          BY <1>1
        <4>1. x \notin Ids(queue)
          BY <1>2, <2>1
        <4>2. PICK i \in 1..Len(active) : active[i].id = x
          BY <3>1, <4>1 DEF QuestionsKept, Asked
        <4>3. PICK j \in 1..Len(active) : active[j].id = id
          BY <3>1 DEF Asked
        <4>4. CASE strategy = "Parallel"
          <5>2. \E k \in 1..Len(NotId(id, active)) : NotId(id, active)[k] = active[i]
            BY <1>8, <4>2 DEF Trimmed
          <5> QED BY <4>2, <4>4, <5>2 DEF rest
        <4>5. CASE strategy # "Parallel"
          <5>1. Len(active) <= 1
            BY <3>1, <4>5 DEF Room
          <5>2. i = j
            BY <3>1, <5>1
          <5> QED BY <4>2, <4>3, <5>2
        <4> QED BY <4>4, <4>5
      <3>3. Len(rest) <= Room
        <4>1. CASE strategy = "Parallel"
          <5>2. Len(NotId(id, active)) = Len(active) - 1
            BY <1>8, <3>1 DEF Asked, Trimmed
          <5> QED BY <3>1, <4>1, <5>2, RoomFacts DEF rest
        <4>2. CASE strategy # "Parallel"
          BY <4>2, RoomFacts DEF rest
        <4> QED BY <4>1, <4>2
      <3> QED BY <1>1, <2>1, <3>2, <3>3 DEF QuestionsKept, Asked
    <2> QED BY <2>2, <2>3 DEF ArbInv
  <1>7. CASE ~IsEmpty(left)
    <2> DEFINE r == Peek(left)
    <2>1. /\ active' = Append(rest, r) /\ r \in R /\ r.id \in Ids(left)
          /\ Ids(queue') = Ids(left) \ {r.id}
      <3>1. active' = rest \o <<r>> /\ r \in R /\ r.id \in Ids(left) /\ Ids(queue') = Ids(left) \ {r.id}
        BY <1>1, <1>3, <1>7
      <3> HIDE DEF r
      <3>2. rest \o <<r>> = Append(rest, r)
        BY <1>4, <3>1
      <3> QED BY <3>1, <3>2
    <2> HIDE DEF r
    <2>2. /\ active' \in Seq(R) /\ Len(active') = Len(rest) + 1
          /\ active'[Len(rest) + 1] = r /\ \A i \in 1..Len(rest) : active'[i] = rest[i]
          /\ \A i \in 1..(Len(rest) + 1) : i = Len(rest) + 1 \/ i \in 1..Len(rest)
      BY <1>4, <2>1
    <2>3. ArbTypes'
      BY <1>1, <1>3, <2>2 DEF ArbTypes, R
    <2>4. AskedOnce'
      <3>1. \A i \in 1..Len(rest) : rest[i].id # r.id /\ rest[i].id \notin Ids(queue')
        BY <1>5, <2>1
      <3>2. \A i, j \in 1..Len(active') : active'[i].id = active'[j].id => i = j
        BY <1>4, <2>2, <3>1
      <3>3. \A i \in 1..Len(active') : active'[i].id \notin Ids(queue')
        BY <2>1, <2>2, <3>1
      <3> QED BY <3>2, <3>3 DEF AskedOnce, OneOfEach
    <2>5. ASSUME ~stray' PROVE QuestionsKept'
      <3>0. QuestionsKept /\ Asked(id)
        BY <1>1, <2>5, Zenon DEF ArbInv
      <3>1. QuestionsKept /\ Asked(id) /\ Len(active) \in Nat
        BY <1>1, <3>0
      <3>2. PICK j \in 1..Len(active) : active[j].id = id
        BY <3>1 DEF Asked
      <3>3. id \notin Ids(queue) /\ Ids(left) = Ids(queue)
        BY <1>2, <3>2 DEF ArbInv, AskedOnce, OneOfEach
      <3>4. Len(active) = Room
        <4>1. ~IsEmpty(queue)
          BY <2>1, <3>3, NothingWaits
        <4> QED BY <3>1, <4>1 DEF QuestionsKept
      <3>5. Len(rest) = Room - 1
        <4>1. CASE strategy = "Parallel"
          <5>2. Len(NotId(id, active)) = Len(active) - 1
            BY <1>8, <3>1 DEF Asked, Trimmed
          <5> QED BY <3>4, <4>1, <5>2 DEF rest
        <4>2. CASE strategy # "Parallel"
          BY <4>2 DEF rest, Room
        <4> QED BY <4>1, <4>2
      <3>6. Len(active') = Room
        BY <1>4, <2>2, <3>5, RoomFacts
      <3>7. \A x \in 1..submitted : x \in answered' \/ x \in Ids(queue') \/ \E i \in 1..Len(active') : active'[i].id = x
        <4> SUFFICES ASSUME NEW x \in 1..submitted, x \notin answered, x # id, x \notin Ids(queue')
                     PROVE  \E i \in 1..Len(active') : active'[i].id = x
          BY <1>1
        <4>0. Len(rest) + 1 \in 1..Len(active') /\ \A i \in 1..Len(rest) : i \in 1..Len(active')
          BY <1>4, <2>2
        <4>1. CASE x \in Ids(queue)
          BY <2>1, <2>2, <3>3, <4>0, <4>1
        <4>2. CASE x \notin Ids(queue)
          <5>1. PICK i \in 1..Len(active) : active[i].id = x
            BY <3>1, <4>2 DEF QuestionsKept, Asked
          <5>2. CASE strategy = "Parallel"
            <6>2. \E k \in 1..Len(NotId(id, active)) : NotId(id, active)[k] = active[i]
              BY <1>8, <5>1 DEF Trimmed
            <6>3. \E k \in 1..Len(rest) : rest[k] = active[i]
              BY <5>2, <6>2 DEF rest
            <6> QED BY <2>2, <4>0, <5>1, <6>3
          <5>3. CASE strategy # "Parallel"
            <6>1. Len(active) = 1
              BY <3>4, <5>3 DEF Room
            <6>2. i = j
              BY <6>1
            <6> QED BY <3>2, <5>1, <6>2
          <5> QED BY <5>2, <5>3
        <4> QED BY <4>1, <4>2
      <3> QED BY <1>1, <3>6, <3>7, RoomFacts DEF QuestionsKept, Asked
    <2> QED BY <2>3, <2>4, <2>5 DEF ArbInv
  <1> QED BY <1>6, <1>7

\* For every strategy, every number of questions and every set of agents: as long as only
\* questions that are being asked are completed, each one that was submitted to the
\* HumanDecisionArbitrator is answered, queued or being asked, no more are asked than
\* the strategy allows, and none waits while there is room.
THEOREM QuestionsAreKept == ArbiterSpec => []NoQuestionLost
  <1>1. ArbiterInit => ArbInv
    <2> SUFFICES ASSUME ArbiterInit PROVE ArbInv
      OBVIOUS
    <2>1. Sound(queue, Deciders, submitted) /\ IsEmpty(queue)
      <3>1. IsEmpty(EmptyQueue)
        BY DEF IsEmpty, EmptyQueue
      <3> QED BY <3>1, EmptyIsSound DEF ArbiterInit
    <2>2. active = <<>> /\ submitted = 0 /\ Len(active) = 0
      BY DEF ArbiterInit
    <2>3. ArbTypes
      BY <2>1, <2>2 DEF ArbTypes
    <2>4. AskedOnce /\ QuestionsKept
      BY <2>1, <2>2, RoomFacts DEF AskedOnce, OneOfEach, QuestionsKept
    <2> QED BY <2>3, <2>4 DEF ArbInv
  <1>2. ArbInv /\ [ArbiterNext]_arbiterVars => ArbInv'
    <2> SUFFICES ASSUME ArbInv, [ArbiterNext]_arbiterVars PROVE ArbInv'
      OBVIOUS
    <2>1. CASE UNCHANGED arbiterVars
      BY <2>1 DEF arbiterVars, ArbInv, ArbTypes, AskedOnce, OneOfEach, QuestionsKept, Asked, Room
    <2> QED BY <2>1, SubmitKeeps, AnswerKeeps DEF ArbiterNext
  <1>3. ArbInv => NoQuestionLost
    BY DEF ArbInv, QuestionsKept, Asked, NoQuestionLost
  <1> QED BY <1>1, <1>2, <1>3, PTL DEF ArbiterSpec

-----------------------------------------------------------------------------
(* A decision agent.  The request in work, the ones before it and the ones   *)
(* behind it make up what was asked; the round of the slot, or the one pending *)
(* with a decision not yet collected, counts the reflections.                *)
Actions == {"none", "reflect", "confirm_completion", "continue", "other", "fail", "request_human",
            "select_first", "retry", "continue_all_tasks", "custom_instruction"}
Request == [id : Nat, sit : Situations]
Response == [id : Nat, sit : Situations, action : Actions]
Round == 0..MaxReflections
DecisionThread == [gen : Nat, req : Request, round : Round,
                   st : {"deciding", "sending", "panicked"}, action : Actions]
Thinks == IF slot.status = "Thinking" THEN 1 ELSE 0

AgentTypes ==
    /\ slot \in [status : {"None", "Idle", "Thinking"}, round : Round, pending : 0..NoPending]
    /\ generation \in Nat /\ nextId \in Nat
    /\ requests \in Seq(Request) /\ responses \in Seq(Response)
    /\ threads \subseteq DecisionThread /\ \A t \in threads : t.gen <= generation
    /\ asked \in Seq(Nat) /\ collected \in Seq(Response)

\* An agent that thinks has its thread or the response of it, no other has one.
InFlight ==
    \/ slot.status # "Thinking" /\ Current = {} /\ responses = <<>>
    \/ slot.status = "Thinking" /\ responses = <<>> /\ \E t \in threads : Current = {t}
    \/ slot.status = "Thinking" /\ Len(responses) = 1 /\ Current = {}

\* The requests are behind each other on their way: collected, decided, waiting.
OnTheWay ==
    /\ Len(asked) = Len(collected) + Thinks + Len(requests)
    /\ \A i \in 1..Len(collected) : collected[i].id = asked[i]
    /\ \A t \in Current : t.req.id = asked[Len(collected) + 1]
    /\ \A i \in 1..Len(responses) : responses[i].id = asked[Len(collected) + i]
    /\ \A i \in 1..Len(requests) : requests[i].id = asked[Len(collected) + Thinks + i]

Reflects(c) == c.sit = "claims_completion" /\ c.action = "reflect"

\* What a decision makes of round r: it counts a reflection, and goes back
\* only by a reset.
Follows(c, r, p) ==
    /\ p \in Round
    /\ ~Resets(c) => p >= r /\ (Reflects(c) => p >= r + 1 /\ p >= 2)

\* The round of a decision that is not collected yet is pending.
RoundPending ==
    /\ \A t \in Current : /\ t.st # "sending" => t.round = slot.round
                          /\ t.st = "sending" => Follows([sit |-> t.req.sit, action |-> t.action],
                                                         slot.round, slot.pending)
    /\ \A i \in 1..Len(responses) : Follows(responses[i], slot.round, slot.pending)

Reflections(s, i, j) == {k \in i..j : Reflects(s[k])}
Unreset(s, i, j) == \A k \in i..j : ~Resets(s[k])

\* The round of the slot counts the reflections since any point without a
\* reset behind it.
Counted ==
    \A i \in 1..Len(collected) : Unreset(collected, i, Len(collected)) =>
        LET n == Cardinality(Reflections(collected, i, Len(collected)))
        IN  n = 0 \/ n + 1 <= slot.round
Nobody == slot.status = "None" => collected = <<>>

AgentInv == AgentTypes /\ InFlight /\ OnTheWay /\ RoundPending /\ Counted /\ Nobody /\ ReflectionLimit

LEMMA RoundFacts ==
    /\ MaxReflections \in Nat /\ MaxReflections >= 1 /\ NoPending \in Nat
    /\ Round \subseteq 0..NoPending /\ Round \subseteq Nat /\ 0 \in Round
    /\ NoPending \in 0..NoPending /\ NoPending \notin Round
    /\ \A r : r \in Round <=> r \in Nat /\ r <= MaxReflections
  BY MaxReflectionsAssumption DEF Round, NoPending

LEMMA FollowsForm ==
    ASSUME NEW sit, NEW a, NEW r, NEW p
    PROVE  Follows([sit |-> sit, action |-> a], r, p) <=>
             /\ p \in Round
             /\ ~(a \in {"confirm_completion", "continue"} \/ Tier(sit) = "Simple") =>
                  p >= r /\ (sit = "claims_completion" /\ a = "reflect" => p >= r + 1 /\ p >= 2)
  BY DEF Follows, Resets, Reflects

\* An engine counts a reflection and never goes back but by a reset.
LEMMA LlmFollows ==
    ASSUME NEW sit, NEW r \in Round, NEW out \in Outcomes
    PROVE  LET d == LlmDecide(sit, r, out)
           IN  /\ d.action \in Actions /\ Follows([sit |-> sit, action |-> d.action], r, d.round)
               /\ d.action = "fail" => d.round >= r
  <1> DEFINE q == IF sit = "claims_completion" /\ r = 0 THEN 1 ELSE r
  <1>1. q \in Round /\ q >= r /\ (sit = "claims_completion" => q >= 1) /\ r \in Nat /\ q \in Nat
    BY RoundFacts
  <1>2. out \in {"reflect", "confirm_completion", "continue", "other", "fail"}
        /\ {"reflect", "confirm_completion", "continue", "other", "fail", "request_human"} \subseteq Actions
    BY DEF Outcomes, LlmActions, Actions
  <1>3. ASSUME NEW a \in Actions, NEW p \in Round, LlmDecide(sit, r, out) = Decided(a, p),
               a \in {"confirm_completion", "continue"} \/ p >= r,
               sit = "claims_completion" /\ a = "reflect" => p >= r + 1 /\ p >= 2,
               a = "fail" => p >= r
        PROVE  LET d == LlmDecide(sit, r, out)
               IN  /\ d.action \in Actions /\ Follows([sit |-> sit, action |-> d.action], r, d.round)
                   /\ d.action = "fail" => d.round >= r
    <2>1. LlmDecide(sit, r, out).action = a /\ LlmDecide(sit, r, out).round = p
      BY <1>3 DEF Decided
    <2>2. Follows([sit |-> sit, action |-> a], r, p)
      BY <1>3, FollowsForm
    <2> QED BY <1>3, <2>1, <2>2
  <1>4. CASE out = "fail"
    <2>1. LlmDecide(sit, r, out) = Decided("fail", q)
      BY <1>4 DEF LlmDecide
    <2> QED BY <1>1, <1>2, <1>3, <2>1
  <1>5. CASE out = "reflect" /\ sit = "claims_completion"
    <2>1. CASE q >= MaxReflections
      <3>1. LlmDecide(sit, r, out) = Decided("request_human", q)
        BY <1>5, <2>1 DEF LlmDecide
      <3> QED BY <1>1, <1>2, <1>3, <3>1
    <2>2. CASE ~(q >= MaxReflections)
      <3>1. LlmDecide(sit, r, out) = Decided("reflect", q + 1)
        BY <1>5, <2>2 DEF LlmDecide
      <3>2. q + 1 \in Round /\ q + 1 >= r /\ q + 1 >= r + 1 /\ q + 1 >= 2
        BY <1>1, <1>5, <2>2, RoundFacts
      <3> QED BY <1>2, <1>3, <3>1, <3>2
    <2> QED BY <2>1, <2>2
  <1>6. CASE out \in {"confirm_completion", "continue"}
    <2>1. LlmDecide(sit, r, out) = Decided(out, 0)
      BY <1>6 DEF LlmDecide
    <2>2. out \in Actions /\ 0 \in Round /\ out # "fail" /\ out # "reflect"
      BY <1>2, <1>6, RoundFacts
    <2> QED BY <1>3, <1>6, <2>1, <2>2
  <1>7. CASE out = "other"
    <2>1. LlmDecide(sit, r, out) = Decided("other", q)
      BY <1>7 DEF LlmDecide
    <2> QED BY <1>1, <1>2, <1>3, <2>1
  <1>8. CASE out = "reflect" /\ sit # "claims_completion"
    <2>1. LlmDecide(sit, r, out) = Decided("reflect", q)
      BY <1>8 DEF LlmDecide
    <2> QED BY <1>1, <1>2, <1>3, <1>8, <2>1
  <1> QED BY <1>2, <1>4, <1>5, <1>6, <1>7, <1>8

LEMMA TieredFollows ==
    ASSUME NEW sit, NEW r \in Round, NEW first \in Outcomes, NEW second \in Outcomes
    PROVE  LET d == TieredDecide(sit, r, first, second)
           IN  d.action \in Actions /\ Follows([sit |-> sit, action |-> d.action], r, d.round)
  <1>1. CASE Tier(sit) = "Simple"
    <2>1. TieredDecide(sit, r, first, second) = Decided(RuleAction(sit), 0)
      BY <1>1 DEF TieredDecide
    <2>2. RuleAction(sit) \in Actions
      <3>1. CASE sit = "waiting_for_choice"
        BY <3>1 DEF RuleAction, Actions
      <3>2. CASE sit = "rate_limited"
        BY <3>2 DEF RuleAction, Actions
      <3>3. CASE sit = "agent_idle"
        BY <3>3 DEF RuleAction, Actions
      <3>4. CASE sit \notin {"waiting_for_choice", "rate_limited", "agent_idle"}
        BY <3>4 DEF RuleAction, Actions
      <3> QED BY <3>1, <3>2, <3>3, <3>4
    <2>3. /\ TieredDecide(sit, r, first, second).action = RuleAction(sit)
          /\ TieredDecide(sit, r, first, second).round = 0
      BY <2>1 DEF Decided
    <2> QED BY <1>1, <2>2, <2>3, RoundFacts DEF Follows, Resets
  <1>2. CASE Tier(sit) # "Simple"
    <2> DEFINE d == LlmDecide(sit, r, first)
               e == LlmDecide(sit, d.round, second)
    <2>1. /\ d.action \in Actions /\ Follows([sit |-> sit, action |-> d.action], r, d.round)
          /\ d.action = "fail" => d.round >= r
      BY LlmFollows
    <2>2. d.round \in Round
      BY <2>1 DEF Follows
    <2>3. e.action \in Actions /\ Follows([sit |-> sit, action |-> e.action], d.round, e.round)
      BY <2>2, LlmFollows
    <2>4. TieredDecide(sit, r, first, second)
            = IF d.action = "fail" /\ Tier(sit) # "Medium" THEN e ELSE d
      BY <1>2 DEF TieredDecide
    <2> HIDE DEF d, e
    <2>5. CASE d.action = "fail" /\ Tier(sit) # "Medium"
      <3>1. d.round >= r /\ d.round \in Nat /\ r \in Nat
        BY <2>1, <2>2, <2>5, RoundFacts
      <3>2. Follows([sit |-> sit, action |-> e.action], r, e.round)
        BY <2>3, <3>1, RoundFacts DEF Follows
      <3> QED BY <2>3, <2>4, <2>5, <3>2
    <2>6. CASE ~(d.action = "fail" /\ Tier(sit) # "Medium")
      BY <2>1, <2>4, <2>6
    <2> QED BY <2>5, <2>6
  <1> QED BY <1>1, <1>2

LEMMA AgentInvInit == AgentInit => AgentInv
  <1> SUFFICES ASSUME AgentInit PROVE AgentInv
    OBVIOUS
  <1>1. slot.status = "None" /\ slot.round = 0 /\ slot.pending = NoPending /\ slot = Fresh("None")
    BY DEF AgentInit, Fresh
  <1>2. AgentTypes
    BY <1>1, RoundFacts DEF AgentInit, AgentTypes, Fresh
  <1>3. Current = {} /\ Thinks = 0
    BY <1>1 DEF AgentInit, Current, Thinks
  <1> QED BY <1>1, <1>2, <1>3 DEF AgentInit, AgentInv, InFlight, OnTheWay, RoundPending, Counted, Nobody, ReflectionLimit

\* What the invariant says while nothing is in flight.
LEMMA RestFacts ==
    ASSUME AgentInv, slot.status # "Thinking"
    PROVE  Current = {} /\ responses = <<>> /\ Thinks = 0 /\ Len(responses) = 0
  BY DEF AgentInv, InFlight, Thinks

LEMMA SpawnAgentKeeps ==
    ASSUME AgentInv, SpawnDecisionAgent
    PROVE  AgentInv'
  <1>1. /\ slot.status = "None" /\ collected = <<>> /\ slot' = Fresh("Idle")
        /\ slot'.status = "Idle" /\ slot'.round = 0
        /\ generation \in Nat /\ generation' = generation + 1
        /\ UNCHANGED <<requests, responses, threads, asked, collected, nextId>>
    BY DEF SpawnDecisionAgent, Fresh, AgentInv, Nobody, AgentTypes
  <1>2. Current = {} /\ responses = <<>> /\ Thinks = 0
    BY <1>1, RestFacts
  <1>3. AgentTypes'
    <2>1. slot' \in [status : {"None", "Idle", "Thinking"}, round : Round, pending : 0..NoPending]
      BY <1>1, RoundFacts DEF Fresh
    <2>2. \A t \in threads : t.gen \in Nat /\ t.gen <= generation'
      BY <1>1 DEF AgentInv, AgentTypes, DecisionThread
    <2> QED BY <1>1, <2>1, <2>2 DEF AgentInv, AgentTypes
  <1>4. Current' = {}
    <2>1. \A t \in threads : t.gen # generation'
      BY <1>1 DEF AgentInv, AgentTypes, DecisionThread
    <2> QED BY <1>1, <2>1 DEF Current
  <1>5. Thinks' = 0
    BY <1>1 DEF Thinks
  <1>6. InFlight' /\ Nobody'
    BY <1>1, <1>2, <1>4 DEF InFlight, Nobody
  <1>7. OnTheWay'
    BY <1>1, <1>2, <1>4, <1>5 DEF AgentInv, OnTheWay
  <1>8. RoundPending'
    BY <1>1, <1>2, <1>4 DEF RoundPending
  <1>9. Counted' /\ ReflectionLimit'
    BY <1>1 DEF AgentInv, Counted, ReflectionLimit
  <1> QED BY <1>3, <1>6, <1>7, <1>8, <1>9 DEF AgentInv

LEMMA RemoveAgentKeeps ==
    ASSUME AgentInv, RemoveDecisionAgent
    PROVE  AgentInv'
  <1>1. /\ slot' = Fresh("None") /\ slot'.status = "None" /\ slot'.round = 0
        /\ requests' = <<>> /\ responses' = <<>> /\ asked' = <<>> /\ collected' = <<>>
        /\ UNCHANGED <<generation, threads, nextId>>
    BY DEF RemoveDecisionAgent, Fresh
  <1>2. AgentTypes'
    <2>1. slot' \in [status : {"None", "Idle", "Thinking"}, round : Round, pending : 0..NoPending]
      BY <1>1, RoundFacts DEF Fresh
    <2> QED BY <1>1, <2>1 DEF AgentInv, AgentTypes
  <1>3. Current' = {} /\ Thinks' = 0
    BY <1>1 DEF Current, Thinks
  <1> QED BY <1>1, <1>2, <1>3 DEF AgentInv, InFlight, OnTheWay, RoundPending, Counted, Nobody, ReflectionLimit

LEMMA SendRequestKeeps ==
    ASSUME AgentInv, NEW sit \in Situations, SendDecisionRequest(sit)
    PROVE  AgentInv'
  <1> DEFINE q == [id |-> nextId, sit |-> sit]
  <1>1. /\ requests' = Append(requests, q) /\ asked' = Append(asked, nextId)
        /\ nextId' = nextId + 1 /\ slot.status # "None"
        /\ UNCHANGED <<slot, generation, responses, threads, collected>>
    BY DEF SendDecisionRequest
  <1>2. /\ requests \in Seq(Request) /\ asked \in Seq(Nat) /\ nextId \in Nat /\ q \in Request
        /\ collected \in Seq(Response) /\ responses \in Seq(Response)
    BY DEF AgentInv, AgentTypes, Request
  <1>3. AgentTypes'
    BY <1>1, <1>2 DEF AgentInv, AgentTypes
  <1>4. Current' = Current /\ Thinks' = Thinks /\ Thinks \in {0, 1}
    BY <1>1 DEF Current, Thinks
  <1>5. OnTheWay'
    <2>1. /\ Len(asked) = Len(collected) + Thinks + Len(requests)
          /\ Len(collected) \in Nat /\ Len(requests) \in Nat /\ Len(asked) \in Nat
      BY <1>2 DEF AgentInv, OnTheWay
    <2>2. /\ Len(asked') = Len(asked) + 1 /\ Len(requests') = Len(requests) + 1
          /\ \A i \in 1..Len(asked) : asked'[i] = asked[i]
          /\ asked'[Len(asked) + 1] = nextId
          /\ \A i \in 1..Len(requests) : requests'[i] = requests[i]
          /\ requests'[Len(requests) + 1] = q
      BY <1>1, <1>2
    <2>3. Len(asked') = Len(collected') + Thinks' + Len(requests')
      <3>1. Len(collected') = Len(collected) /\ Thinks' = Thinks /\ Thinks \in Nat
        BY <1>1, <1>4
      <3> QED BY <2>1, <2>2, <3>1
    <2>4. \A i \in 1..Len(collected') : collected'[i].id = asked'[i]
      BY <1>1, <1>4, <2>1, <2>2 DEF AgentInv, OnTheWay
    <2>5. \A t \in Current' : t.req.id = asked'[Len(collected') + 1]
      <3>1. Current # {} => Thinks = 1
        BY DEF AgentInv, InFlight, Thinks
      <3>2. \A t \in Current : t.req.id = asked[Len(collected) + 1]
        BY DEF AgentInv, OnTheWay
      <3>3. Thinks = 1 => Len(collected) + 1 \in 1..Len(asked)
        BY <2>1
      <3> QED BY <1>1, <1>4, <2>2, <3>1, <3>2, <3>3
    <2>6. \A i \in 1..Len(responses') : responses'[i].id = asked'[Len(collected') + i]
      <3>1. Len(responses) <= Thinks /\ Len(responses) \in Nat
        <4>1. responses = <<>> \/ (Len(responses) = 1 /\ slot.status = "Thinking")
          BY DEF AgentInv, InFlight
        <4>2. CASE responses = <<>>
          BY <1>4, <4>2
        <4>3. CASE Len(responses) = 1 /\ slot.status = "Thinking"
          BY <4>3 DEF Thinks
        <4> QED BY <4>1, <4>2, <4>3
      <3>2. \A i \in 1..Len(responses) : Len(collected) + i \in 1..Len(asked)
        BY <1>4, <2>1, <3>1
      <3>3. \A i \in 1..Len(responses) : responses[i].id = asked[Len(collected) + i]
        BY DEF AgentInv, OnTheWay
      <3> QED BY <1>1, <2>2, <3>2, <3>3
    <2>7. \A i \in 1..Len(requests') : requests'[i].id = asked'[Len(collected') + Thinks' + i]
      <3> SUFFICES ASSUME NEW i \in 1..(Len(requests) + 1)
                   PROVE  requests'[i].id = asked'[Len(collected) + Thinks + i]
        BY <1>1, <1>4, <2>2
      <3>1. CASE i = Len(requests) + 1
        <4>1. Len(collected) + Thinks + i = Len(asked) + 1
          BY <1>4, <2>1, <3>1
        <4> QED BY <2>2, <3>1, <4>1
      <3>2. CASE i \in 1..Len(requests)
        <4>1. Len(collected) + Thinks + i \in 1..Len(asked)
          BY <1>4, <2>1, <3>2
        <4> QED BY <2>2, <3>2, <4>1 DEF AgentInv, OnTheWay
      <3> QED BY <2>1, <3>1, <3>2
    <2> QED BY <2>3, <2>4, <2>5, <2>6, <2>7 DEF OnTheWay
  <1>6. InFlight' /\ Nobody'
    BY <1>1, <1>4 DEF AgentInv, InFlight, Nobody
  <1>7. RoundPending'
    BY <1>1, <1>4 DEF AgentInv, RoundPending
  <1>8. Counted' /\ ReflectionLimit'
    <2>1. collected' = collected /\ slot' = slot
      BY <1>1
    <2> QED BY <2>1 DEF AgentInv, Counted, ReflectionLimit
  <1> QED BY <1>3, <1>5, <1>6, <1>7, <1>8 DEF AgentInv

\* A thread goes on as u.
LEMMA ThreadGoesOn ==
    ASSUME AgentInv, NEW t \in threads, NEW u, u.gen = t.gen,
           threads' = (threads \ {t}) \cup {u}, generation' = generation,
           slot'.status = slot.status
    PROVE  /\ t \in Current => Current = {t} /\ Current' = {u}
           /\ t \notin Current => Current' = Current
  <1>1. ASSUME t \in Current
        PROVE  Current = {t} /\ Current' = {u}
    <2>1. PICK y \in threads : Current = {y}
      BY <1>1 DEF AgentInv, InFlight
    <2>2. Current = {t}
      BY <1>1, <2>1
    <2>3. \A x \in threads : x.gen = generation /\ slot.status # "None" => x = t
      BY <2>2 DEF Current
    <2>4. t.gen = generation /\ slot.status # "None"
      BY <1>1 DEF Current
    <2>5. Current' = {x \in threads' : x.gen = generation /\ slot.status # "None"}
      BY DEF Current
    <2> QED BY <2>2, <2>3, <2>4, <2>5
  <1>2. ASSUME t \notin Current
        PROVE  Current' = Current
    <2>1. ~(t.gen = generation /\ slot.status # "None")
      BY <1>2 DEF Current
    <2>2. Current' = {x \in threads' : x.gen = generation /\ slot.status # "None"}
      BY DEF Current
    <2> QED BY <2>1, <2>2 DEF Current
  <1> QED BY <1>1, <1>2

LEMMA DecidesKeeps ==
    ASSUME AgentInv, NEW t \in threads, NEW first \in Outcomes, NEW second \in Outcomes,
           ThreadDecides(t, first, second)
    PROVE  AgentInv'
  <1> DEFINE d == TieredDecide(t.req.sit, t.round, first, second)
             u == [t EXCEPT !.st = "sending", !.action = d.action]
  <1>1. t \in DecisionThread /\ t.round \in Round /\ t.req \in Request /\ t.gen <= generation
    BY DEF AgentInv, AgentTypes, DecisionThread
  <1>2. d.action \in Actions /\ Follows([sit |-> t.req.sit, action |-> d.action], t.round, d.round)
    BY <1>1, TieredFollows
  <1>3. d.round \in Round
    BY <1>2 DEF Follows
  <1>4. /\ t.st = "deciding" /\ threads' = (threads \ {t}) \cup {u}
        /\ slot' = IF t.gen = generation /\ slot.status # "None" THEN [slot EXCEPT !.pending = d.round] ELSE slot
        /\ UNCHANGED <<generation, requests, responses, asked, collected, nextId>>
    BY DEF ThreadDecides
  <1> HIDE DEF d
  <1>5. /\ u \in DecisionThread /\ u.gen = t.gen /\ u.req = t.req /\ u.st = "sending"
        /\ u.action = d.action
    BY <1>1, <1>2 DEF DecisionThread
  <1> HIDE DEF u
  <1>6. slot \in [status : {"None", "Idle", "Thinking"}, round : Round, pending : 0..NoPending]
    BY DEF AgentInv, AgentTypes
  <1>7. /\ slot' \in [status : {"None", "Idle", "Thinking"}, round : Round, pending : 0..NoPending]
        /\ slot'.status = slot.status /\ slot'.round = slot.round
    BY <1>3, <1>4, <1>6, RoundFacts
  <1>8. /\ t \in Current => Current = {t} /\ Current' = {u}
        /\ t \notin Current => Current' = Current
    BY <1>4, <1>5, <1>7, ThreadGoesOn
  <1>9. AgentTypes'
    BY <1>1, <1>4, <1>5, <1>7 DEF AgentInv, AgentTypes
  <1>10. Thinks' = Thinks
    BY <1>7 DEF Thinks
  <1>11. InFlight'
    <2>1. CASE t \in Current
      <3>1. u \in threads' /\ Current' = {u} /\ Current # {}
        BY <1>4, <1>8, <2>1
      <3> QED BY <1>4, <1>7, <3>1 DEF AgentInv, InFlight
    <2>2. CASE t \notin Current
      <3>1. \A x \in threads : Current = {x} => x \in threads'
        BY <1>4, <2>2
      <3> QED BY <1>4, <1>7, <1>8, <2>2, <3>1 DEF AgentInv, InFlight
    <2> QED BY <2>1, <2>2
  <1>12. OnTheWay'
    <2>1. \A x \in Current' : \E y \in Current : x.req = y.req
      BY <1>5, <1>8
    <2>2. \A x \in Current' : x.req.id = asked[Len(collected) + 1]
      BY <2>1 DEF AgentInv, OnTheWay
    <2> QED BY <1>4, <1>10, <2>2 DEF AgentInv, OnTheWay
  <1>13. RoundPending'
    <2>1. CASE t \in Current
      <3>1. t.gen = generation /\ slot.status # "None" /\ t.round = slot.round
        BY <1>4, <2>1 DEF Current, AgentInv, RoundPending
      <3>2. slot'.pending = d.round
        BY <1>4, <1>6, <3>1
      <3>3. Follows([sit |-> u.req.sit, action |-> u.action], slot'.round, slot'.pending)
        BY <1>2, <1>5, <1>7, <3>1, <3>2
      <3>4. responses' = <<>>
        BY <1>4, <1>8, <2>1 DEF AgentInv, InFlight
      <3> QED BY <1>5, <1>8, <2>1, <3>3, <3>4 DEF RoundPending
    <2>2. CASE t \notin Current
      <3>1. slot' = slot
        BY <1>4, <2>2 DEF Current
      <3> QED BY <1>4, <1>8, <2>2, <3>1 DEF AgentInv, RoundPending
    <2> QED BY <2>1, <2>2
  <1>14. Counted' /\ ReflectionLimit' /\ Nobody'
    <2>1. collected' = collected
      BY <1>4
    <2>2. Counted'
      BY <1>7, <2>1 DEF AgentInv, Counted
    <2>3. ReflectionLimit'
      BY <2>1 DEF AgentInv, ReflectionLimit
    <2>4. Nobody'
      BY <1>7, <2>1 DEF AgentInv, Nobody
    <2> QED BY <2>2, <2>3, <2>4
  <1> QED BY <1>9, <1>11, <1>12, <1>13, <1>14 DEF AgentInv

LEMMA PanicsKeeps ==
    ASSUME AgentInv, NEW t \in threads, ThreadPanics(t)
    PROVE  AgentInv'
  <1> DEFINE u == [t EXCEPT !.st = "panicked"]
  <1>1. t \in DecisionThread /\ t.gen <= generation
    BY DEF AgentInv, AgentTypes, DecisionThread
  <1>2. /\ t.st = "deciding" /\ threads' = (threads \ {t}) \cup {u}
        /\ UNCHANGED <<slot, generation, requests, responses, asked, collected, nextId>>
    BY DEF ThreadPanics
  <1>3. /\ u \in DecisionThread /\ u.gen = t.gen /\ u.req = t.req /\ u.st = "panicked"
        /\ u.round = t.round
    BY <1>1 DEF DecisionThread
  <1> HIDE DEF u
  <1>4. /\ t \in Current => Current = {t} /\ Current' = {u}
        /\ t \notin Current => Current' = Current
    BY <1>2, <1>3, ThreadGoesOn
  <1>5. AgentTypes'
    BY <1>1, <1>2, <1>3 DEF AgentInv, AgentTypes
  <1>6. Thinks' = Thinks
    BY <1>2 DEF Thinks
  <1>7. InFlight'
    <2>1. CASE t \in Current
      <3>1. u \in threads' /\ Current' = {u} /\ Current # {}
        BY <1>2, <1>4, <2>1
      <3> QED BY <1>2, <3>1 DEF AgentInv, InFlight
    <2>2. CASE t \notin Current
      <3>1. \A x \in threads : Current = {x} => x \in threads'
        BY <1>2, <2>2
      <3> QED BY <1>2, <1>4, <2>2, <3>1 DEF AgentInv, InFlight
    <2> QED BY <2>1, <2>2
  <1>8. OnTheWay'
    <2>1. \A x \in Current' : \E y \in Current : x.req = y.req
      BY <1>3, <1>4
    <2>2. \A x \in Current' : x.req.id = asked[Len(collected) + 1]
      BY <2>1 DEF AgentInv, OnTheWay
    <2> QED BY <1>2, <1>6, <2>2 DEF AgentInv, OnTheWay
  <1>9. RoundPending'
    <2>1. CASE t \in Current
      <3>1. u.round = slot.round
        BY <1>2, <1>3, <2>1 DEF AgentInv, RoundPending
      <3>2. responses' = <<>>
        BY <1>2, <1>4, <2>1 DEF AgentInv, InFlight
      <3> QED BY <1>2, <1>3, <1>4, <2>1, <3>1, <3>2 DEF RoundPending
    <2>2. CASE t \notin Current
      BY <1>2, <1>4, <2>2 DEF AgentInv, RoundPending
    <2> QED BY <2>1, <2>2
  <1>10. Counted' /\ ReflectionLimit' /\ Nobody'
    <2>1. collected' = collected /\ slot' = slot
      BY <1>2
    <2> QED BY <2>1 DEF AgentInv, Counted, ReflectionLimit, Nobody
  <1> QED BY <1>5, <1>7, <1>8, <1>9, <1>10 DEF AgentInv

LEMMA SendsKeeps ==
    ASSUME AgentInv, NEW t \in threads, ThreadSends(t)
    PROVE  AgentInv'
  <1> DEFINE e == [id |-> t.req.id, sit |-> t.req.sit, action |-> t.action]
  <1>1. t \in DecisionThread /\ e \in Response
    BY DEF AgentInv, AgentTypes, DecisionThread, Request, Response
  <1>2. /\ t.st = "sending" /\ threads' = threads \ {t}
        /\ responses' = IF t.gen = generation /\ slot.status # "None" THEN Append(responses, e) ELSE responses
        /\ UNCHANGED <<slot, generation, requests, asked, collected, nextId>>
    BY DEF ThreadSends
  <1>3. e.id = t.req.id /\ e.sit = t.req.sit /\ e.action = t.action
    OBVIOUS
  <1> HIDE DEF e
  <1>4. Thinks' = Thinks
    BY <1>2 DEF Thinks
  <1>5. Current' = Current \ {t}
    BY <1>2 DEF Current
  <1>6. AgentTypes'
    BY <1>1, <1>2 DEF AgentInv, AgentTypes
  <1>7. Counted' /\ ReflectionLimit' /\ Nobody'
    <2>1. collected' = collected /\ slot' = slot
      BY <1>2
    <2> QED BY <2>1 DEF AgentInv, Counted, ReflectionLimit, Nobody
  <1>8. CASE t \in Current
    <2>1. PICK y \in threads : Current = {y} /\ slot.status = "Thinking" /\ responses = <<>>
      BY <1>8 DEF AgentInv, InFlight
    <2>2. Current = {t} /\ Current' = {}
      BY <1>5, <1>8, <2>1
    <2>3. responses' = <<e>> /\ Len(responses') = 1 /\ responses'[1] = e
      <3>1. t.gen = generation /\ slot.status # "None"
        BY <1>8 DEF Current
      <3>2. responses' = Append(<<>>, e)
        BY <1>2, <2>1, <3>1
      <3> QED BY <3>2
    <2>4. InFlight'
      BY <1>2, <2>1, <2>2, <2>3 DEF InFlight
    <2>5. OnTheWay'
      <3>1. e.id = asked[Len(collected) + 1]
        BY <1>3, <1>8 DEF AgentInv, OnTheWay
      <3>2. \A i \in 1..Len(responses') : i = 1
        BY <2>3
      <3>3. \A i \in 1..Len(responses') : responses'[i].id = asked[Len(collected) + i]
        BY <2>3, <3>1, <3>2
      <3> QED BY <1>2, <1>4, <2>2, <3>3 DEF AgentInv, OnTheWay
    <2>6. RoundPending'
      <3>1. Follows([sit |-> t.req.sit, action |-> t.action], slot.round, slot.pending)
        BY <1>2, <1>8 DEF AgentInv, RoundPending
      <3>2. Follows(e, slot.round, slot.pending)
        BY <1>3, <3>1 DEF Follows, Resets, Reflects
      <3>3. \A i \in 1..Len(responses') : responses'[i] = e
        BY <2>3
      <3> QED BY <1>2, <2>2, <3>2, <3>3 DEF RoundPending
    <2> QED BY <1>6, <1>7, <2>4, <2>5, <2>6 DEF AgentInv
  <1>9. CASE t \notin Current
    <2>1. Current' = Current
      BY <1>5, <1>9
    <2>2. responses' = responses
      BY <1>2, <1>9 DEF Current
    <2>3. InFlight'
      <3>1. \A x \in threads : Current = {x} => x \in threads'
        BY <1>2, <1>9
      <3> QED BY <1>2, <2>1, <2>2, <3>1 DEF AgentInv, InFlight
    <2>4. OnTheWay'
      BY <1>2, <1>4, <2>1, <2>2 DEF AgentInv, OnTheWay
    <2>5. RoundPending'
      BY <1>2, <2>1, <2>2 DEF AgentInv, RoundPending
    <2> QED BY <1>6, <1>7, <2>3, <2>4, <2>5 DEF AgentInv
  <1> QED BY <1>8, <1>9

\* The reflections of a window that grows by e.
LEMMA WindowGrows ==
    ASSUME NEW s \in Seq(Response), NEW e \in Response, NEW i \in 1..(Len(s) + 1)
    PROVE  LET R == Reflections(s, i, Len(s))
               Q == Reflections(Append(s, e), i, Len(s) + 1)
           IN  /\ Cardinality(R) \in Nat
               /\ i = Len(s) + 1 => Cardinality(R) = 0
               /\ Cardinality(Q) = Cardinality(R) + IF Reflects(e) THEN 1 ELSE 0
               /\ Unreset(Append(s, e), i, Len(s) + 1) => Unreset(s, i, Len(s)) /\ ~Resets(e)
  <1> DEFINE n == Len(s)
             z == Append(s, e)
             R == Reflections(s, i, n)
             Q == Reflections(z, i, n + 1)
  <1>1. /\ n \in Nat /\ i \in Nat /\ i >= 1 /\ i <= n + 1
        /\ z[n + 1] = e /\ \A k \in 1..n : z[k] = s[k]
    OBVIOUS
  <1> HIDE DEF n, z
  <1>2. IsFiniteSet(R)
    <2>1. IsFiniteSet(i..n)
      <3>1. i \in Int /\ n \in Int
        BY <1>1
      <3> QED BY <3>1, FS_Interval
    <2> QED BY <2>1, FS_Subset DEF Reflections
  <1>3. Cardinality(R) \in Nat
    BY <1>2, FS_CardinalityType
  <1>4. i..(n + 1) = (i..n) \cup {n + 1} /\ n + 1 \notin i..n /\ i..n \subseteq 1..n
    BY <1>1
  <1>5. \A k \in i..n : z[k] = s[k]
    BY <1>1, <1>4
  <1>6. i = n + 1 => Cardinality(R) = 0
    <2>1. i = n + 1 => R = {}
      BY <1>1 DEF Reflections
    <2> QED BY <2>1, FS_EmptySet
  <1>7. Cardinality(Q) = Cardinality(R) + IF Reflects(e) THEN 1 ELSE 0
    <2>1. CASE Reflects(e)
      <3>1. Q = R \cup {n + 1} /\ n + 1 \notin R
        BY <1>1, <1>4, <1>5, <2>1 DEF Reflections
      <3>2. Cardinality(Q) = Cardinality(R) + 1
        BY <1>2, <3>1, FS_AddElement
      <3> QED BY <2>1, <3>2
    <2>2. CASE ~Reflects(e)
      <3>1. Q = R
        BY <1>1, <1>4, <1>5, <2>2 DEF Reflections
      <3> QED BY <1>3, <2>2, <3>1
    <2> QED BY <2>1, <2>2
  <1>8. Unreset(z, i, n + 1) => Unreset(s, i, n) /\ ~Resets(e)
    BY <1>1, <1>4, <1>5 DEF Unreset
  <1> QED BY <1>3, <1>6, <1>7, <1>8 DEF n, z

\* A collected decision moves the round on.
LEMMA CollectCounts ==
    ASSUME AgentInv, NEW e \in Response, collected' = Append(collected, e),
           Follows(e, slot.round, slot'.round)
    PROVE  Counted' /\ ReflectionLimit'
  <1> DEFINE n == Len(collected)
  <1>1. /\ collected \in Seq(Response) /\ n \in Nat /\ Len(collected') = n + 1
        /\ slot.round \in Nat /\ slot'.round \in Nat /\ slot'.round <= MaxReflections
        /\ MaxReflections \in Nat /\ MaxReflections >= 1
        /\ \A k \in 1..n : collected'[k] = collected[k]
    BY RoundFacts DEF AgentInv, AgentTypes, Follows
  <1>2. ASSUME NEW i \in 1..(n + 1), Unreset(collected', i, n + 1)
        PROVE  LET m == Cardinality(Reflections(collected', i, n + 1))
               IN  m \in Nat /\ (m = 0 \/ m + 1 <= slot'.round)
    <2> DEFINE m == Cardinality(Reflections(collected', i, n + 1))
               l == Cardinality(Reflections(collected, i, n))
    <2>1. /\ l \in Nat /\ (i = n + 1 => l = 0) /\ m = l + IF Reflects(e) THEN 1 ELSE 0
          /\ Unreset(collected, i, n) /\ ~Resets(e)
      BY <1>1, <1>2, WindowGrows
    <2>2. l = 0 \/ l + 1 <= slot.round
      <3>1. CASE i = n + 1
        BY <2>1, <3>1
      <3>2. CASE i \in 1..n
        BY <2>1, <3>2 DEF AgentInv, Counted
      <3> QED BY <1>1, <3>1, <3>2
    <2>3. slot'.round >= slot.round /\ (Reflects(e) => slot'.round >= slot.round + 1 /\ slot'.round >= 2)
      BY <2>1 DEF Follows
    <2> HIDE DEF m, l
    <2>4. Reflects(e) => m \in Nat /\ (m = 0 \/ m + 1 <= slot'.round)
      BY SMTT(40), <1>1, <2>1, <2>2, <2>3
    <2>5. ~Reflects(e) => m \in Nat /\ (m = 0 \/ m + 1 <= slot'.round)
      BY <1>1, <2>1, <2>2, <2>3
    <2>6. m \in Nat /\ (m = 0 \/ m + 1 <= slot'.round)
      BY <2>4, <2>5 DEF m
    <2> QED BY <2>6 DEF m
  <1>3. Counted'
    BY <1>1, <1>2 DEF Counted
  <1>4. ReflectionLimit'
    <2> SUFFICES ASSUME NEW i \in 1..(n + 1), NEW j \in 1..(n + 1),
                        \A k \in i..j : ~Resets(collected'[k])
                 PROVE  Cardinality({k \in i..j : /\ collected'[k].sit = "claims_completion"
                                                  /\ collected'[k].action = "reflect"}) <= MaxReflections - 1
      BY <1>1 DEF ReflectionLimit
    <2> DEFINE W == {k \in i..j : /\ collected'[k].sit = "claims_completion"
                                  /\ collected'[k].action = "reflect"}
    <2> SUFFICES Cardinality(W) <= MaxReflections - 1
      OBVIOUS
    <2>1. CASE j = n + 1
      <3>1. W = Reflections(collected', i, n + 1) /\ Unreset(collected', i, n + 1)
        BY <2>1 DEF Reflections, Reflects, Unreset
      <3>2. Cardinality(W) \in Nat /\ (Cardinality(W) = 0 \/ Cardinality(W) + 1 <= slot'.round)
        BY <1>2, <3>1
      <3> HIDE DEF W
      <3> QED BY <1>1, <3>2
    <2>2. CASE j \in 1..n /\ i \in 1..n
      <3>1. \A k \in i..j : k \in 1..n /\ collected'[k] = collected[k]
        BY <1>1, <2>2
      <3>2. W = {k \in i..j : collected[k].sit = "claims_completion" /\ collected[k].action = "reflect"}
            /\ \A k \in i..j : ~Resets(collected[k])
        BY <3>1
      <3> QED BY <2>2, <3>2 DEF AgentInv, ReflectionLimit
    <2>3. CASE j \in 1..n /\ i = n + 1
      <3>1. W = {}
        BY <1>1, <2>3
      <3> HIDE DEF W
      <3>2. Cardinality(W) = 0
        BY <3>1, FS_EmptySet
      <3> QED BY <1>1, <3>2
    <2>4. j = n + 1 \/ (j \in 1..n /\ (i \in 1..n \/ i = n + 1))
      BY <1>1
    <2> QED BY <2>1, <2>2, <2>3, <2>4
  <1> QED BY <1>3, <1>4

LEMMA PollKeeps ==
    ASSUME AgentInv, PollDecisionAgents
    PROVE  AgentInv'
  <1>1. /\ slot \in [status : {"None", "Idle", "Thinking"}, round : Round, pending : 0..NoPending]
        /\ requests \in Seq(Request) /\ responses \in Seq(Response) /\ collected \in Seq(Response)
        /\ asked \in Seq(Nat) /\ generation \in Nat /\ slot.status \in {"Idle", "Thinking"}
        /\ UNCHANGED <<generation, asked, nextId>>
    BY DEF AgentInv, AgentTypes, PollDecisionAgents
  <1>2. CASE slot.status = "Idle"
    <2>1. Current = {} /\ responses = <<>> /\ Thinks = 0
      BY <1>2, RestFacts
    <2> DEFINE u == Thread(Head(requests))
    <2>2. /\ requests # <<>> /\ requests' = Tail(requests) /\ threads' = threads \cup {u}
          /\ slot' = [slot EXCEPT !.status = "Thinking"]
          /\ responses' = <<>>
      BY <1>2, <2>1 DEF PollDecisionAgents, MayStart
    <2>3. collected' = collected
      <3>1. collected' = collected \o <<>>
        BY <2>1 DEF PollDecisionAgents
      <3> QED BY <1>1, <3>1
    <2>4. Head(requests) \in Request /\ Head(requests) = requests[1]
      BY <1>1, <2>2
    <2>5. /\ u \in DecisionThread /\ u.gen = generation /\ u.req = requests[1]
          /\ u.st = "deciding" /\ u.round = slot.round
      BY <1>1, <2>4 DEF Thread, DecisionThread, Actions
    <2> HIDE DEF u
    <2>6. /\ slot' \in [status : {"None", "Idle", "Thinking"}, round : Round, pending : 0..NoPending]
          /\ slot'.status = "Thinking" /\ slot'.round = slot.round
      BY <1>1, <2>2
    <2>7. Thinks' = 1
      BY <2>6 DEF Thinks
    <2>8. Current' = {u}
      <3>1. \A t \in threads : t.gen # generation
        BY <1>2, <2>1 DEF Current
      <3>2. Current' = {t \in threads' : t.gen = generation}
        BY <1>1, <2>6 DEF Current
      <3> QED BY <2>2, <2>5, <3>1, <3>2
    <2>9. /\ requests' \in Seq(Request) /\ Len(requests') = Len(requests) - 1 /\ Len(requests) \in Nat
          /\ Len(requests) >= 1
          /\ \A i \in 1..Len(requests') : requests'[i] = requests[i + 1]
      BY <1>1, <2>2
    <2>10. AgentTypes'
      <3>1. \A t \in threads' : t \in DecisionThread /\ t.gen <= generation
        BY <1>1, <2>2, <2>5 DEF AgentInv, AgentTypes
      <3> QED BY <1>1, <2>2, <2>3, <2>6, <2>9, <3>1 DEF AgentInv, AgentTypes
    <2>11. InFlight' /\ Nobody'
      BY <2>2, <2>6, <2>8 DEF InFlight, Nobody
    <2>12. OnTheWay'
      <3>1. /\ Len(asked) = Len(collected) + Len(requests) /\ Len(collected) \in Nat
            /\ \A i \in 1..Len(requests) : requests[i].id = asked[Len(collected) + i]
        <4>1. /\ Len(asked) = Len(collected) + Thinks + Len(requests)
              /\ \A i \in 1..Len(requests) : requests[i].id = asked[Len(collected) + Thinks + i]
          BY DEF AgentInv, OnTheWay
        <4>2. Len(collected) \in Nat /\ Len(requests) \in Nat
          BY <1>1
        <4> QED BY <2>1, <4>1, <4>2
      <3>2. Len(asked') = Len(collected') + Thinks' + Len(requests')
        BY <1>1, <2>3, <2>7, <2>9, <3>1
      <3>3. \A i \in 1..Len(collected') : collected'[i].id = asked'[i]
        BY <1>1, <2>3 DEF AgentInv, OnTheWay
      <3>4. \A t \in Current' : t.req.id = asked'[Len(collected') + 1]
        BY SMTT(40), <1>1, <2>3, <2>5, <2>8, <2>9, <3>1
      <3>5. \A i \in 1..Len(requests') : requests'[i].id = asked'[Len(collected') + Thinks' + i]
        <4> SUFFICES ASSUME NEW i \in 1..Len(requests')
                     PROVE  requests'[i].id = asked[Len(collected) + 1 + i]
          BY <1>1, <2>3, <2>7
        <4>1. i + 1 \in 1..Len(requests) /\ Len(collected) + (i + 1) = Len(collected) + 1 + i
          BY <2>9, <3>1
        <4> QED BY <2>9, <3>1, <4>1
      <3>6. \A i \in 1..Len(responses') : FALSE
        BY <2>2
      <3> QED BY <3>2, <3>3, <3>4, <3>5, <3>6 DEF OnTheWay
    <2>13. RoundPending'
      <3>1. \A i \in 1..Len(responses') : FALSE
        BY <2>2
      <3> QED BY <2>5, <2>6, <2>8, <3>1 DEF RoundPending
    <2>14. Counted' /\ ReflectionLimit'
      BY <2>3, <2>6 DEF AgentInv, Counted, ReflectionLimit
    <2> QED BY <2>10, <2>11, <2>12, <2>13, <2>14 DEF AgentInv
  <1>3. CASE slot.status = "Thinking"
    <2>1. ~MayStart
      BY <1>3 DEF MayStart
    <2>2. responses # <<>> /\ Len(responses) = 1 /\ Current = {} /\ Thinks = 1
      BY <1>3, <2>1 DEF PollDecisionAgents, AgentInv, InFlight, Thinks
    <2> DEFINE e == responses[1]
    <2>3. /\ e \in Response /\ e.id = asked[Len(collected) + 1]
          /\ Follows(e, slot.round, slot.pending)
      BY <1>1, <2>2 DEF AgentInv, OnTheWay, RoundPending
    <2>4. /\ requests' = requests /\ threads' = threads /\ slot' = ClearThinking(slot)
          /\ responses' = <<>>
      BY <2>1, <2>2 DEF PollDecisionAgents
    <2>5. collected' = Append(collected, e)
      <3>1. collected' = collected \o responses
        BY DEF PollDecisionAgents
      <3>2. responses = <<e>>
        BY <1>1, <2>2
      <3> QED BY <1>1, <2>3, <3>1, <3>2, AppendIsConcat
    <2> HIDE DEF e
    <2>6. slot.pending \in Round /\ slot.pending # NoPending
      BY <2>3, RoundFacts DEF Follows
    <2>7. slot' = [status |-> "Idle", round |-> slot.pending, pending |-> NoPending]
      BY <1>3, <2>4, <2>6 DEF ClearThinking
    <2>8. /\ slot' \in [status : {"None", "Idle", "Thinking"}, round : Round, pending : 0..NoPending]
          /\ slot'.status = "Idle" /\ slot'.round = slot.pending
      BY <2>6, <2>7, RoundFacts
    <2>9. Thinks' = 0 /\ Current' = {}
      <3>1. Thinks' = 0
        BY <2>8 DEF Thinks
      <3>2. Current' = {t \in threads : t.gen = generation}
        BY <1>1, <2>4, <2>8 DEF Current
      <3> QED BY <1>3, <2>2, <3>1, <3>2 DEF Current
    <2>10. /\ collected' \in Seq(Response) /\ Len(collected') = Len(collected) + 1
           /\ Len(collected) \in Nat /\ Len(requests) \in Nat
           /\ \A i \in 1..Len(collected) : collected'[i] = collected[i]
           /\ collected'[Len(collected) + 1] = e
      BY <1>1, <2>3, <2>5
    <2>11. AgentTypes'
      BY <1>1, <2>4, <2>8, <2>10 DEF AgentInv, AgentTypes
    <2>12. InFlight' /\ Nobody'
      BY <2>4, <2>8, <2>9 DEF InFlight, Nobody
    <2>13. OnTheWay'
      <3>1. /\ Len(asked) = Len(collected) + 1 + Len(requests)
            /\ \A i \in 1..Len(requests) : requests[i].id = asked[Len(collected) + 1 + i]
            /\ \A i \in 1..Len(collected) : collected[i].id = asked[i]
        BY <2>2 DEF AgentInv, OnTheWay
      <3>2. \A i \in 1..Len(collected') : collected'[i].id = asked'[i]
        <4>1. \A i \in 1..Len(collected') : i \in 1..Len(collected) \/ i = Len(collected) + 1
          BY <2>10
        <4> QED BY <1>1, <2>3, <2>10, <3>1, <4>1
      <3>3. \A i \in 1..Len(responses') : FALSE
        BY <2>4
      <3>4. \A i \in 1..Len(requests') : requests'[i].id = asked'[Len(collected') + Thinks' + i]
        <4> SUFFICES ASSUME NEW i \in 1..Len(requests)
                     PROVE  requests[i].id = asked[Len(collected) + 1 + 0 + i]
          BY <1>1, <2>4, <2>9, <2>10
        <4>1. Len(collected) + 1 + 0 + i = Len(collected) + 1 + i
          BY <2>10
        <4> QED BY <3>1, <4>1
      <3>5. Len(asked') = Len(collected') + Thinks' + Len(requests')
        BY <1>1, <2>4, <2>9, <2>10, <3>1
      <3> QED BY <2>9, <3>2, <3>3, <3>4, <3>5 DEF OnTheWay
    <2>14. RoundPending'
      <3>1. \A i \in 1..Len(responses') : FALSE
        BY <2>4
      <3> QED BY <2>9, <3>1 DEF RoundPending
    <2>15. Counted' /\ ReflectionLimit'
      BY <2>3, <2>5, <2>8, CollectCounts
    <2> QED BY <2>11, <2>12, <2>13, <2>14, <2>15 DEF AgentInv
  <1> QED BY <1>1, <1>2, <1>3

LEMMA AgentInvStep == AgentInv /\ [AgentNext]_agentVars => AgentInv'
  <1> SUFFICES ASSUME AgentInv, [AgentNext]_agentVars PROVE AgentInv'
    OBVIOUS
  <1>1. CASE UNCHANGED agentVars
    <2>1. /\ UNCHANGED <<slot, generation, requests, responses, threads, asked, collected, nextId>>
          /\ Current' = Current /\ Thinks' = Thinks
      BY <1>1 DEF agentVars, Current, Thinks
    <2>2. AgentTypes' /\ InFlight' /\ Nobody'
      BY <2>1 DEF AgentInv, AgentTypes, InFlight, Nobody
    <2>3. OnTheWay' /\ RoundPending'
      BY <2>1 DEF AgentInv, OnTheWay, RoundPending
    <2>4. Counted' /\ ReflectionLimit'
      BY <2>1 DEF AgentInv, Counted, ReflectionLimit
    <2> QED BY <2>2, <2>3, <2>4 DEF AgentInv
  <1> QED BY <1>1, SpawnAgentKeeps, RemoveAgentKeeps, SendRequestKeeps, PollKeeps, DecidesKeeps,
             SendsKeeps, PanicsKeeps DEF AgentNext

LEMMA AgentInvAlways == AgentSpec => []AgentInv
  BY AgentInvInit, AgentInvStep, PTL DEF AgentSpec
\* A decision agent is Thinking exactly while one thread of its generation decides (one
\* that panicked included) or the one response of it is not yet collected, also when
\* the agent was removed and spawned again (DecisionAgentSlot::poll_and_process,
\* spawn_async_processing, clear_thinking_status).
THEOREM ThinkingIsMeant == AgentSpec => []ThinkingHasThread
  <1>1. AgentInv => ThinkingHasThread
    <2> SUFFICES ASSUME AgentInv PROVE ThinkingHasThread
      OBVIOUS
    <2>1. Cardinality({}) = 0 /\ \A t : Cardinality({t}) = 1
      BY FS_EmptySet, FS_Singleton
    <2>2. Len(<<>>) = 0
      OBVIOUS
    <2>3. CASE slot.status # "Thinking" /\ Current = {} /\ responses = <<>>
      BY <2>1, <2>2, <2>3 DEF ThinkingHasThread
    <2>4. CASE slot.status = "Thinking" /\ responses = <<>> /\ \E t \in threads : Current = {t}
      <3>1. Cardinality(Current) = 1
        BY <2>1, <2>4
      <3> QED BY <2>2, <2>4, <3>1 DEF ThinkingHasThread
    <2>5. CASE slot.status = "Thinking" /\ Len(responses) = 1 /\ Current = {}
      BY <2>1, <2>5 DEF ThinkingHasThread
    <2> QED BY <2>3, <2>4, <2>5 DEF AgentInv, InFlight
  <1> QED BY <1>1, AgentInvAlways, PTL
\* The responses that AgentPool::poll_decision_agents collects are those of the requests
\* of this agent, in the order in which they were sent, none left out and none twice.
THEOREM AnswersComeInOrder == AgentSpec => []AnsweredInOrder
  <1>1. AgentInv => AnsweredInOrder
    <2> SUFFICES ASSUME AgentInv PROVE AnsweredInOrder
      OBVIOUS
    <2>1. Len(collected) \in Nat /\ Len(requests) \in Nat /\ Thinks \in {0, 1}
      BY DEF AgentInv, AgentTypes, Thinks
    <2>2. Len(asked) = Len(collected) + Thinks + Len(requests)
      BY DEF AgentInv, OnTheWay
    <2>3. Len(collected) <= Len(asked)
      BY <2>1, <2>2
    <2> QED BY <2>3 DEF AgentInv, OnTheWay, AnsweredInOrder
  <1> QED BY <1>1, AgentInvAlways, PTL
\* For every limit: of the decisions collected since a reset fewer than the limit answer a
\* completion claim by another reflection, although the round is written by the thread of
\* the decision and taken over only when its response is collected.
THEOREM ReflectionsEnd == AgentSpec => []ReflectionLimit
  <1>1. AgentInv => ReflectionLimit
    BY DEF AgentInv
  <1> QED BY <1>1, AgentInvAlways, PTL
-----------------------------------------------------------------------------
(* Decision flows (DecisionFlow), for every tree.  What holds of addresses   *)
(* comes first; then every step of a walk is shown to be of one of ten       *)
(* kinds; then each kind keeps the two invariants.  OnceInv: an action that  *)
(* has run is behind the walk, and where the walk stops it stays behind the  *)
(* active children that lead it back.  OwnInv: of the prompts that wait, one *)
(* asked last and the active children lead to it, and the others are behind  *)
(* a ReflectionGuard that will not open again.                               *)
Addresses == Seq(Nat \ {0})
AtOrAbove(x, y) == x = y \/ Above(x, y)

Statuses == {"none", "Success", "Failure", "Running", "Error"}
Prompts == {a \in DOMAIN flow : flow[a].kind = "Prompt"}

\* The walk is at a node of the tree.
FlowTypes ==
    /\ IsTree(flow)
    /\ activeChild \in [DOMAIN flow -> Nat]
    /\ tally \in [DOMAIN flow -> [won : Nat, lost : Nat]]
    /\ fired \in [DOMAIN flow -> 0..2]
    /\ cooling \subseteq DOMAIN flow
    /\ pending \subseteq Prompts
    /\ round \in Nat
    /\ phase \in {"idle", "down", "up"}
    /\ node \in DOMAIN flow
    /\ status \in Statuses
    /\ route \in Addresses /\ path \in Addresses
    /\ executor \in [is_running : BOOLEAN, running_path : Addresses]
    /\ clean \in BOOLEAN /\ misread \in BOOLEAN
    /\ phase = "idle" => node = <<>> /\ path = <<>> /\ route = <<>>
    /\ phase = "up" => status # "none"

\* From x to y the active children lead to y.
LeadsTo(x, y) ==
    \A d \in DOMAIN flow : AtOrAbove(x, d) /\ Above(d, y) /\ flow[d].kind \in Composites
                               => activeChild[d] = y[Len(d) + 1]

-----------------------------------------------------------------------------
\* An action that runs once: nothing above it repeats it.
Spared(a) == a \in DOMAIN flow /\ flow[a].kind = "Action" /\ ~Below(a, {"Parallel", "Repeater"})

\* A walk down from x along the active children passes a by.
Behind(x, a) ==
    \E c \in DOMAIN flow :
        /\ AtOrAbove(x, c) /\ Above(c, a) /\ flow[c].kind \in Composites
        /\ activeChild[c] > a[Len(c) + 1]
        /\ LeadsTo(x, c)

\* The walk is past a, in a later child of a node above it.
Past(a) == \E c \in DOMAIN flow : Above(c, node) /\ Above(c, a) /\ node[Len(c) + 1] > a[Len(c) + 1]

\* The walk, or the one that resumes this pass, does not come to a again.
Passed(a) ==
    /\ phase = "idle" /\ executor.is_running => Behind(<<>>, a)
    /\ phase = "down" => Past(a) \/ (Above(node, a) /\ Behind(node, a))
    /\ phase = "up" /\ status # "Error" =>
          Past(a) \/ (AtOrAbove(node, a) /\ (status = "Running" => Behind(node, a)))

\* Nothing is resumed by a path.
NoPath(a) ==
    /\ executor.running_path = <<>> /\ route = <<>>
    /\ phase = "up" /\ status = "Running" /\ AtOrAbove(node, a) /\ ~Below(node, Composites) => path = <<>>

\* An action that nothing repeats has run at most once, and is passed by then.
OnceInv ==
    \A a \in DOMAIN flow : Spared(a) =>
        /\ NoPath(a)
        /\ clean => fired[a] <= 1 /\ (fired[a] = 1 => Passed(a))

-----------------------------------------------------------------------------
\* OwnReply is about these trees.
Trusting == \A a \in DOMAIN flow : flow[a].kind = "Prompt" => ~Below(a, {"When", "Parallel"})

\* A guard above p will not let the walk in again.
Dead(p) ==
    \E g \in DOMAIN flow : /\ Above(g, p) /\ ~Above(g, node)
                           /\ flow[g].kind = "ReflectionGuard" /\ round >= flow[g].num

\* The Cooldowns and Repeaters above p let the walk in.
LetIn(p) ==
    \A d \in DOMAIN flow : Above(d, p) => /\ flow[d].kind = "Cooldown" => d \notin cooling
                                          /\ flow[d].kind = "Repeater" => flow[d].num # 0

\* p is the prompt that asked last, and the walk goes to it or comes from it.
Asking(p) ==
    /\ asker = p /\ LetIn(p) /\ AtOrAbove(node, p)
    /\ phase = "up" => status \in {"Running", "Error"}
    /\ IF phase = "up" /\ status = "Running" THEN LeadsTo(node, p) ELSE LeadsTo(<<>>, p)

\* In a Parallel every child so far has succeeded or failed.
AllEnded ==
    \A d \in DOMAIN flow : flow[d].kind = "Parallel" /\ Above(d, node)
        => tally[d].won + tally[d].lost = node[Len(d) + 1] - 1

\* A node that is running is so because a prompt below it waits.
Waits ==
    IF phase = "up" /\ status = "Running"
    THEN /\ \E p \in pending : AtOrAbove(node, p)
         /\ path = <<>> \/ Below(node, Composites)
    ELSE path = <<>>

Own ==
    /\ ~misread
    /\ \A p \in pending : Dead(p) \/ Asking(p)
    /\ LetIn(node)
    /\ AllEnded
    /\ executor.running_path = <<>> /\ route = <<>>
    /\ Waits

OwnInv == Trusting => Own

-----------------------------------------------------------------------------
(* Lemmas about addresses.                                                   *)

\* The empty address is above every other one.
LEMMA RootFacts ==
    ASSUME NEW x \in Addresses
    PROVE  AtOrAbove(<<>>, x) /\ ~Above(x, <<>>) /\ (x # <<>> => Above(<<>>, x))
  <1>1. x = <<>> \/ Len(x) > 0
    BY DEF Addresses
  <1> QED BY <1>1 DEF AtOrAbove, Above, Addresses

\* Above is transitive, and what is below keeps the next index.
LEMMA AboveTransitive ==
    ASSUME NEW x \in Addresses, NEW y \in Addresses, NEW z \in Addresses
    PROVE  /\ Above(x, y) /\ AtOrAbove(y, z) => Above(x, z) /\ z[Len(x) + 1] = y[Len(x) + 1]
           /\ AtOrAbove(x, y) /\ Above(y, z) => Above(x, z)
           /\ AtOrAbove(x, y) /\ AtOrAbove(y, z) => AtOrAbove(x, z)
  <1>1. ASSUME Above(x, y), Above(y, z)
        PROVE  Above(x, z) /\ z[Len(x) + 1] = y[Len(x) + 1]
    BY <1>1 DEF Above, Addresses
  <1> QED BY <1>1 DEF AtOrAbove

\* Of two addresses above a third, one is above the other or they are equal.
LEMMA AboveComparable ==
    ASSUME NEW x \in Addresses, NEW y \in Addresses, NEW z \in Addresses,
           AtOrAbove(x, z), AtOrAbove(y, z)
    PROVE  AtOrAbove(x, y) \/ Above(y, x)
  <1>1. \A k \in 1..Len(x) : x[k] = z[k]
    BY DEF AtOrAbove, Above, Addresses
  <1>2. \A k \in 1..Len(y) : y[k] = z[k]
    BY DEF AtOrAbove, Above, Addresses
  <1>3. CASE Len(x) < Len(y)
    BY <1>1, <1>2, <1>3 DEF AtOrAbove, Above, Addresses
  <1>4. CASE Len(y) < Len(x)
    BY <1>1, <1>2, <1>4 DEF AtOrAbove, Above, Addresses
  <1>5. CASE Len(x) = Len(y)
    <2>1. x = y
      BY <1>1, <1>2, <1>5, SeqEqual DEF Addresses
    <2> QED BY <2>1 DEF AtOrAbove
  <1> QED BY <1>3, <1>4, <1>5 DEF Addresses

\* A child and the node above it.
LEMMA ChildFacts ==
    ASSUME NEW p \in Addresses, NEW i \in Nat \ {0}, NEW x \in Addresses
    PROVE  /\ Append(p, i) \in Addresses
           /\ Append(p, i) # <<>>
           /\ Len(Append(p, i)) = Len(p) + 1
           /\ Append(p, i)[Len(p) + 1] = i
           /\ Parent(Append(p, i)) = p
           /\ Above(p, Append(p, i))
           /\ Above(x, Append(p, i)) <=> AtOrAbove(x, p)
           /\ Above(x, p) => Append(p, i)[Len(x) + 1] = p[Len(x) + 1]
           /\ Above(p, x) /\ x[Len(p) + 1] = i => AtOrAbove(Append(p, i), x)
           /\ AtOrAbove(Append(p, i), x) => Above(p, x) /\ x[Len(p) + 1] = i
  <1> DEFINE a == Append(p, i)
  <1>1. a \in Addresses /\ Len(a) = Len(p) + 1 /\ a[Len(p) + 1] = i /\ (\A k \in 1..Len(p) : a[k] = p[k])
    BY DEF Addresses
  <1>2. Len(p) \in Nat /\ Len(x) \in Nat
    BY DEF Addresses
  <1> HIDE DEF a
  <1>3. a # <<>>
    <2>1. Len(<<>>) = 0
      OBVIOUS
    <2> QED BY <1>1, <1>2, <2>1
  <1>4. Parent(a) = p
    <2>1. Parent(a) \in Addresses /\ Len(Parent(a)) = Len(p) /\ (\A k \in 1..Len(p) : Parent(a)[k] = a[k])
      BY <1>1, <1>2 DEF Parent, Addresses
    <2> QED BY <1>1, <2>1, SeqEqual DEF Addresses
  <1>5. Above(p, a)
    BY <1>1, <1>2 DEF Above
  <1>6. Above(x, a) => AtOrAbove(x, p)
    <2> SUFFICES ASSUME Above(x, a) PROVE AtOrAbove(x, p)
      OBVIOUS
    <2>1. Len(x) <= Len(p) /\ \A k \in 1..Len(x) : x[k] = p[k]
      BY <1>1, <1>2 DEF Above
    <2>2. CASE Len(x) < Len(p)
      BY <2>1, <2>2 DEF Above, AtOrAbove
    <2>3. CASE Len(x) = Len(p)
      <3>1. x = p
        BY <2>1, <2>3, SeqEqual DEF Addresses
      <3> QED BY <3>1 DEF AtOrAbove
    <2> QED BY <1>2, <2>1, <2>2, <2>3
  <1>7. AtOrAbove(x, p) => Above(x, a)
    BY <1>1, <1>5, AboveTransitive
  <1>8. Above(x, p) => a[Len(x) + 1] = p[Len(x) + 1]
    BY <1>1, <1>2 DEF Above
  <1>9. ASSUME Above(p, x), x[Len(p) + 1] = i
        PROVE  AtOrAbove(a, x)
    <2>1. Len(a) <= Len(x) /\ \A k \in 1..Len(a) : a[k] = x[k]
      BY <1>1, <1>2, <1>9 DEF Above
    <2>2. CASE Len(a) < Len(x)
      BY <2>1, <2>2 DEF Above, AtOrAbove
    <2>3. CASE Len(a) = Len(x)
      <3>1. a = x
        BY <1>1, <2>1, <2>3, SeqEqual DEF Addresses
      <3> QED BY <3>1 DEF AtOrAbove
    <2> QED BY <1>1, <1>2, <2>1, <2>2, <2>3
  <1>10. AtOrAbove(a, x) => Above(p, x) /\ x[Len(p) + 1] = i
    BY <1>1, <1>2, <1>5, AboveTransitive
  <1> QED BY <1>1, <1>3, <1>4, <1>5, <1>6, <1>7, <1>8, <1>9, <1>10 DEF a

\* An address that is not the root is a child of the node above it.
LEMMA ParentFacts ==
    ASSUME NEW a \in Addresses, a # <<>>
    PROVE  /\ Parent(a) \in Addresses
           /\ a[Len(a)] \in Nat \ {0}
           /\ a = Append(Parent(a), a[Len(a)])
           /\ Len(a) = Len(Parent(a)) + 1
  <1>1. PICK n \in Nat : Len(a) = n + 1
    <2>1. Len(a) \in Nat /\ Len(a) # 0
      BY DEF Addresses
    <2>2. \A m \in Nat : m # 0 => m - 1 \in Nat /\ m = (m - 1) + 1
      OBVIOUS
    <2> QED BY <2>1, <2>2
  <1>2. Parent(a) \in Addresses /\ Len(Parent(a)) = n /\ (\A k \in 1..n : Parent(a)[k] = a[k])
    <2>1. \A i \in 1..n : a[i] \in Nat \ {0}
      BY <1>1 DEF Addresses
    <2>2. n + 1 - 1 = n /\ 1 \in Int /\ n \in Int /\ n - 1 + 1 = n
      OBVIOUS
    <2>3. Parent(a) = SubSeq(a, 1, n)
      BY <1>1, <2>2 DEF Parent
    <2>4. /\ SubSeq(a, 1, n) \in Seq(Nat \ {0})
          /\ Len(SubSeq(a, 1, n)) = IF 1 <= n THEN n - 1 + 1 ELSE 0
          /\ \A i \in 1..n - 1 + 1 : SubSeq(a, 1, n)[i] = a[1 + i - 1]
      BY <2>1, <2>2, SubSeqProperties
    <2>5. Len(SubSeq(a, 1, n)) = n
      BY <2>2, <2>4
    <2>6. \A i \in 1..n : SubSeq(a, 1, n)[i] = a[i]
      <3>1. \A i \in 1..n : 1 + i - 1 = i
        OBVIOUS
      <3> QED BY <2>2, <2>4, <3>1
    <2> QED BY <2>3, <2>4, <2>5, <2>6 DEF Addresses
  <1>3. a[Len(a)] \in Nat \ {0}
    BY <1>1 DEF Addresses
  <1>4. a = Append(Parent(a), a[Len(a)])
    <2>1. /\ Append(Parent(a), a[Len(a)]) \in Seq(Nat \ {0})
          /\ Len(Append(Parent(a), a[Len(a)])) = n + 1
          /\ Append(Parent(a), a[Len(a)])[n + 1] = a[Len(a)]
          /\ \A k \in 1..n : Append(Parent(a), a[Len(a)])[k] = a[k]
      BY <1>2, <1>3 DEF Addresses
    <2>2. \A k \in 1..n + 1 : Append(Parent(a), a[Len(a)])[k] = a[k]
      BY <1>1, <2>1
    <2> QED BY <1>1, <2>1, <2>2, SeqEqual DEF Addresses
  <1> QED BY <1>1, <1>2, <1>3, <1>4

\* What is above a node of a tree is in the tree, with the next child.
LEMMA TreeFacts ==
    ASSUME NEW t, IsTree(t), NEW a \in DOMAIN t
    PROVE  /\ a \in Addresses
           /\ \A x \in Addresses : Above(x, a) => /\ x \in DOMAIN t
                                                  /\ a[Len(x) + 1] \in 1..t[x].kids
                                                  /\ t[x].kind \in Composites \cup Decorators
                                                  /\ t[x].kind \in Decorators => t[x].kids = 1
           /\ a # <<>> => Parent(a) \in DOMAIN t /\ a[Len(a)] \in 1..t[Parent(a)].kids
  <1>1. a \in Addresses
    BY DEF IsTree, Addresses
  <1>2. ASSUME NEW x \in Addresses, Above(x, a)
        PROVE  x \in DOMAIN t /\ a[Len(x) + 1] \in 1..t[x].kids
    <2>1. Len(x) \in 0..Len(a) - 1 /\ Len(a) \in Nat
      BY <1>1, <1>2 DEF Above, Addresses
    <2>2. SubSeq(a, 1, Len(x)) \in Addresses /\ Len(SubSeq(a, 1, Len(x))) = Len(x)
          /\ \A k \in 1..Len(x) : SubSeq(a, 1, Len(x))[k] = a[k]
      BY <1>1, <2>1 DEF Addresses
    <2>3. SubSeq(a, 1, Len(x)) = x
      BY <1>2, <2>2, SeqEqual DEF Above, Addresses
    <2>4. SubSeq(a, 1, Len(x)) \in DOMAIN t /\ a[Len(x) + 1] \in 1..t[SubSeq(a, 1, Len(x))].kids
      BY <2>1 DEF IsTree
    <2> QED BY <2>3, <2>4
  <1>3. ASSUME NEW x \in Addresses, Above(x, a)
        PROVE  t[x].kind \in Composites \cup Decorators /\ (t[x].kind \in Decorators => t[x].kids = 1)
    <2>1. x \in DOMAIN t /\ t[x].kids # 0
      <3>1. x \in DOMAIN t /\ a[Len(x) + 1] \in 1..t[x].kids
        BY <1>2, <1>3
      <3>2. t[x].kids \in Nat
        BY <3>1 DEF IsTree
      <3> QED BY <3>1, <3>2
    <2>2. t[x].kind \in Composites \cup Decorators \cup Leaves
      BY <2>1 DEF IsTree
    <2>3. t[x].kind \notin Leaves
      BY <2>1 DEF IsTree
    <2>4. t[x].kind \in Decorators => t[x].kids = 1
      BY <2>1 DEF IsTree
    <2> QED BY <2>2, <2>3, <2>4
  <1>4. ASSUME a # <<>>
        PROVE  Parent(a) \in DOMAIN t /\ a[Len(a)] \in 1..t[Parent(a)].kids
    <2>1. /\ Parent(a) \in Addresses /\ a[Len(a)] \in Nat \ {0}
          /\ a = Append(Parent(a), a[Len(a)]) /\ Len(a) = Len(Parent(a)) + 1
      BY <1>1, <1>4, ParentFacts
    <2>2. Above(Parent(a), a)
      <3> DEFINE p == Parent(a)
      <3> DEFINE i == a[Len(a)]
      <3>1. p \in Addresses /\ i \in Nat \ {0} /\ a = Append(p, i)
        BY <2>1
      <3> HIDE DEF p, i
      <3>2. Above(p, a)
        BY <3>1, ChildFacts
      <3> QED BY <3>2 DEF p
    <2> QED BY <1>2, <2>1, <2>2
  <1> QED BY <1>1, <1>2, <1>3, <1>4

\* The path of the tracer is an address, empty where no composite is above.
LEMMA PathStackFacts ==
    ASSUME IsTree(flow), NEW a \in DOMAIN flow
    PROVE  PathStack(a) \in Addresses /\ (~Below(a, Composites) => PathStack(a) = <<>>)
  <1> DEFINE P == {k \in 1..Len(a) : flow[SubSeq(a, 1, k - 1)].kind \in Composites}
  <1>1. a \in Seq(Nat \ {0})
    BY DEF IsTree
  <1>2. Select(a, P) \in Seq(Nat \ {0}) /\ PartOf(Select(a, P), a, P)
    BY <1>1, SelectIsPart
  <1>3. PathStack(a) = Select(a, P)
    BY DEF PathStack
  <1>4. ASSUME NEW k \in P
        PROVE  Below(a, Composites)
    <2>1. k \in 1..Len(a) /\ k - 1 \in 0..Len(a) - 1 /\ flow[SubSeq(a, 1, k - 1)].kind \in Composites
      BY <1>1, <1>4
    <2>2. SubSeq(a, 1, k - 1) \in DOMAIN flow
      BY <2>1 DEF IsTree
    <2>3. Above(SubSeq(a, 1, k - 1), a)
      <3>1. k - 1 \in Nat /\ k - 1 < Len(a) /\ Len(a) \in Nat
        BY <1>1, <2>1
      <3>2. /\ Len(SubSeq(a, 1, k - 1)) = k - 1
            /\ \A j \in 1..k - 1 : SubSeq(a, 1, k - 1)[j] = a[j]
        BY <1>1, <3>1
      <3> QED BY <3>1, <3>2 DEF Above
    <2> QED BY <2>1, <2>2, <2>3 DEF Below
  <1> HIDE DEF P
  <1>5. ASSUME ~Below(a, Composites)
        PROVE  Select(a, P) = <<>>
    <2>1. \A k \in 1..Len(Select(a, P)) : FALSE
      BY <1>2, <1>4, <1>5 DEF PartOf
    <2>2. Len(Select(a, P)) = 0
      BY <1>2, <2>1
    <2> QED BY <1>2, <2>2
  <1> QED BY <1>2, <1>3, <1>5 DEF Addresses

\* What is left of a path names a child, and of no path nothing is left.
LEMMA LeftFacts ==
    ASSUME IsTree(flow), route \in Addresses, NEW a \in DOMAIN flow
    PROVE  /\ Left(a) # <<>> => Left(a)[1] \in Nat \ {0}
           /\ route = <<>> => Left(a) = <<>>
  <1> DEFINE s == PathStack(a)
  <1>1. s \in Addresses
    BY PathStackFacts
  <1>2. Len(s) \in Nat /\ Len(route) \in Nat
    BY <1>1 DEF Addresses
  <1>3. Left(a) = IF Len(s) < Len(route) /\ (\A k \in 1..Len(s) : s[k] = route[k])
                  THEN SubSeq(route, Len(s) + 1, Len(route)) ELSE <<>>
    BY DEF Left
  <1> HIDE DEF s
  <1>4. route = <<>> => Left(a) = <<>>
    <2>1. Len(<<>>) = 0
      OBVIOUS
    <2> QED BY <1>2, <1>3, <2>1
  <1>5. ASSUME Left(a) # <<>>
        PROVE  Left(a)[1] \in Nat \ {0}
    <2>1. Len(s) < Len(route) /\ Left(a) = SubSeq(route, Len(s) + 1, Len(route))
      BY <1>3, <1>5
    <2>2. SubSeq(route, Len(s) + 1, Len(route))[1] = route[Len(s) + 1]
      BY <1>2, <2>1 DEF Addresses
    <2>3. route[Len(s) + 1] \in Nat \ {0}
      BY <1>2, <2>1 DEF Addresses
    <2> QED BY <2>1, <2>2, <2>3
  <1> QED BY <1>4, <1>5

-----------------------------------------------------------------------------
(* The kinds of step of a walk.                                              *)

\* The node lets the walk into a child.
Enters ==
    \E i \in 1..flow[node].kids :
        /\ phase = "down" /\ phase' = "down" /\ node' = Append(node, i)
        /\ flow[node].kind \in Walks /\ Left(node) = <<>> /\ activeChild[node] # 0 => i = activeChild[node]
        /\ flow[node].kind = "Parallel" => i = 1 /\ tally'[node].won + tally'[node].lost = 0
        /\ flow[node].kind = "Repeater" => flow[node].num # 0
        /\ flow[node].kind = "Cooldown" => node \notin cooling
        /\ flow[node].kind = "ReflectionGuard" => ~(round >= flow[node].num)
        /\ \A d \in DOMAIN flow : d # node => tally'[d] = tally[d]
        /\ UNCHANGED <<flow, activeChild, cooling, pending, round, asker, route, path, executor,
                       fired, clean, misread>>

\* The node returns at once, and why.
TurnsBack ==
    /\ phase = "down" /\ phase' = "up" /\ node' = node /\ status' \in {"Success", "Failure", "Error"}
    /\ \/ status' = "Error" /\ activeChild' = activeChild
       \/ flow[node].kind \in {"When", "Parallel", "Condition", "Action", "SetVar"}
       \/ flow[node].kind \in Walks /\ ~(Left(node) = <<>> /\ activeChild[node] \in 1..flow[node].kids)
       \/ flow[node].kind = "Repeater" /\ flow[node].num = 0
       \/ flow[node].kind = "Cooldown" /\ node \in cooling
       \/ flow[node].kind = "ReflectionGuard" /\ round >= flow[node].num
    /\ \/ fired' = fired
       \/ /\ flow[node].kind = "Action" /\ status' = "Success"
          /\ fired' = [fired EXCEPT ![node] = IF @ = 0 THEN 1 ELSE 2]
    /\ \A d \in DOMAIN flow : d # node => activeChild'[d] = activeChild[d] /\ tally'[d] = tally[d]
    /\ UNCHANGED <<flow, cooling, pending, round, asker, route, path, executor, clean, misread>>

\* A prompt that asked takes the reply or gives up.
Answered ==
    /\ phase = "down" /\ phase' = "up" /\ node' = node /\ status' \in {"Success", "Failure"}
    /\ node \in pending /\ pending' = pending \ {node}
    /\ misread' => misread \/ asker # node
    /\ UNCHANGED <<flow, activeChild, tally, cooling, round, asker, route, path, executor, fired, clean>>

\* A prompt asks, or asked and waits.
Awaits ==
    /\ phase = "down" /\ phase' = "up" /\ node' = node /\ status' = "Running"
    /\ node \in Prompts /\ pending' = pending \cup {node}
    /\ asker' = IF node \in pending THEN asker ELSE node
    /\ UNCHANGED <<flow, activeChild, tally, cooling, round, route, path, executor, fired, clean, misread>>

\* From a child that has returned to a child of the same node.
Crosses ==
    \E up \in DOMAIN flow : \E i, j \in 1..flow[up].kids :
        /\ phase = "up" /\ phase' = "down" /\ node = Append(up, i) /\ node' = Append(up, j)
        /\ status # "Error"
        /\ IF flow[up].kind \in Composites THEN j = i + 1 ELSE flow[up].kind = "Repeater" /\ j = 1
        /\ status = "Running" => flow[up].kind = "Parallel"
        /\ flow[up].kind = "Parallel" /\ status # "Running" =>
              tally'[up].won + tally'[up].lost = tally[up].won + tally[up].lost + 1
        /\ status # "Running" => path' = path
        /\ route' \in {route, <<>>}
        /\ \A d \in DOMAIN flow : d # up => tally'[d] = tally[d]
        /\ UNCHANGED <<flow, activeChild, cooling, pending, round, asker, executor, fired, clean, misread>>

\* From a child that has returned up to the node above.
Climbs ==
    \E up \in DOMAIN flow : \E i \in 1..flow[up].kids :
        /\ phase = "up" /\ phase' = "up" /\ node = Append(up, i) /\ node' = up
        /\ status \in {"Success", "Failure", "Running"} /\ status' \in {"Success", "Failure", "Running"}
        /\ flow[up].kind # "Parallel" => (status' = "Running" <=> status = "Running")
        /\ flow[up].kind = "Parallel" =>
              \/ status = "Running"
              \/ status' # "Running"
              \/ tally[up].won + tally[up].lost # i - 1
        /\ flow[up].kind \in Walks /\ status = "Running" => activeChild'[up] = i
        /\ \A d \in DOMAIN flow : d # up => activeChild'[d] = activeChild[d] /\ tally'[d] = tally[d]
        /\ path' = IF status = "Running" /\ flow[up].kind \in Composites THEN PathStack(up) ELSE path
        /\ cooling \subseteq cooling' /\ cooling' \subseteq cooling \cup {up}
        /\ round' >= round
        /\ status = "Running" => cooling' = cooling /\ round' = round
        /\ UNCHANGED <<flow, pending, asker, route, executor, fired, clean, misread>>

-----------------------------------------------------------------------------
(* Every step of the walk is of one of these kinds and keeps the types.      *)

\* A node and the one above it in a typed state.
LEMMA NodeFacts ==
    ASSUME FlowTypes
    PROVE  /\ IsTree(flow) /\ node \in DOMAIN flow /\ node \in Addresses
           /\ flow[node].kids \in Nat /\ flow[node].num \in Nat
           /\ \A i \in 1..flow[node].kids : Append(node, i) \in DOMAIN flow
           /\ flow[node].kind \in Decorators /\ flow[node].kind # "SubTree" => flow[node].kids = 1
           /\ flow[node].kind \in Leaves => flow[node].kids = 0
           /\ node # <<>> => /\ Parent(node) \in DOMAIN flow
                             /\ node[Len(node)] \in 1..flow[Parent(node)].kids
                             /\ node = Append(Parent(node), node[Len(node)])
                             /\ flow[Parent(node)].kids \in Nat /\ flow[Parent(node)].num \in Nat
                             /\ flow[Parent(node)].kind \in Decorators => flow[Parent(node)].kids = 1
                             /\ \A i \in 1..flow[Parent(node)].kids : Append(Parent(node), i) \in DOMAIN flow
  <1>1. IsTree(flow) /\ node \in DOMAIN flow
    BY DEF FlowTypes
  <1>2. node \in Addresses /\ (node # <<>> => Parent(node) \in DOMAIN flow /\ node[Len(node)] \in 1..flow[Parent(node)].kids)
    BY <1>1, TreeFacts
  <1>3. /\ flow[node].kids \in Nat /\ flow[node].num \in Nat
        /\ \A i \in 1..flow[node].kids : Append(node, i) \in DOMAIN flow
        /\ flow[node].kind \in Leaves => flow[node].kids = 0
    BY <1>1 DEF IsTree
  <1>4. flow[node].kind \in Decorators /\ flow[node].kind # "SubTree" => flow[node].kids = 1
    BY <1>1 DEF IsTree
  <1>5. ASSUME node # <<>>
        PROVE  /\ Parent(node) \in DOMAIN flow
               /\ node[Len(node)] \in 1..flow[Parent(node)].kids
               /\ node = Append(Parent(node), node[Len(node)])
               /\ flow[Parent(node)].kids \in Nat /\ flow[Parent(node)].num \in Nat
               /\ flow[Parent(node)].kind \in Decorators => flow[Parent(node)].kids = 1
               /\ \A i \in 1..flow[Parent(node)].kids : Append(Parent(node), i) \in DOMAIN flow
    <2>1. Parent(node) \in DOMAIN flow /\ node[Len(node)] \in 1..flow[Parent(node)].kids
      BY <1>2, <1>5
    <2>2. node = Append(Parent(node), node[Len(node)])
      BY <1>2, <1>5, ParentFacts
    <2>3. /\ flow[Parent(node)].kids \in Nat /\ flow[Parent(node)].num \in Nat
          /\ \A i \in 1..flow[Parent(node)].kids : Append(Parent(node), i) \in DOMAIN flow
      BY <1>1, <2>1 DEF IsTree
    <2>4. flow[Parent(node)].kind \in Decorators =>
             flow[Parent(node)].kids = 1 \/ flow[Parent(node)].kids = 0
      BY <1>1, <2>1 DEF IsTree
    <2>5. flow[Parent(node)].kids # 0
      BY <2>1, <2>3
    <2> QED BY <2>1, <2>2, <2>3, <2>4, <2>5
  <1> QED BY <1>1, <1>2, <1>3, <1>4, <1>5

\* A composite that goes on, or has nothing left to go on with.
LEMMA TickWalkKind ==
    ASSUME FlowTypes, TickWalk
    PROVE  FlowTypes' /\ (Enters \/ TurnsBack)
  <1> DEFINE i == IF Left(node) # <<>> THEN Left(node)[1]
                  ELSE IF activeChild[node] = 0 THEN 1 ELSE activeChild[node]
  <1>1. /\ phase = "down" /\ flow[node].kind \in Walks /\ GoOn(node, i)
        /\ UNCHANGED <<flow, attempts, tally, cooling, pending, late, blackboard, session,
                       route, path, slotState, passHistory>>
    BY DEF TickWalk, Called
  <1>2. activeChild[node] \in Nat /\ flow[node].kids \in Nat /\ node \in DOMAIN flow
    BY NodeFacts DEF FlowTypes
  <1>3. Left(node) # <<>> => Left(node)[1] \in Nat \ {0}
    BY LeftFacts DEF FlowTypes
  <1>4. i \in Nat \ {0}
    BY <1>2, <1>3
  <1>5. Left(node) = <<>> /\ activeChild[node] # 0 => i = activeChild[node]
    OBVIOUS
  <1> HIDE DEF i
  <1>6. CASE i > flow[node].kids
    <2>1. Return(node, PassesOn(flow[node].kind)) /\ activeChild' = [activeChild EXCEPT ![node] = 0]
      BY <1>1, <1>6 DEF GoOn
    <2>2. ~(Left(node) = <<>> /\ activeChild[node] \in 1..flow[node].kids)
      BY <1>2, <1>5, <1>6
    <2>3. PassesOn(flow[node].kind) \in {"Success", "Failure"}
      BY DEF PassesOn
    <2>4. activeChild' \in [DOMAIN flow -> Nat]
      BY <2>1 DEF FlowTypes
    <2>5. \A d \in DOMAIN flow : d # node => activeChild'[d] = activeChild[d]
      BY <2>1 DEF FlowTypes
    <2>6. TurnsBack
      BY <1>1, <2>1, <2>2, <2>3, <2>5 DEF TurnsBack, Return, blackboard, session, slotState, passHistory
    <2>7. FlowTypes'
      BY <1>1, <2>1, <2>3, <2>4 DEF FlowTypes, Return, blackboard, session, slotState, passHistory, Statuses, Prompts
    <2> QED BY <2>6, <2>7
  <1>7. CASE ~(i > flow[node].kids)
    <2>1. Call(node, i) /\ activeChild' = activeChild /\ i \in 1..flow[node].kids
      BY <1>1, <1>2, <1>4, <1>7 DEF GoOn
    <2>2. Append(node, i) \in DOMAIN flow
      BY <2>1, NodeFacts
    <2>3. Enters
      BY <1>1, <1>5, <2>1 DEF Enters, Call, blackboard, session, slotState, passHistory, Walks
    <2>4. FlowTypes'
      BY <1>1, <2>1, <2>2 DEF FlowTypes, Call, blackboard, session, slotState, passHistory, Statuses, Prompts
    <2> QED BY <2>3, <2>4
  <1> QED BY <1>6, <1>7
\* A decorator that runs its child.
LEMMA DecoratorEnters ==
    ASSUME FlowTypes, phase = "down", flow[node].kind \in Decorators, Call(node, 1), flow[node].kids # 0,
           UNCHANGED <<flow, treeState, round, session, route, path, slotState, passHistory>>,
           flow[node].kind = "Repeater" => flow[node].num # 0,
           flow[node].kind = "Cooldown" => node \notin cooling,
           flow[node].kind = "ReflectionGuard" => ~(round >= flow[node].num)
    PROVE  FlowTypes' /\ Enters
  <1>1. 1 \in 1..flow[node].kids /\ Append(node, 1) \in DOMAIN flow
    BY NodeFacts
  <1>2. flow[node].kind \notin Walks /\ flow[node].kind # "Parallel"
    BY DEF Decorators, Walks
  <1>3. Enters
    BY <1>1, <1>2 DEF Enters, Call, treeState, session, slotState, passHistory
  <1>4. FlowTypes'
    BY <1>1 DEF FlowTypes, Call, treeState, session, slotState, passHistory, Statuses, Prompts
  <1> QED BY <1>3, <1>4

\* A decorator or a leaf that returns at once.
LEMMA NodeTurnsBack ==
    ASSUME FlowTypes, phase = "down", NEW s \in {"Success", "Failure", "Error"}, Return(node, s),
           UNCHANGED <<flow, treeState, round, session, route, path, slotState, passHistory>>,
           \/ s = "Error"
           \/ flow[node].kind \in {"When", "Condition", "Action", "SetVar"}
           \/ flow[node].kind = "Repeater" /\ flow[node].num = 0
           \/ flow[node].kind = "Cooldown" /\ node \in cooling
           \/ flow[node].kind = "ReflectionGuard" /\ round >= flow[node].num
    PROVE  FlowTypes' /\ TurnsBack
  <1>1. TurnsBack
    BY DEF TurnsBack, Return, treeState, session, slotState, passHistory
  <1>2. FlowTypes'
    BY DEF FlowTypes, Return, treeState, session, slotState, passHistory, Statuses, Prompts
  <1> QED BY <1>1, <1>2

\* A decorator that passes on what its child returned.
LEMMA DecoratorClimbs ==
    ASSUME FlowTypes, NEW kinds, Returned(kinds), kinds \subseteq Decorators,
           NEW s \in {"Success", "Failure", "Running"}, Return(Parent(node), s),
           s = "Running" <=> status = "Running",
           cooling' = cooling \/ (status # "Running" /\ cooling' = cooling \cup {Parent(node)}),
           round' = round \/ (status # "Running" /\ round' = round + 1),
           UNCHANGED <<flow, activeChild, attempts, tally, pending, late, session, route, path, slotState, passHistory>>
    PROVE  FlowTypes' /\ Climbs
  <1>1. PICK up \in DOMAIN flow : up = Parent(node)
    BY NodeFacts DEF Returned
  <1>2. PICK i \in 1..flow[up].kids : node = Append(up, i)
    BY <1>1, NodeFacts DEF Returned
  <1>3. phase = "up" /\ status \in {"Success", "Failure", "Running"} /\ flow[up].kind \in Decorators /\ round \in Nat
    BY <1>1 DEF Returned, FlowTypes, Statuses
  <1>4. flow[up].kind \notin Walks /\ flow[up].kind # "Parallel" /\ flow[up].kind \notin Composites
    BY <1>3 DEF Decorators, Walks, Composites
  <1>5. /\ round' >= round /\ round' \in Nat
        /\ cooling \subseteq cooling' /\ cooling' \subseteq cooling \cup {up} /\ cooling' \subseteq DOMAIN flow
        /\ status = "Running" => cooling' = cooling /\ round' = round
    BY <1>1, <1>3 DEF FlowTypes
  <1>6. /\ phase' = "up" /\ node' = up /\ status' = s
        /\ UNCHANGED <<flow, activeChild, tally, pending, asker, route, path, executor, fired, clean, misread>>
    BY <1>1 DEF Return, session, slotState, passHistory
  <1>7. Climbs
    BY <1>1, <1>2, <1>3, <1>4, <1>5, <1>6 DEF Climbs
  <1>8. FlowTypes'
    BY <1>1, <1>5, <1>6 DEF FlowTypes, Statuses, Prompts
  <1> QED BY <1>7, <1>8

\* A child of a Selector or Sequence returns.
LEMMA LeaveWalkKind ==
    ASSUME FlowTypes, LeaveWalk
    PROVE  FlowTypes' /\ (Crosses \/ Climbs)
  <1>1. PICK up \in DOMAIN flow : up = Parent(node)
    BY NodeFacts DEF LeaveWalk, Returned
  <1>2. PICK i \in 1..flow[up].kids : node = Append(up, i) /\ i = node[Len(node)]
    BY <1>1, NodeFacts DEF LeaveWalk, Returned
  <1>3. /\ phase = "up" /\ status \in {"Success", "Failure", "Running"} /\ flow[up].kind \in Walks
        /\ flow[up].kids \in Nat /\ IsTree(flow)
    BY <1>1, NodeFacts DEF LeaveWalk, Returned, FlowTypes, Statuses
  <1>4. flow[up].kind # "Parallel" /\ flow[up].kind \in Composites
    BY <1>3 DEF Walks, Composites
  <1>5. /\ path' = IF status = "Running" THEN PathStack(up) ELSE path
        /\ IF status = PassesOn(flow[up].kind) THEN GoOn(up, i + 1)
           ELSE Return(up, status) /\ RememberChild(up, i)
        /\ UNCHANGED <<flow, tally, cooling, pending, round, asker, route, executor, fired, clean, misread>>
    BY <1>1, <1>2 DEF LeaveWalk, Exit, blackboard, session, slotState, passHistory
  <1>6. path' \in Addresses /\ round \in Nat /\ round' >= round
    BY <1>3, <1>5, PathStackFacts DEF FlowTypes
  <1>7. PassesOn(flow[up].kind) \in {"Success", "Failure"}
    BY DEF PassesOn
  <1>8. CASE status = PassesOn(flow[up].kind) /\ i + 1 > flow[up].kids
    <2>1. Return(up, PassesOn(flow[up].kind)) /\ activeChild' = [activeChild EXCEPT ![up] = 0]
      BY <1>5, <1>8 DEF GoOn
    <2>2. activeChild' \in [DOMAIN flow -> Nat] /\ \A d \in DOMAIN flow : d # up => activeChild'[d] = activeChild[d]
      BY <2>1 DEF FlowTypes
    <2>3. phase' = "up" /\ node' = up /\ status' = PassesOn(flow[up].kind)
      BY <2>1 DEF Return
    <2>4. Climbs
      BY <1>2, <1>3, <1>4, <1>5, <1>6, <1>7, <1>8, <2>2, <2>3 DEF Climbs
    <2>5. FlowTypes'
      BY <1>5, <1>6, <1>7, <2>2, <2>3 DEF FlowTypes, Statuses, Prompts
    <2> QED BY <2>4, <2>5
  <1>9. CASE status = PassesOn(flow[up].kind) /\ ~(i + 1 > flow[up].kids)
    <2>1. Call(up, i + 1) /\ activeChild' = activeChild /\ i + 1 \in 1..flow[up].kids
      BY <1>3, <1>5, <1>9 DEF GoOn
    <2>2. Append(up, i + 1) \in DOMAIN flow
      BY <1>1, <2>1 DEF FlowTypes, IsTree
    <2>3. phase' = "down" /\ node' = Append(up, i + 1) /\ status' = "none" /\ status # "Running"
      BY <1>7, <1>9, <2>1 DEF Call
    <2>4. Crosses
      BY <1>2, <1>3, <1>4, <1>5, <2>1, <2>3 DEF Crosses
    <2>5. FlowTypes'
      BY <1>5, <1>6, <2>1, <2>2, <2>3 DEF FlowTypes, Statuses, Prompts
    <2> QED BY <2>4, <2>5
  <1>10. CASE status # PassesOn(flow[up].kind)
    <2>1. phase' = "up" /\ node' = up /\ status' = status
      BY <1>5, <1>10 DEF Return
    <2>2. /\ activeChild' \in [DOMAIN flow -> Nat]
          /\ \A d \in DOMAIN flow : d # up => activeChild'[d] = activeChild[d]
          /\ status = "Running" => activeChild'[up] = i
      <3>1. activeChild' = [activeChild EXCEPT ![up] = IF status = "Running" THEN i ELSE 0]
        BY <1>5, <1>10 DEF RememberChild
      <3>2. activeChild \in [DOMAIN flow -> Nat] /\ i \in Nat
        BY <1>3 DEF FlowTypes
      <3> QED BY <3>1, <3>2
    <2>3. Climbs
      BY <1>2, <1>3, <1>4, <1>5, <1>6, <1>10, <2>1, <2>2 DEF Climbs
    <2>4. FlowTypes'
      BY <1>3, <1>5, <1>6, <2>1, <2>2 DEF FlowTypes, Statuses, Prompts
    <2> QED BY <2>3, <2>4
  <1> QED BY <1>8, <1>9, <1>10

\* A Parallel starts to count.
LEMMA TickParallelKind ==
    ASSUME FlowTypes, TickParallel
    PROVE  FlowTypes' /\ (Enters \/ TurnsBack)
  <1>1. /\ phase = "down" /\ flow[node].kind = "Parallel" /\ flow[node].kind \notin Walks
        /\ tally' = [tally EXCEPT ![node] = [won |-> 0, lost |-> 0]]
        /\ UNCHANGED <<flow, activeChild, cooling, pending, round, asker, route, path, executor, fired, clean, misread>>
    BY DEF TickParallel, Called, Walks, blackboard, session, slotState, passHistory
  <1>2. /\ tally' \in [DOMAIN flow -> [won : Nat, lost : Nat]]
        /\ \A d \in DOMAIN flow : d # node => tally'[d] = tally[d]
        /\ tally'[node].won + tally'[node].lost = 0
    BY <1>1 DEF FlowTypes
  <1>3. CASE flow[node].kids = 0
    <2>1. Return(node, ParallelResult(flow[node].arg, 0, 0, 0))
      BY <1>3 DEF TickParallel
    <2>2. ParallelResult(flow[node].arg, 0, 0, 0) \in {"Success", "Failure"}
      BY DEF ParallelResult
    <2>3. phase' = "up" /\ node' = node /\ status' \in {"Success", "Failure"}
      BY <2>1, <2>2 DEF Return
    <2>4. TurnsBack
      BY <1>1, <1>2, <2>3 DEF TurnsBack
    <2>5. FlowTypes'
      BY <1>1, <1>2, <2>3 DEF FlowTypes, Statuses, Prompts
    <2> QED BY <2>4, <2>5
  <1>4. CASE flow[node].kids # 0
    <2>1. Call(node, 1)
      BY <1>4 DEF TickParallel
    <2>2. 1 \in 1..flow[node].kids /\ Append(node, 1) \in DOMAIN flow
      BY <1>4, NodeFacts
    <2>3. Enters
      BY <1>1, <1>2, <2>1, <2>2 DEF Enters, Call
    <2>4. FlowTypes'
      BY <1>1, <1>2, <2>1, <2>2 DEF FlowTypes, Call, Statuses, Prompts
    <2> QED BY <2>3, <2>4
  <1> QED BY <1>3, <1>4

\* When every child has succeeded or failed, a Parallel is not running.
LEMMA ParallelEnds ==
    ASSUME NEW policy \in {"AllSuccess", "AnySuccess", "Majority"}, NEW total \in Nat \ {0},
           NEW won \in Nat, NEW lost \in Nat
    PROVE  /\ ParallelResult(policy, total, won, lost) \in {"Success", "Failure", "Running"}
           /\ won + lost = total => ParallelResult(policy, total, won, lost) # "Running"
  <1>1. CASE policy = "AllSuccess"
    BY <1>1 DEF ParallelResult
  <1>2. CASE policy = "AnySuccess"
    BY <1>2 DEF ParallelResult
  <1>3. CASE policy = "Majority"
    <2> DEFINE h == total \div 2
    <2>1. ParallelResult(policy, total, won, lost) =
             IF won >= h + 1 THEN "Success" ELSE IF lost > h THEN "Failure"
             ELSE IF won + lost < total THEN "Running" ELSE "Failure"
      BY <1>3 DEF ParallelResult
    <2> HIDE DEF h
    <2> QED BY <2>1
  <1> QED BY <1>1, <1>2, <1>3

\* A child of a Parallel returns and is counted.
LEMMA LeaveParallelKind ==
    ASSUME FlowTypes, LeaveParallel
    PROVE  FlowTypes' /\ (Crosses \/ Climbs)
  <1>1. PICK up \in DOMAIN flow : up = Parent(node)
    BY NodeFacts DEF LeaveParallel, Returned
  <1>2. PICK i \in 1..flow[up].kids : node = Append(up, i) /\ i = node[Len(node)]
    BY <1>1, NodeFacts DEF LeaveParallel, Returned
  <1>3. /\ phase = "up" /\ status \in {"Success", "Failure", "Running"} /\ flow[up].kind = "Parallel"
        /\ flow[up].kids \in Nat /\ IsTree(flow)
        /\ flow[up].arg \in {"AllSuccess", "AnySuccess", "Majority"}
    BY <1>1, NodeFacts DEF LeaveParallel, Returned, FlowTypes, Statuses, IsTree
  <1>4. flow[up].kind \in Composites /\ flow[up].kind \notin Walks
    BY <1>3 DEF Walks, Composites
  <1> DEFINE won  == tally[up].won + (IF status = "Success" THEN 1 ELSE 0)
  <1> DEFINE lost == tally[up].lost + (IF status = "Failure" THEN 1 ELSE 0)
  <1>5. /\ path' = IF status = "Running" THEN PathStack(up) ELSE path
        /\ IF i < flow[up].kids
           THEN /\ Call(up, i + 1)
                /\ tally' = [tally EXCEPT ![up] = [won |-> won, lost |-> lost]]
           ELSE /\ Return(up, ParallelResult(flow[up].arg, flow[up].kids, won, lost))
                /\ tally' = [tally EXCEPT ![up] = [won |-> 0, lost |-> 0]]
        /\ UNCHANGED <<flow, activeChild, cooling, pending, round, asker, route, executor, fired, clean, misread>>
    BY <1>1, <1>2 DEF LeaveParallel, Exit, blackboard, session, slotState, passHistory
  <1>6. path' \in Addresses /\ round \in Nat /\ round' >= round
    BY <1>3, <1>5, PathStackFacts DEF FlowTypes
  <1>7. /\ won \in Nat /\ lost \in Nat
        /\ status # "Running" => won + lost = tally[up].won + tally[up].lost + 1
    <2>1. tally[up].won \in Nat /\ tally[up].lost \in Nat
      BY DEF FlowTypes
    <2> QED BY <1>3, <2>1
  <1> HIDE DEF won, lost
  <1>8. CASE i < flow[up].kids
    <2>1. Call(up, i + 1) /\ tally' = [tally EXCEPT ![up] = [won |-> won, lost |-> lost]]
      BY <1>5, <1>8
    <2>2. i + 1 \in 1..flow[up].kids
      BY <1>3, <1>8
    <2>3. /\ tally' \in [DOMAIN flow -> [won : Nat, lost : Nat]]
          /\ \A d \in DOMAIN flow : d # up => tally'[d] = tally[d]
          /\ tally'[up].won = won /\ tally'[up].lost = lost
      BY <1>7, <2>1 DEF FlowTypes
    <2>4. phase' = "down" /\ node' = Append(up, i + 1) /\ status' = "none"
      BY <2>1 DEF Call
    <2>5. Append(up, i + 1) \in DOMAIN flow
      BY <2>2 DEF FlowTypes, IsTree
    <2>6. Crosses
      BY <1>2, <1>3, <1>4, <1>5, <1>7, <2>2, <2>3, <2>4 DEF Crosses
    <2>7. FlowTypes'
      BY <1>5, <1>6, <2>3, <2>4, <2>5 DEF FlowTypes, Statuses, Prompts
    <2> QED BY <2>6, <2>7
  <1>9. CASE ~(i < flow[up].kids)
    <2> DEFINE result == ParallelResult(flow[up].arg, flow[up].kids, won, lost)
    <2>1. Return(up, result) /\ tally' = [tally EXCEPT ![up] = [won |-> 0, lost |-> 0]]
      BY <1>5, <1>9
    <2>2. i = flow[up].kids /\ flow[up].kids \in Nat \ {0}
      BY <1>3, <1>9
    <2>3. result \in {"Success", "Failure", "Running"} /\ (won + lost = flow[up].kids => result # "Running")
      BY <1>3, <1>7, <2>2, ParallelEnds
    <2> HIDE DEF result
    <2>4. phase' = "up" /\ node' = up /\ status' = result
      BY <2>1 DEF Return
    <2>5. /\ tally' \in [DOMAIN flow -> [won : Nat, lost : Nat]]
          /\ \A d \in DOMAIN flow : d # up => tally'[d] = tally[d]
      BY <2>1 DEF FlowTypes
    <2>6. status = "Running" \/ result # "Running" \/ tally[up].won + tally[up].lost # i - 1
      <3>1. tally[up].won + tally[up].lost = i - 1 /\ status # "Running" => won + lost = i
        BY <1>7, <2>2 DEF FlowTypes
      <3> QED BY <2>2, <2>3, <3>1
    <2>7. Climbs
      BY <1>2, <1>3, <1>4, <1>5, <1>6, <2>3, <2>4, <2>5, <2>6 DEF Climbs
    <2>8. FlowTypes'
      BY <1>5, <1>6, <2>3, <2>4, <2>5 DEF FlowTypes, Statuses, Prompts
    <2> QED BY <2>7, <2>8
  <1> QED BY <1>8, <1>9

LEMMA TickRepeaterKind ==
    ASSUME FlowTypes, TickRepeater
    PROVE  FlowTypes' /\ (Enters \/ TurnsBack)
  <1>1. phase = "down" /\ flow[node].kind = "Repeater" /\ flow[node].kind \in Decorators
    BY DEF TickRepeater, Called, Decorators
  <1>2. flow[node].kids # 0
    BY <1>1, NodeFacts
  <1>3. UNCHANGED <<flow, treeState, round, session, route, path, slotState, passHistory>>
    BY DEF TickRepeater, blackboard
  <1>4. CASE flow[node].num = 0
    BY <1>1, <1>3, <1>4, NodeTurnsBack DEF TickRepeater
  <1>5. CASE ~(flow[node].num = 0)
    <2>1. Call(node, 1)
      BY <1>5 DEF TickRepeater
    <2> QED BY <1>1, <1>2, <1>3, <1>5, <2>1, DecoratorEnters
  <1> QED BY <1>4, <1>5

LEMMA TickCooldownKind ==
    ASSUME FlowTypes, TickCooldown
    PROVE  FlowTypes' /\ (Enters \/ TurnsBack)
  <1>1. phase = "down" /\ flow[node].kind = "Cooldown" /\ flow[node].kind \in Decorators
    BY DEF TickCooldown, Called, Decorators
  <1>2. flow[node].kids # 0
    BY <1>1, NodeFacts
  <1>3. UNCHANGED <<flow, treeState, round, session, route, path, slotState, passHistory>>
    BY DEF TickCooldown, blackboard
  <1>4. CASE node \in cooling
    BY <1>1, <1>3, <1>4, NodeTurnsBack DEF TickCooldown
  <1>5. CASE ~(node \in cooling)
    <2>1. Call(node, 1)
      BY <1>5 DEF TickCooldown
    <2> QED BY <1>1, <1>2, <1>3, <1>5, <2>1, DecoratorEnters
  <1> QED BY <1>4, <1>5

LEMMA TickReflectionGuardKind ==
    ASSUME FlowTypes, TickReflectionGuard
    PROVE  FlowTypes' /\ (Enters \/ TurnsBack)
  <1>1. phase = "down" /\ flow[node].kind = "ReflectionGuard" /\ flow[node].kind \in Decorators
    BY DEF TickReflectionGuard, Called, Decorators
  <1>2. flow[node].kids # 0
    BY <1>1, NodeFacts
  <1>3. UNCHANGED <<flow, treeState, round, session, route, path, slotState, passHistory>>
    BY DEF TickReflectionGuard, blackboard
  <1>4. CASE round >= flow[node].num
    BY <1>1, <1>3, <1>4, NodeTurnsBack DEF TickReflectionGuard
  <1>5. CASE ~(round >= flow[node].num)
    <2>1. Call(node, 1)
      BY <1>5 DEF TickReflectionGuard
    <2> QED BY <1>1, <1>2, <1>3, <1>5, <2>1, DecoratorEnters
  <1> QED BY <1>4, <1>5

\* These decorators always run their child.
LEMMA TickInverterKind ==
    ASSUME FlowTypes, TickInverter
    PROVE  FlowTypes' /\ Enters
  <1>1. phase = "down" /\ flow[node].kind \in {"Inverter", "ForceHuman"} /\ flow[node].kind \in Decorators
    BY DEF TickInverter, Called, Decorators
  <1>2. flow[node].kids # 0
    BY <1>1, NodeFacts
  <1>3. Call(node, 1) /\ UNCHANGED <<flow, treeState, round, session, route, path, slotState, passHistory>>
    BY DEF TickInverter, blackboard
  <1> QED BY <1>1, <1>2, <1>3, DecoratorEnters

LEMMA TickWhenKind ==
    ASSUME FlowTypes, TickWhen
    PROVE  FlowTypes' /\ (Enters \/ TurnsBack)
  <1>1. phase = "down" /\ flow[node].kind = "When" /\ flow[node].kind \in Decorators
    BY DEF TickWhen, Called, Decorators
  <1>2. flow[node].kids # 0
    BY <1>1, NodeFacts
  <1>3. UNCHANGED <<flow, treeState, round, session, route, path, slotState, passHistory>>
    BY DEF TickWhen, blackboard
  <1>4. Return(node, "Error") \/ Return(node, "Failure") \/ Call(node, 1)
    BY DEF TickWhen
  <1>5. CASE Return(node, "Error") \/ Return(node, "Failure")
    BY <1>1, <1>3, <1>5, NodeTurnsBack
  <1>6. CASE Call(node, 1)
    BY <1>1, <1>2, <1>3, <1>6, DecoratorEnters
  <1> QED BY <1>4, <1>5, <1>6

LEMMA TickSubTreeKind ==
    ASSUME FlowTypes, TickSubTree
    PROVE  FlowTypes' /\ (Enters \/ TurnsBack)
  <1>1. phase = "down" /\ flow[node].kind = "SubTree" /\ flow[node].kind \in Decorators
    BY DEF TickSubTree, Called, Decorators
  <1>2. UNCHANGED <<flow, treeState, round, session, route, path, slotState, passHistory>>
    BY DEF TickSubTree
  <1>3. CASE Len(scopes) >= MaxScopes \/ flow[node].kids = 0
    BY <1>1, <1>2, <1>3, NodeTurnsBack DEF TickSubTree
  <1>4. CASE ~(Len(scopes) >= MaxScopes \/ flow[node].kids = 0)
    BY <1>1, <1>2, <1>4, DecoratorEnters DEF TickSubTree
  <1> QED BY <1>3, <1>4

LEMMA LeaveInverterKind ==
    ASSUME FlowTypes, LeaveInverter
    PROVE  FlowTypes' /\ Climbs
  <1>1. Returned({"Inverter"}) /\ {"Inverter"} \subseteq Decorators /\ status \in {"Success", "Failure", "Running"}
    BY DEF LeaveInverter, Returned, Decorators, FlowTypes, Statuses
  <1>2. PICK s \in {"Success", "Failure", "Running"} :
              s = Inverted(status) /\ (s = "Running" <=> status = "Running")
    BY <1>1 DEF Inverted
  <1>3. Return(Parent(node), s)
    BY <1>2 DEF LeaveInverter
  <1>4. /\ cooling' = cooling \/ (status # "Running" /\ cooling' = cooling \cup {Parent(node)})
        /\ round' = round \/ (status # "Running" /\ round' = round + 1)
    BY DEF LeaveInverter, treeState, blackboard
  <1>5. UNCHANGED <<flow, activeChild, attempts, tally, pending, late, session, route, path, slotState, passHistory>>
    BY DEF LeaveInverter, treeState
  <1> QED BY <1>1, <1>2, <1>3, <1>4, <1>5, DecoratorClimbs

LEMMA LeaveForceHumanKind ==
    ASSUME FlowTypes, LeaveForceHuman
    PROVE  FlowTypes' /\ Climbs
  <1>1. Returned({"ForceHuman"}) /\ {"ForceHuman"} \subseteq Decorators /\ status \in {"Success", "Failure", "Running"}
    BY DEF LeaveForceHuman, Returned, Decorators, FlowTypes, Statuses
  <1>2. PICK s \in {"Success", "Failure", "Running"} :
              s = status /\ (s = "Running" <=> status = "Running")
    BY <1>1
  <1>3. Return(Parent(node), s)
    BY <1>2 DEF LeaveForceHuman
  <1>4. /\ cooling' = cooling \/ (status # "Running" /\ cooling' = cooling \cup {Parent(node)})
        /\ round' = round \/ (status # "Running" /\ round' = round + 1)
    BY DEF LeaveForceHuman, treeState, blackboard
  <1>5. UNCHANGED <<flow, activeChild, attempts, tally, pending, late, session, route, path, slotState, passHistory>>
    BY DEF LeaveForceHuman, treeState
  <1> QED BY <1>1, <1>2, <1>3, <1>4, <1>5, DecoratorClimbs

LEMMA LeaveCooldownKind ==
    ASSUME FlowTypes, LeaveCooldown
    PROVE  FlowTypes' /\ Climbs
  <1>1. Returned({"Cooldown"}) /\ {"Cooldown"} \subseteq Decorators /\ status \in {"Success", "Failure", "Running"}
    BY DEF LeaveCooldown, Returned, Decorators, FlowTypes, Statuses
  <1>2. PICK s \in {"Success", "Failure", "Running"} :
              s = status /\ (s = "Running" <=> status = "Running")
    BY <1>1
  <1>3. Return(Parent(node), s)
    BY <1>2 DEF LeaveCooldown
  <1>4. /\ cooling' = cooling \/ (status # "Running" /\ cooling' = cooling \cup {Parent(node)})
        /\ round' = round \/ (status # "Running" /\ round' = round + 1)
    BY DEF LeaveCooldown, treeState, blackboard
  <1>5. UNCHANGED <<flow, activeChild, attempts, tally, pending, late, session, route, path, slotState, passHistory>>
    BY DEF LeaveCooldown, treeState
  <1> QED BY <1>1, <1>2, <1>3, <1>4, <1>5, DecoratorClimbs

LEMMA LeaveReflectionGuardKind ==
    ASSUME FlowTypes, LeaveReflectionGuard
    PROVE  FlowTypes' /\ Climbs
  <1>1. Returned({"ReflectionGuard"}) /\ {"ReflectionGuard"} \subseteq Decorators /\ status \in {"Success", "Failure", "Running"}
    BY DEF LeaveReflectionGuard, Returned, Decorators, FlowTypes, Statuses
  <1>2. PICK s \in {"Success", "Failure", "Running"} :
              s = status /\ (s = "Running" <=> status = "Running")
    BY <1>1
  <1>3. Return(Parent(node), s)
    BY <1>2 DEF LeaveReflectionGuard
  <1>4. /\ cooling' = cooling \/ (status # "Running" /\ cooling' = cooling \cup {Parent(node)})
        /\ round' = round \/ (status # "Running" /\ round' = round + 1)
    BY DEF LeaveReflectionGuard, treeState, blackboard
  <1>5. UNCHANGED <<flow, activeChild, attempts, tally, pending, late, session, route, path, slotState, passHistory>>
    BY DEF LeaveReflectionGuard, treeState
  <1> QED BY <1>1, <1>2, <1>3, <1>4, <1>5, DecoratorClimbs

LEMMA LeaveWhenKind ==
    ASSUME FlowTypes, LeaveWhen
    PROVE  FlowTypes' /\ Climbs
  <1>1. Returned({"When"}) /\ {"When"} \subseteq Decorators /\ status \in {"Success", "Failure", "Running"}
    BY DEF LeaveWhen, Returned, Decorators, FlowTypes, Statuses
  <1>2. PICK s \in {"Success", "Failure", "Running"} :
              s = status /\ (s = "Running" <=> status = "Running")
    BY <1>1
  <1>3. Return(Parent(node), s)
    BY <1>2 DEF LeaveWhen
  <1>4. /\ cooling' = cooling \/ (status # "Running" /\ cooling' = cooling \cup {Parent(node)})
        /\ round' = round \/ (status # "Running" /\ round' = round + 1)
    BY DEF LeaveWhen, treeState, blackboard
  <1>5. UNCHANGED <<flow, activeChild, attempts, tally, pending, late, session, route, path, slotState, passHistory>>
    BY DEF LeaveWhen, treeState
  <1> QED BY <1>1, <1>2, <1>3, <1>4, <1>5, DecoratorClimbs

LEMMA LeaveSubTreeKind ==
    ASSUME FlowTypes, LeaveSubTree
    PROVE  FlowTypes' /\ Climbs
  <1>1. Returned({"SubTree"}) /\ {"SubTree"} \subseteq Decorators /\ status \in {"Success", "Failure", "Running"}
    BY DEF LeaveSubTree, Returned, Decorators, FlowTypes, Statuses
  <1>2. PICK s \in {"Success", "Failure", "Running"} :
              s = status /\ (s = "Running" <=> status = "Running")
    BY <1>1
  <1>3. Return(Parent(node), s)
    BY <1>2 DEF LeaveSubTree
  <1>4. /\ cooling' = cooling \/ (status # "Running" /\ cooling' = cooling \cup {Parent(node)})
        /\ round' = round \/ (status # "Running" /\ round' = round + 1)
    BY DEF LeaveSubTree, treeState, blackboard
  <1>5. UNCHANGED <<flow, activeChild, attempts, tally, pending, late, session, route, path, slotState, passHistory>>
    BY DEF LeaveSubTree, treeState
  <1> QED BY <1>1, <1>2, <1>3, <1>4, <1>5, DecoratorClimbs

\* A Repeater runs its child again, or is over.
LEMMA LeaveRepeaterKind ==
    ASSUME FlowTypes, LeaveRepeater
    PROVE  FlowTypes' /\ (Crosses \/ Climbs)
  <1>1. PICK up \in DOMAIN flow : up = Parent(node)
    BY NodeFacts DEF LeaveRepeater, Returned
  <1>2. PICK i \in 1..flow[up].kids : node = Append(up, i)
    BY <1>1, NodeFacts DEF LeaveRepeater, Returned
  <1>3. /\ phase = "up" /\ status \in {"Success", "Failure", "Running"} /\ flow[up].kind = "Repeater"
        /\ flow[up].kids \in Nat /\ round \in Nat
    BY <1>1, NodeFacts DEF LeaveRepeater, Returned, FlowTypes, Statuses
  <1>4. flow[up].kind \notin Composites /\ flow[up].kind \notin Walks /\ flow[up].kind # "Parallel"
    BY <1>3 DEF Walks, Composites
  <1>5. UNCHANGED <<flow, activeChild, tally, cooling, pending, round, asker, path, executor, fired, clean, misread>>
    BY DEF LeaveRepeater, blackboard, session, slotState, passHistory
  <1>6. CASE status = "Running" \/ attempts[up] + 1 >= flow[up].num
    <2>1. Return(up, status) /\ route' = route
      BY <1>1, <1>6 DEF LeaveRepeater
    <2>2. phase' = "up" /\ node' = up /\ status' = status
      BY <2>1 DEF Return
    <2>3. Climbs
      BY <1>2, <1>3, <1>4, <1>5, <2>1, <2>2 DEF Climbs
    <2>4. FlowTypes'
      BY <1>3, <1>5, <2>1, <2>2 DEF FlowTypes, Statuses, Prompts
    <2> QED BY <2>3, <2>4
  <1>7. CASE ~(status = "Running" \/ attempts[up] + 1 >= flow[up].num)
    <2>1. Call(up, 1) /\ route' \in {route, <<>>}
      BY <1>1, <1>7 DEF LeaveRepeater
    <2>2. phase' = "down" /\ node' = Append(up, 1) /\ status' = "none" /\ 1 \in 1..flow[up].kids
      BY <1>2, <1>3, <2>1 DEF Call
    <2>3. Append(up, 1) \in DOMAIN flow
      BY <2>2 DEF FlowTypes, IsTree
    <2>4. Crosses
      <3>1. PICK j \in 1..flow[up].kids : j = 1
        BY <2>2
      <3>2. status # "Running" /\ status # "Error" /\ path' = path /\ (\A d \in DOMAIN flow : d # up => tally'[d] = tally[d])
        BY <1>3, <1>5, <1>7
      <3>3. /\ phase = "up" /\ phase' = "down" /\ node = Append(up, i) /\ node' = Append(up, j)
            /\ IF flow[up].kind \in Composites THEN j = i + 1 ELSE flow[up].kind = "Repeater" /\ j = 1
            /\ flow[up].kind # "Parallel"
        BY <1>2, <1>3, <1>4, <2>2, <3>1
      <3>4. UNCHANGED <<flow, activeChild, cooling, pending, round, asker, executor, fired, clean, misread>>
        BY <1>5
      <3> QED BY <2>1, <3>2, <3>3, <3>4 DEF Crosses
    <2>5. route' \in Addresses
      <3>1. <<>> \in Addresses
        BY DEF Addresses
      <3>2. route \in Addresses
        BY DEF FlowTypes
      <3> QED BY <2>1, <3>1, <3>2
    <2>6. FlowTypes'
      BY <1>5, <2>2, <2>3, <2>5 DEF FlowTypes, Statuses, Prompts
    <2> QED BY <2>4, <2>6
  <1> QED BY <1>6, <1>7

-----------------------------------------------------------------------------
(* The leaves.                                                               *)
LEMMA TickConditionKind ==
    ASSUME FlowTypes, TickCondition
    PROVE  FlowTypes' /\ TurnsBack
  <1>1. phase = "down" /\ flow[node].kind = "Condition"
    BY DEF TickCondition, Called
  <1>2. PICK s \in {"Success", "Failure", "Error"} : Return(node, s)
    BY DEF TickCondition
  <1>3. UNCHANGED <<flow, treeState, round, session, route, path, slotState, passHistory>>
    BY DEF TickCondition, blackboard
  <1> QED BY <1>1, <1>2, <1>3, NodeTurnsBack

LEMMA PromptFailsKind ==
    ASSUME FlowTypes, PromptFails
    PROVE  FlowTypes' /\ TurnsBack
  <1>1. phase = "down" /\ flow[node].kind = "Prompt" /\ Return(node, "Error")
    BY DEF PromptFails, Called
  <1>2. UNCHANGED <<flow, treeState, round, session, route, path, slotState, passHistory>>
    BY DEF PromptFails, blackboard
  <1> QED BY <1>1, <1>2, NodeTurnsBack

LEMMA TickSetVarKind ==
    ASSUME FlowTypes, TickSetVar
    PROVE  FlowTypes' /\ TurnsBack
  <1>1. phase = "down" /\ flow[node].kind = "SetVar" /\ Return(node, "Success")
    BY DEF TickSetVar, Called
  <1>2. UNCHANGED <<flow, treeState, round, session, route, path, slotState, passHistory>>
    BY DEF TickSetVar, blackboard
  <1> QED BY <1>1, <1>2, NodeTurnsBack

LEMMA TickActionKind ==
    ASSUME FlowTypes, TickAction
    PROVE  FlowTypes' /\ TurnsBack
  <1>1. phase = "down" /\ flow[node].kind = "Action"
    BY DEF TickAction, Called
  <1>2. /\ UNCHANGED <<flow, activeChild, tally, cooling, pending, round, asker, route, path, executor, clean, misread>>
    BY DEF TickAction, treeState, session, slotState
  <1>3. PICK s \in {"Success", "Failure", "Error"} : Return(node, s)
    BY DEF TickAction
  <1>4. \/ fired' = fired
        \/ Return(node, "Success") /\ fired' = [fired EXCEPT ![node] = IF @ = 0 THEN 1 ELSE 2]
    BY DEF TickAction
  <1>5. fired' \in [DOMAIN flow -> 0..2]
    BY <1>4 DEF FlowTypes
  <1>6. TurnsBack
    BY <1>1, <1>2, <1>3, <1>4 DEF TurnsBack, Return
  <1>7. FlowTypes'
    BY <1>1, <1>2, <1>3, <1>5 DEF FlowTypes, Return, Statuses, Prompts
  <1> QED BY <1>6, <1>7

\* A prompt asks and waits, or takes the answer and gives up.
LEMMA PromptKinds ==
    ASSUME FlowTypes
    PROVE  /\ PromptSends \/ PromptWaits => FlowTypes' /\ Awaits
           /\ PromptGivesUp \/ PromptReads => FlowTypes' /\ Answered
  <1>1. ASSUME PromptSends \/ PromptWaits
        PROVE  FlowTypes' /\ Awaits
    <2>1. phase = "down" /\ node \in Prompts /\ phase' = "up" /\ node' = node /\ status' = "Running"
      BY <1>1 DEF PromptSends, PromptWaits, Called, Return, Prompts, FlowTypes
    <2>2. UNCHANGED <<flow, activeChild, tally, cooling, round, route, path, executor, fired, clean, misread>>
      BY <1>1 DEF PromptSends, PromptWaits, treeState, blackboard, slotState, passHistory
    <2>3. pending' = pending \cup {node} /\ asker' = IF node \in pending THEN asker ELSE node
      BY <1>1 DEF PromptSends, PromptWaits, Send, treeState, session
    <2>4. Awaits
      BY <2>1, <2>2, <2>3 DEF Awaits
    <2>5. FlowTypes'
      BY <2>1, <2>2, <2>3 DEF FlowTypes, Statuses, Prompts
    <2> QED BY <2>4, <2>5
  <1>2. ASSUME PromptGivesUp \/ PromptReads
        PROVE  FlowTypes' /\ Answered
    <2>1. /\ phase = "down" /\ node \in pending /\ phase' = "up" /\ node' = node
          /\ status' \in {"Success", "Failure"}
          /\ pending' = pending \ {node}
      BY <1>2 DEF PromptGivesUp, PromptReads, Called, Return
    <2>2. UNCHANGED <<flow, activeChild, tally, cooling, round, asker, route, path, executor, fired, clean>>
      <3>1. CASE PromptGivesUp
        BY <3>1 DEF PromptGivesUp, blackboard, session, slotState, passHistory
      <3>2. CASE PromptReads
        BY <3>2 DEF PromptReads, slotState
      <3> QED BY <1>2, <3>1, <3>2
    <2>3. (misread' => misread \/ asker # node) /\ misread' \in BOOLEAN
      <3>1. misread \in BOOLEAN
        BY DEF FlowTypes
      <3>2. CASE PromptGivesUp
        BY <3>1, <3>2 DEF PromptGivesUp, passHistory
      <3>3. CASE PromptReads
        BY <3>1, <3>3, Zenon DEF PromptReads
      <3> QED BY <1>2, <3>2, <3>3
    <2>4. Answered
      BY <2>1, <2>2, <2>3 DEF Answered
    <2>5. FlowTypes'
      BY <2>1, <2>2, <2>3 DEF FlowTypes, Statuses, Prompts
    <2> QED BY <2>4, <2>5
  <1> QED BY <1>1, <1>2

-----------------------------------------------------------------------------
(* The steps outside the walk.                                               *)

\* The tick ends with an error, or at the root; a tick starts; something that
\* the walk does not see; a slot with the tree and nothing else.
Aborts ==
    /\ phase = "up" /\ status = "Error" /\ WalkOver /\ clean' = FALSE
    /\ UNCHANGED <<flow, activeChild, tally, cooling, pending, round, asker, executor, misread>>

Finishes ==
    /\ phase = "up" /\ status # "Error" /\ node = <<>> /\ WalkOver
    /\ executor' = [is_running   |-> status = "Running",
                    running_path |-> IF status = "Running" THEN path ELSE <<>>]
    /\ UNCHANGED <<flow, activeChild, tally, cooling, pending, round, asker, fired, clean, misread>>

Begins ==
    /\ phase = "idle" /\ phase' = "down"
    /\ route' = IF executor.is_running THEN executor.running_path ELSE <<>>
    /\ IF executor.is_running THEN UNCHANGED <<fired, clean>>
       ELSE fired' = [a \in DOMAIN flow |-> 0] /\ clean' = TRUE
    /\ UNCHANGED <<flow, activeChild, tally, cooling, pending, round, asker, node, status, path, executor, misread>>

Rests ==
    /\ cooling' \subseteq cooling
    /\ executor' = executor \/ (phase = "idle" /\ executor' = [is_running |-> FALSE, running_path |-> <<>>])
    /\ UNCHANGED <<flow, activeChild, tally, pending, round, asker, phase, node, status, route, path,
                   fired, clean, misread>>

Blank ==
    /\ IsTree(flow)
    /\ activeChild = [a \in DOMAIN flow |-> 0]
    /\ tally = [a \in DOMAIN flow |-> [won |-> 0, lost |-> 0]]
    /\ fired = [a \in DOMAIN flow |-> 0]
    /\ cooling = {} /\ pending = {} /\ round = 0
    /\ phase = "idle" /\ node = <<>> /\ status \in Statuses /\ route = <<>> /\ path = <<>>
    /\ executor = [is_running |-> FALSE, running_path |-> <<>>]
    /\ clean = TRUE /\ misread = FALSE

\* A slot that is not attached has a tree of one node.
LEMMA NoFlowTree == IsTree(NoFlow)
  <1>1. /\ DOMAIN NoFlow = {<<>>}
        /\ NoFlow[<<>>].kind = "None" /\ NoFlow[<<>>].num = 0 /\ NoFlow[<<>>].kids = 0
    BY DEF NoFlow
  <1>2. <<>> \in Seq(Nat \ {0}) /\ Len(<<>>) = 0
    OBVIOUS
  <1>3. \A k \in 0..Len(<<>>) - 1 : FALSE
    <2>1. \A n \in Int : n = 0 => \A k \in 0..n - 1 : FALSE
      OBVIOUS
    <2> QED BY <1>2, <2>1
  <1>4. \A i \in 1..NoFlow[<<>>].kids : FALSE
    <2>1. \A n \in Int : n = 0 => \A i \in 1..n : FALSE
      OBVIOUS
    <2> QED BY <1>1, <2>1
  <1>6. "None" \in Leaves /\ "None" \notin Decorators /\ "None" # "Parallel"
    BY DEF Leaves, Decorators
  <1>7. ASSUME NEW a \in DOMAIN NoFlow
        PROVE  /\ a \in Seq(Nat \ {0})
               /\ NoFlow[a].kind = "None" /\ NoFlow[a].num = 0 /\ NoFlow[a].kids = 0
               /\ \A i \in 1..NoFlow[a].kids : Append(a, i) \in DOMAIN NoFlow
               /\ \A k \in 0..Len(a) - 1 : /\ SubSeq(a, 1, k) \in DOMAIN NoFlow
                                           /\ a[k + 1] \in 1..NoFlow[SubSeq(a, 1, k)].kids
    <2>1. a = <<>>
      BY <1>1, <1>7
    <2>2. /\ NoFlow[a].kind = "None" /\ NoFlow[a].num = 0 /\ NoFlow[a].kids = 0
          /\ \A i \in 1..NoFlow[a].kids : Append(a, i) \in DOMAIN NoFlow
      BY <1>1, <1>4, <2>1
    <2>3. a \in Seq(Nat \ {0})
      BY <1>2, <2>1
    <2>4. \A k \in 0..Len(a) - 1 : FALSE
      BY <1>3, <2>1
    <2> QED BY <2>2, <2>3, <2>4
  <1>8. <<>> \in DOMAIN NoFlow
    BY <1>1
  <1> HIDE DEF NoFlow
  <1> QED BY <1>6, <1>7, <1>8 DEF IsTree

\* A new slot is typed.
LEMMA BlankTypes ==
    ASSUME Blank
    PROVE  FlowTypes
  <1>1. node \in DOMAIN flow
    BY DEF Blank, IsTree
  <1>2. <<>> \in Addresses
    BY DEF Addresses
  <1>3. /\ activeChild \in [DOMAIN flow -> Nat] /\ fired \in [DOMAIN flow -> 0..2]
        /\ tally \in [DOMAIN flow -> [won : Nat, lost : Nat]]
    BY DEF Blank
  <1>4. executor \in [is_running : BOOLEAN, running_path : Addresses]
    BY <1>2 DEF Blank
  <1>5. /\ IsTree(flow) /\ cooling \subseteq DOMAIN flow /\ pending \subseteq Prompts /\ round \in Nat
        /\ phase \in {"idle", "down", "up"} /\ status \in Statuses
        /\ phase = "idle" /\ node = <<>> /\ path = <<>> /\ route = <<>>
        /\ clean \in BOOLEAN /\ misread \in BOOLEAN
    BY DEF Blank
  <1>6. phase # "up" /\ route \in Addresses /\ path \in Addresses
    BY <1>2, <1>5
  <1> HIDE DEF Statuses, Prompts
  <1> QED BY <1>1, <1>3, <1>4, <1>5, <1>6 DEF FlowTypes

\* The program starts with no slot.
LEMMA FlowInitBlank ==
    ASSUME FlowInit
    PROVE  Blank
  BY NoFlowTree DEF FlowInit, Blank, Statuses

\* attach_decision_slot and detach leave a slot with nothing in it.
LEMMA NewSlotBlank ==
    ASSUME FlowTypes, NEW t \in Flows \cup {NoFlow}, NewSlot(t), phase = "idle"
    PROVE  Blank'
  <1>1. IsTree(t)
    BY NoFlowTree, FlowsAssumption
  <1>2. node = <<>> /\ status \in Statuses /\ route = <<>> /\ path = <<>>
    BY DEF FlowTypes
  <1> QED BY <1>1, <1>2 DEF NewSlot, Blank, walk

LEMMA BeginsTypes ==
    ASSUME FlowTypes, Begins
    PROVE  FlowTypes'
  <1>1. executor.running_path \in Addresses /\ <<>> \in Addresses
    BY DEF FlowTypes, Addresses
  <1>2. route' \in Addresses
    BY <1>1 DEF Begins
  <1>3. fired' \in [DOMAIN flow -> 0..2] /\ clean' \in BOOLEAN
    <2>1. CASE executor.is_running
      BY <2>1 DEF Begins, FlowTypes
    <2>2. CASE ~executor.is_running
      BY <2>2 DEF Begins
    <2> QED BY <2>1, <2>2
  <1> QED BY <1>2, <1>3 DEF FlowTypes, Begins, Prompts

LEMMA RestsTypes ==
    ASSUME FlowTypes, Rests
    PROVE  FlowTypes'
  <1>1. executor' \in [is_running : BOOLEAN, running_path : Addresses]
    <2>1. <<>> \in Addresses
      BY DEF Addresses
    <2>2. executor \in [is_running : BOOLEAN, running_path : Addresses]
      BY DEF FlowTypes
    <2>3. [is_running |-> FALSE, running_path |-> <<>>] \in [is_running : BOOLEAN, running_path : Addresses]
      BY <2>1
    <2> QED BY <2>2, <2>3 DEF Rests
  <1>2. cooling' \subseteq DOMAIN flow
    BY DEF FlowTypes, Rests
  <1> QED BY <1>1, <1>2 DEF FlowTypes, Rests, Prompts

LEMMA TickFailsKind ==
    ASSUME FlowTypes, TickFails
    PROVE  FlowTypes' /\ Aborts
  <1>1. Aborts
    BY DEF TickFails, Aborts, treeState, blackboard, session, slotState
  <1>2. fired' = fired
    BY DEF TickFails
  <1>3. <<>> \in DOMAIN flow /\ <<>> \in Addresses
    BY DEF FlowTypes, IsTree, Addresses
  <1>4. FlowTypes'
    BY <1>1, <1>2, <1>3 DEF FlowTypes, Aborts, WalkOver, Prompts, Statuses
  <1> QED BY <1>1, <1>4

LEMMA TickEndsKind ==
    ASSUME FlowTypes, TickEnds
    PROVE  FlowTypes' /\ Finishes
  <1>1. Finishes
    BY DEF TickEnds, Finishes, treeState, session, passHistory
  <1>2. <<>> \in DOMAIN flow /\ <<>> \in Addresses
    BY DEF FlowTypes, IsTree, Addresses
  <1>3. executor' \in [is_running : BOOLEAN, running_path : Addresses]
    BY <1>1, <1>2 DEF FlowTypes, Finishes
  <1>4. FlowTypes'
    BY <1>1, <1>2, <1>3 DEF FlowTypes, Finishes, WalkOver, Prompts, Statuses
  <1> QED BY <1>1, <1>4

\* Every step is of one of these kinds.
StepKind ==
    \/ Enters \/ TurnsBack \/ Answered \/ Awaits \/ Crosses \/ Climbs
    \/ Aborts \/ Finishes \/ Begins \/ Rests \/ Blank'

\* Every step of a tick is of one of the kinds.
LEMMA WalkStepKind ==
    ASSUME FlowTypes, WalkStep
    PROVE  FlowTypes' /\ StepKind
  <1>1. CASE \/ TickWalk \/ LeaveWalk \/ TickParallel \/ LeaveParallel
             \/ TickRepeater \/ LeaveRepeater \/ TickInverter \/ LeaveInverter \/ LeaveForceHuman
    BY <1>1, TickWalkKind, LeaveWalkKind, TickParallelKind, LeaveParallelKind, TickRepeaterKind,
       LeaveRepeaterKind, TickInverterKind, LeaveInverterKind, LeaveForceHumanKind DEF StepKind
  <1>2. CASE \/ TickCooldown \/ LeaveCooldown \/ TickReflectionGuard \/ LeaveReflectionGuard
             \/ TickWhen \/ LeaveWhen \/ TickSubTree \/ LeaveSubTree
    BY <1>2, TickCooldownKind, LeaveCooldownKind, TickReflectionGuardKind, LeaveReflectionGuardKind,
       TickWhenKind, LeaveWhenKind, TickSubTreeKind, LeaveSubTreeKind DEF StepKind
  <1>3. CASE \/ TickCondition \/ TickAction \/ TickSetVar
             \/ PromptSends \/ PromptFails \/ PromptGivesUp \/ PromptWaits \/ PromptReads
             \/ TickFails \/ TickEnds
    BY <1>3, TickConditionKind, TickActionKind, TickSetVarKind, PromptFailsKind, PromptKinds, TickFailsKind, TickEndsKind DEF StepKind
  <1> QED BY <1>1, <1>2, <1>3 DEF WalkStep

\* Every step is of one of the kinds and keeps the types.
LEMMA FlowStepKind ==
    ASSUME FlowTypes, [FlowNext]_flowVars
    PROVE  FlowTypes' /\ StepKind
  <1>1. ASSUME NEW t \in Flows, AttachDecisionSlot(t)
        PROVE  FlowTypes' /\ StepKind
    <2>1. Blank'
      BY <1>1, NewSlotBlank DEF AttachDecisionSlot
    <2>2. FlowTypes'
      BY <2>1, BlankTypes, PTL
    <2> QED BY <2>1, <2>2 DEF StepKind
  <1>2. ASSUME DetachDecisionSlot
        PROVE  FlowTypes' /\ StepKind
    <2>1. Blank'
      BY <1>2, NewSlotBlank DEF DetachDecisionSlot
    <2>2. FlowTypes'
      BY <2>1, BlankTypes, PTL
    <2> QED BY <2>1, <2>2 DEF StepKind
  <1>3. ASSUME (\E b \in BOOLEAN : WorkAgentFinished(b)) \/ PollDecisionSlot
        PROVE  FlowTypes' /\ StepKind
    <2>1. Begins
      <3>1. ASSUME NEW b \in BOOLEAN, WorkAgentFinished(b)
            PROVE  Begins
        BY <3>1 DEF WorkAgentFinished, TickStarts, Begins, treeState, session, slotState
      <3>2. CASE PollDecisionSlot
        BY <3>2 DEF PollDecisionSlot, TickStarts, Begins, treeState, blackboard, session
      <3> QED BY <1>3, <3>1, <3>2
    <2> QED BY <2>1, BeginsTypes DEF StepKind
  <1>4. CASE WalkStep
    BY <1>4, WalkStepKind
  <1>5. ASSUME \/ ClearPendingCommands \/ ClearSlot \/ \E r \in Replies : ProviderReplies(r)
               \/ \E a \in pending : PromptTimesOut(a)
               \/ \E a \in cooling : CooldownEnds(a)
               \/ UNCHANGED flowVars
        PROVE  FlowTypes' /\ StepKind
    <2>1. Rests
      <3>1. CASE ClearPendingCommands
        BY <3>1 DEF ClearPendingCommands, Rests, treeState, blackboard, session, walk, passHistory
      <3>2. CASE ClearSlot
        BY <3>2 DEF ClearSlot, Rests, treeState, session, walk, passHistory
      <3>3. ASSUME NEW r \in Replies, ProviderReplies(r)
            PROVE  Rests
        BY <3>3 DEF ProviderReplies, Rests, treeState, blackboard, walk, slotState, passHistory
      <3>4. ASSUME NEW a \in pending, PromptTimesOut(a)
            PROVE  Rests
        BY <3>4 DEF PromptTimesOut, Rests, blackboard, session, walk, slotState, passHistory
      <3>5. ASSUME NEW a \in cooling, CooldownEnds(a)
            PROVE  Rests
        BY <3>5 DEF CooldownEnds, Rests, blackboard, session, walk, slotState, passHistory
      <3>6. CASE UNCHANGED flowVars
        BY <3>6 DEF flowVars, Rests, treeState, blackboard, session, walk, slotState, passHistory
      <3> QED BY <1>5, <3>1, <3>2, <3>3, <3>4, <3>5, <3>6
    <2> QED BY <2>1, RestsTypes DEF StepKind
  <1> QED BY <1>1, <1>2, <1>3, <1>4, <1>5 DEF FlowNext

-----------------------------------------------------------------------------
(* Actions run once.                                                         *)
Once(a) == NoPath(a) /\ (clean => fired[a] <= 1 /\ (fired[a] = 1 => Passed(a)))

\* Nothing is above itself.
LEMMA NotAboveItself ==
    ASSUME NEW x \in Addresses, NEW y \in Addresses
    PROVE  ~Above(x, x) /\ ~(Above(x, y) /\ Above(y, x))
  <1>1. Len(x) \in Nat /\ Len(y) \in Nat
    BY DEF Addresses
  <1> QED BY <1>1 DEF Above

\* What is above an action that runs once, and that nothing is below it.
LEMMA SparedFacts ==
    ASSUME FlowTypes, NEW a, Spared(a)
    PROVE  /\ a \in DOMAIN flow /\ a \in Addresses
           /\ \A x \in DOMAIN flow :
                 /\ x \in Addresses
                 /\ ~Above(a, x)
                 /\ Above(x, a) => /\ flow[x].kind \in Walks \cup Decorators
                                   /\ flow[x].kind \notin {"Parallel", "Repeater"}
                                   /\ a[Len(x) + 1] \in Nat \ {0}
                                   /\ flow[x].kind \notin Walks => flow[x].kids = 1 /\ a[Len(x) + 1] = 1
  <1>1. IsTree(flow) /\ a \in DOMAIN flow /\ a \in Addresses
    BY TreeFacts DEF FlowTypes, Spared
  <1>2. ASSUME NEW x \in DOMAIN flow
        PROVE  x \in Addresses
    BY <1>1, TreeFacts
  <1>3. ASSUME NEW x \in DOMAIN flow, Above(a, x)
        PROVE  FALSE
    <2>1. flow[a].kind \in Composites \cup Decorators
      BY <1>1, <1>3, TreeFacts
    <2>2. flow[a].kind = "Action"
      BY DEF Spared
    <2> QED BY <2>1, <2>2 DEF Composites, Walks, Decorators
  <1>4. ASSUME NEW x \in DOMAIN flow, Above(x, a)
        PROVE  /\ flow[x].kind \in Walks \cup Decorators
               /\ flow[x].kind \notin {"Parallel", "Repeater"}
               /\ a[Len(x) + 1] \in Nat \ {0}
               /\ flow[x].kind \notin Walks => flow[x].kids = 1 /\ a[Len(x) + 1] = 1
    <2>1. flow[x].kind \notin {"Parallel", "Repeater"}
      BY <1>4 DEF Spared, Below
    <2>2. /\ flow[x].kind \in Composites \cup Decorators
          /\ a[Len(x) + 1] \in 1..flow[x].kids
          /\ flow[x].kind \in Decorators => flow[x].kids = 1
      BY <1>1, <1>2, <1>4, TreeFacts
    <2>3. flow[x].kind \in Walks \cup Decorators
      BY <2>1, <2>2 DEF Composites
    <2>4. flow[x].kids \in Nat
      BY <1>1 DEF IsTree
    <2> QED BY <2>1, <2>2, <2>3, <2>4
  <1> QED BY <1>1, <1>2, <1>3, <1>4

\* A child, its parent and what is above and below them.
LEMMA StepFacts ==
    ASSUME FlowTypes, NEW up \in DOMAIN flow, NEW i \in 1..flow[up].kids
    PROVE  /\ up \in Addresses /\ i \in Nat \ {0}
           /\ Append(up, i) \in DOMAIN flow /\ Append(up, i) \in Addresses
           /\ Append(up, i)[Len(up) + 1] = i
           /\ Above(up, Append(up, i))
           /\ \A x \in DOMAIN flow :
                 /\ x \in Addresses
                 /\ Above(x, Append(up, i)) <=> AtOrAbove(x, up)
                 /\ Above(x, up) => Append(up, i)[Len(x) + 1] = up[Len(x) + 1]
                 /\ AtOrAbove(Append(up, i), x) <=> Above(up, x) /\ x[Len(up) + 1] = i
                 /\ AtOrAbove(up, x) <=> up = x \/ Above(up, x)
                 /\ AtOrAbove(x, up) <=> x = up \/ Above(x, up)
                 /\ ~Above(x, x) /\ ~(Above(x, up) /\ Above(up, x))
  <1>1. IsTree(flow) /\ up \in Addresses /\ \A x \in DOMAIN flow : x \in Addresses
    BY TreeFacts DEF FlowTypes
  <1>2. i \in Nat \ {0}
    <2>1. flow[up].kids \in Nat
      BY <1>1 DEF IsTree
    <2> QED BY <2>1
  <1>3. Append(up, i) \in DOMAIN flow
    BY <1>1 DEF IsTree
  <1> QED BY <1>1, <1>2, <1>3, ChildFacts, NotAboveItself DEF AtOrAbove

\* On the way down a walk that is behind a passes it, or stays behind it.
LEMMA OnceEnters ==
    ASSUME FlowTypes, NEW a, Spared(a), Once(a), Enters
    PROVE  Once(a)'
  <1>1. PICK i \in 1..flow[node].kids :
          /\ phase = "down" /\ phase' = "down" /\ node' = Append(node, i)
          /\ flow[node].kind \in Walks /\ Left(node) = <<>> /\ activeChild[node] # 0 => i = activeChild[node]
          /\ UNCHANGED <<flow, activeChild, route, path, executor, fired, clean>>
    BY DEF Enters
  <1>2. node \in DOMAIN flow /\ activeChild \in [DOMAIN flow -> Nat]
    BY DEF FlowTypes
  <1>3. NoPath(a) /\ NoPath(a)'
    BY <1>1 DEF Once, NoPath
  <1>4. SUFFICES ASSUME clean, fired[a] = 1, Passed(a)
                 PROVE  Passed(a)'
    BY <1>1, <1>3 DEF Once
  <1>5. SUFFICES Past(a)' \/ (Above(node', a) /\ Behind(node, a)')
    BY <1>1 DEF Passed
  <1>6. CASE Past(a)
    <2>1. PICK c \in DOMAIN flow : Above(c, node) /\ Above(c, a) /\ node[Len(c) + 1] > a[Len(c) + 1]
      BY <1>6 DEF Past
    <2>2. Above(c, node') /\ node'[Len(c) + 1] = node[Len(c) + 1]
      BY <1>1, <1>2, <2>1, StepFacts
    <2> QED BY <1>1, <2>1, <2>2 DEF Past
  <1>7. CASE Above(node, a) /\ Behind(node, a)
    <2>1. PICK c \in DOMAIN flow :
            /\ AtOrAbove(node, c) /\ Above(c, a) /\ flow[c].kind \in Composites
            /\ activeChild[c] > a[Len(c) + 1]
            /\ LeadsTo(node, c)
      BY <1>7 DEF Behind
    <2>2. route = <<>> /\ Left(node) = <<>>
      BY <1>2, <1>3, LeftFacts DEF NoPath, FlowTypes
    <2>3. flow[node].kind \in Walks => activeChild[node] = 0 \/ i = activeChild[node]
      BY <1>1, <2>2
    <2>4. CASE c = node
      <3>1. flow[node].kind \in Walks /\ a[Len(node) + 1] \in Nat \ {0} /\ activeChild[node] \in Nat
        BY <1>2, <1>7, <2>1, <2>4, SparedFacts DEF Composites
      <3>2. i > a[Len(node) + 1]
        BY <2>1, <2>3, <2>4, <3>1
      <3>3. Above(node, node') /\ node'[Len(node) + 1] = i
        BY <1>1, <1>2, StepFacts
      <3> QED BY <1>1, <1>2, <1>7, <3>2, <3>3 DEF Past
    <2>5. CASE Above(node, c)
      <3>1. IsTree(flow) /\ node \in Addresses /\ c \in Addresses /\ a \in Addresses
        BY <1>2, SparedFacts DEF FlowTypes
      <3>2. c[Len(node) + 1] = i
        <4>1. CASE flow[node].kind \in Walks
          <5>1. activeChild[node] = c[Len(node) + 1]
            BY <1>2, <2>1, <2>5, <4>1 DEF LeadsTo, AtOrAbove, Composites
          <5>2. c[Len(node) + 1] \in 1..flow[node].kids
            BY <2>5, <3>1, TreeFacts
          <5>3. c[Len(node) + 1] # 0
            BY <5>2, NodeFacts
          <5> QED BY <2>3, <4>1, <5>1, <5>3
        <4>2. CASE flow[node].kind \notin Walks
          <5>1. flow[node].kids = 1
            BY <1>2, <1>7, <4>2, SparedFacts
          <5>2. c[Len(node) + 1] \in 1..flow[node].kids
            BY <2>5, <3>1, TreeFacts
          <5> QED BY <5>1, <5>2
        <4> QED BY <4>1, <4>2
      <3>3. AtOrAbove(node', c)
        BY <1>1, <1>2, <2>5, <3>2, StepFacts
      <3>4. node' \in Addresses
        BY <1>1, <1>2, StepFacts
      <3>5. Above(node', a)
        BY <2>1, <3>1, <3>3, <3>4, AboveTransitive
      <3>6. ASSUME NEW d \in DOMAIN flow, AtOrAbove(node', d)
            PROVE  AtOrAbove(node, d)
        BY <1>1, <1>2, <3>6, StepFacts
      <3>7. LeadsTo(node, c)'
        BY <1>1, <2>1, <3>6 DEF LeadsTo
      <3>8. Behind(node, a)'
        BY <1>1, <2>1, <3>3, <3>7 DEF Behind, LeadsTo
      <3> QED BY <3>5, <3>8
    <2> QED BY <2>1, <2>4, <2>5 DEF AtOrAbove
  <1> QED BY <1>1, <1>4, <1>6, <1>7 DEF Passed

\* Only the walk at a runs the action, and it is not behind it.
LEMMA OnceTurnsBack ==
    ASSUME FlowTypes, NEW a, Spared(a), Once(a), TurnsBack \/ Answered
    PROVE  Once(a)'
  <1>1. /\ phase = "down" /\ phase' = "up" /\ node' = node /\ status' \in {"Success", "Failure", "Error"}
        /\ UNCHANGED <<flow, route, path, executor, clean>>
        /\ \/ fired' = fired
           \/ /\ flow[node].kind = "Action" /\ status' = "Success"
              /\ fired' = [fired EXCEPT ![node] = IF @ = 0 THEN 1 ELSE 2]
    BY DEF TurnsBack, Answered
  <1>2. node \in DOMAIN flow /\ a \in DOMAIN flow /\ fired \in [DOMAIN flow -> 0..2]
    BY DEF FlowTypes, Spared
  <1>3. NoPath(a)'
    BY <1>1 DEF Once, NoPath
  <1>4. Passed(a) => Past(a) \/ Above(node, a)
    BY <1>1 DEF Passed
  <1>5. Past(a) \/ AtOrAbove(node, a) => Passed(a)'
    BY <1>1 DEF Passed, Past
  <1>6. CASE fired'[a] = fired[a]
    BY <1>1, <1>3, <1>4, <1>5, <1>6 DEF Once, AtOrAbove
  <1>7. CASE fired'[a] # fired[a]
    <2>1. node = a /\ fired'[a] = IF fired[a] = 0 THEN 1 ELSE 2
      BY <1>1, <1>2, <1>7
    <2>2. ~Above(a, a)
      BY <1>2, SparedFacts
    <2>3. ~Past(a)
      <3>1. ASSUME NEW c \in DOMAIN flow, Above(c, a), a[Len(c) + 1] > a[Len(c) + 1]
            PROVE  FALSE
        <4>1. a[Len(c) + 1] \in Nat
          BY <3>1, SparedFacts
        <4> QED BY <3>1, <4>1
      <3> QED BY <2>1, <3>1 DEF Past
    <2>4. clean => fired[a] = 0
      BY <1>2, <1>4, <2>1, <2>2, <2>3 DEF Once
    <2>5. Passed(a)'
      BY <1>5, <2>1 DEF AtOrAbove
    <2> QED BY <1>1, <1>3, <2>1, <2>4, <2>5 DEF Once
  <1> QED BY <1>6, <1>7

\* A prompt has no action below it.
LEMMA OnceAwaits ==
    ASSUME FlowTypes, NEW a, Spared(a), Once(a), Awaits
    PROVE  Once(a)'
  <1>1. /\ phase = "down" /\ phase' = "up" /\ node' = node /\ status' = "Running" /\ node \in Prompts
        /\ UNCHANGED <<flow, route, path, executor, fired, clean>>
    BY DEF Awaits
  <1>2. ~Above(node, a) /\ node # a
    <2>1. flow[node].kind = "Prompt" /\ flow[a].kind = "Action"
      BY <1>1 DEF Prompts, Spared
    <2>2. Above(node, a) => flow[node].kind \in Walks \cup Decorators
      BY <1>1, SparedFacts DEF Prompts
    <2> QED BY <2>1, <2>2 DEF Walks, Decorators
  <1>3. NoPath(a)'
    BY <1>1, <1>2 DEF Once, NoPath, AtOrAbove
  <1>4. Passed(a) => Past(a)
    BY <1>1, <1>2 DEF Passed
  <1>5. Past(a) => Passed(a)'
    BY <1>1 DEF Passed, Past
  <1> QED BY <1>1, <1>3, <1>4, <1>5 DEF Once

\* The next child is past what is below the one that returned.
LEMMA OnceCrosses ==
    ASSUME FlowTypes, NEW a, Spared(a), Once(a), Crosses
    PROVE  Once(a)'
  <1>1. PICK up \in DOMAIN flow : \E i, j \in 1..flow[up].kids :
          /\ phase = "up" /\ phase' = "down" /\ node = Append(up, i) /\ node' = Append(up, j)
          /\ status # "Error"
          /\ IF flow[up].kind \in Composites THEN j = i + 1 ELSE flow[up].kind = "Repeater" /\ j = 1
          /\ route' \in {route, <<>>}
          /\ UNCHANGED <<flow, activeChild, executor, fired, clean>>
    BY DEF Crosses
  <1>2. PICK i \in 1..flow[up].kids, j \in 1..flow[up].kids :
          /\ phase = "up" /\ phase' = "down" /\ node = Append(up, i) /\ node' = Append(up, j)
          /\ status # "Error"
          /\ IF flow[up].kind \in Composites THEN j = i + 1 ELSE flow[up].kind = "Repeater" /\ j = 1
          /\ route' \in {route, <<>>}
          /\ UNCHANGED <<flow, activeChild, executor, fired, clean>>
    BY <1>1
  <1>3. NoPath(a)'
    BY <1>2 DEF Once, NoPath
  <1>4. SUFFICES ASSUME clean, fired[a] = 1, Passed(a)
                 PROVE  Past(a)'
    BY <1>2, <1>3 DEF Once, Passed
  <1>5. /\ i \in Nat \ {0} /\ node'[Len(up) + 1] = j /\ node[Len(up) + 1] = i
        /\ Above(up, node) /\ Above(up, node')
    BY <1>2, StepFacts
  <1>6. Above(up, a) => j = i + 1 /\ a[Len(up) + 1] \in Nat
    BY <1>2, SparedFacts
  <1>7. CASE Past(a)
    <2>1. PICK c \in DOMAIN flow : Above(c, node) /\ Above(c, a) /\ node[Len(c) + 1] > a[Len(c) + 1]
      BY <1>7 DEF Past
    <2>2. c = up \/ Above(c, up)
      BY <1>2, <2>1, StepFacts
    <2>3. Above(c, up) => Above(c, node') /\ node'[Len(c) + 1] = node[Len(c) + 1]
      <3>1. Append(up, i)[Len(c) + 1] = up[Len(c) + 1] \/ ~Above(c, up)
        BY StepFacts
      <3>2. Append(up, j)[Len(c) + 1] = up[Len(c) + 1] \/ ~Above(c, up)
        BY StepFacts
      <3>3. Above(c, up) => Above(c, Append(up, j))
        BY StepFacts DEF AtOrAbove
      <3>4. node = Append(up, i) /\ node' = Append(up, j)
        BY <1>2
      <3> QED BY <3>1, <3>2, <3>3, <3>4
    <2>4. Above(c, node') /\ node'[Len(c) + 1] > a[Len(c) + 1]
      <3>1. CASE c = up
        BY <1>5, <1>6, <2>1, <3>1
      <3> QED BY <2>1, <2>2, <2>3, <3>1
    <2> QED BY <1>2, <2>1, <2>4 DEF Past
  <1>8. CASE AtOrAbove(node, a)
    <2>1. Above(up, a) /\ a[Len(up) + 1] = i
      BY <1>2, <1>8, StepFacts DEF Spared
    <2> QED BY <1>2, <1>5, <1>6, <2>1 DEF Past
  <1> QED BY <1>2, <1>4, <1>7, <1>8 DEF Passed

\* A composite that is running remembers the child, so that it is behind a.
LEMMA OnceClimbs ==
    ASSUME FlowTypes, NEW a, Spared(a), Once(a), Climbs
    PROVE  Once(a)'
  <1>1. PICK up \in DOMAIN flow : \E i \in 1..flow[up].kids :
          /\ phase = "up" /\ phase' = "up" /\ node = Append(up, i) /\ node' = up
          /\ status \in {"Success", "Failure", "Running"} /\ status' \in {"Success", "Failure", "Running"}
          /\ flow[up].kind # "Parallel" => (status' = "Running" <=> status = "Running")
          /\ flow[up].kind \in Walks /\ status = "Running" => activeChild'[up] = i
          /\ \A d \in DOMAIN flow : d # up => activeChild'[d] = activeChild[d]
          /\ path' = IF status = "Running" /\ flow[up].kind \in Composites THEN PathStack(up) ELSE path
          /\ UNCHANGED <<flow, route, executor, fired, clean>>
    BY DEF Climbs
  <1>2. PICK i \in 1..flow[up].kids :
          /\ phase = "up" /\ phase' = "up" /\ node = Append(up, i) /\ node' = up
          /\ status \in {"Success", "Failure", "Running"} /\ status' \in {"Success", "Failure", "Running"}
          /\ flow[up].kind # "Parallel" => (status' = "Running" <=> status = "Running")
          /\ flow[up].kind \in Walks /\ status = "Running" => activeChild'[up] = i
          /\ \A d \in DOMAIN flow : d # up => activeChild'[d] = activeChild[d]
          /\ path' = IF status = "Running" /\ flow[up].kind \in Composites THEN PathStack(up) ELSE path
          /\ UNCHANGED <<flow, route, executor, fired, clean>>
    BY <1>1
  <1>3. a \in DOMAIN flow /\ a \in Addresses /\ up \in Addresses /\ node \in Addresses /\ node[Len(up) + 1] = i
        /\ i \in Nat \ {0}
    BY <1>2, StepFacts, SparedFacts
  <1>4. up # a
    <2>1. Above(up, node) /\ node \in DOMAIN flow
      BY <1>2, StepFacts
    <2> QED BY <2>1, SparedFacts
  <1>5. Above(up, a) => /\ (status' = "Running" <=> status = "Running")
                        /\ a[Len(up) + 1] \in Nat \ {0}
                        /\ flow[up].kind \notin Walks => flow[up].kind \notin Composites /\ i = 1 /\ a[Len(up) + 1] = 1
    <2>1. Above(up, a) => /\ flow[up].kind \in Walks \cup Decorators
                          /\ flow[up].kind # "Parallel"
                          /\ a[Len(up) + 1] \in Nat \ {0}
                          /\ flow[up].kind \notin Walks => flow[up].kids = 1 /\ a[Len(up) + 1] = 1
      BY SparedFacts
    <2> QED BY <1>2, <2>1 DEF Composites
  <1>6. AtOrAbove(node, a) <=> Above(up, a) /\ a[Len(up) + 1] = i
    BY <1>2, <1>3, StepFacts
  <1>7. NoPath(a)'
    <2>1. SUFFICES ASSUME status' = "Running", AtOrAbove(up, a), ~Below(up, Composites)
                   PROVE  path' = <<>>
      BY <1>2 DEF Once, NoPath, Below
    <2>2. Above(up, a) /\ status = "Running"
      BY <1>4, <1>5, <2>1 DEF AtOrAbove
    <2>3. CASE flow[up].kind \in Walks
      <3>1. path' = PathStack(up)
        BY <1>2, <2>2, <2>3 DEF Composites
      <3> QED BY <2>1, <3>1, PathStackFacts DEF FlowTypes
    <2>4. CASE flow[up].kind \notin Walks
      <3>1. path' = path /\ AtOrAbove(node, a)
        BY <1>2, <1>5, <1>6, <2>2, <2>4
      <3>2. ~Below(node, Composites)
        <4>1. ASSUME NEW x \in DOMAIN flow, Above(x, node), flow[x].kind \in Composites
              PROVE  FALSE
          <5>1. x = up \/ Above(x, up)
            BY <1>2, <4>1, StepFacts
          <5> QED BY <1>5, <2>1, <2>2, <2>4, <4>1, <5>1 DEF Below
        <4> QED BY <4>1 DEF Below
      <3> QED BY <1>2, <2>2, <3>1, <3>2 DEF Once, NoPath
    <2> QED BY <2>3, <2>4
  <1>8. SUFFICES ASSUME clean, fired[a] = 1, Passed(a)
                 PROVE  Passed(a)'
    BY <1>2, <1>7 DEF Once
  <1>9. SUFFICES Past(a)' \/ (AtOrAbove(up, a) /\ (status' = "Running" => Behind(node, a)'))
    BY <1>2 DEF Passed
  <1>10. CASE Past(a)
    <2>1. PICK c \in DOMAIN flow : Above(c, node) /\ Above(c, a) /\ node[Len(c) + 1] > a[Len(c) + 1]
      BY <1>10 DEF Past
    <2>2. c = up \/ Above(c, up)
      BY <1>2, <2>1, StepFacts
    <2>3. CASE c = up
      <3>1. Above(up, a) /\ i > a[Len(up) + 1]
        BY <1>3, <2>1, <2>3
      <3>2. ASSUME status' = "Running"
            PROVE  Behind(node, a)'
        <4>1. flow[up].kind \in Walks
          BY <1>5, <3>1
        <4>2. activeChild'[up] > a[Len(up) + 1]
          BY <1>2, <1>5, <3>1, <3>2, <4>1
        <4>3. \A d \in DOMAIN flow : ~(AtOrAbove(up, d) /\ Above(d, up))
          BY <1>2, StepFacts
        <4>4. LeadsTo(node, up)'
          BY <1>2, <4>3 DEF LeadsTo
        <4>5. flow[up].kind \in Composites /\ AtOrAbove(up, up)
          BY <4>1 DEF Composites, AtOrAbove
        <4> QED BY <1>2, <3>1, <4>2, <4>4, <4>5 DEF Behind, LeadsTo
      <3> QED BY <3>1, <3>2 DEF AtOrAbove
    <2>4. CASE Above(c, up)
      <3>1. node[Len(c) + 1] = up[Len(c) + 1]
        BY <1>2, <2>4, StepFacts
      <3> QED BY <1>2, <2>1, <2>4, <3>1 DEF Past
    <2> QED BY <2>2, <2>3, <2>4
  <1>11. CASE AtOrAbove(node, a) /\ (status = "Running" => Behind(node, a))
    <2>1. Above(up, a) /\ a[Len(up) + 1] = i
      BY <1>6, <1>11
    <2>2. ASSUME status' = "Running"
          PROVE  Behind(node, a)'
      <3>1. status = "Running" /\ Behind(node, a)
        BY <1>5, <1>11, <2>1, <2>2
      <3>2. PICK c \in DOMAIN flow :
              /\ AtOrAbove(node, c) /\ Above(c, a) /\ flow[c].kind \in Composites
              /\ activeChild[c] > a[Len(c) + 1]
              /\ LeadsTo(node, c)
        BY <3>1 DEF Behind
      <3>3. Above(up, c) /\ c[Len(up) + 1] = i /\ c # up /\ c \in Addresses
        BY <1>2, <3>2, StepFacts
      <3>4. AtOrAbove(up, c) /\ activeChild'[c] > a[Len(c) + 1]
        BY <1>2, <3>2, <3>3 DEF AtOrAbove
      <3>5. ASSUME NEW d \in DOMAIN flow, AtOrAbove(up, d), Above(d, c), flow[d].kind \in Composites
            PROVE  activeChild'[d] = c[Len(d) + 1]
        <4>1. CASE d = up
          <5>1. flow[up].kind \in Walks
            BY <1>5, <2>1, <3>5, <4>1
          <5> QED BY <1>2, <3>1, <3>3, <4>1, <5>1
        <4>2. CASE d # up
          <5>1. Above(up, d) /\ d \in Addresses
            BY <1>2, <3>5, <4>2, StepFacts
          <5>2. d[Len(up) + 1] = i
            BY <1>3, <3>3, <3>5, <5>1, AboveTransitive DEF AtOrAbove
          <5>3. AtOrAbove(node, d)
            BY <1>2, <5>1, <5>2, StepFacts
          <5>4. activeChild[d] = c[Len(d) + 1]
            BY <3>2, <3>5, <5>3 DEF LeadsTo
          <5> QED BY <1>2, <4>2, <5>4
        <4> QED BY <4>1, <4>2
      <3>6. LeadsTo(node, c)'
        BY <1>2, <3>5 DEF LeadsTo
      <3> QED BY <1>2, <3>2, <3>4, <3>6 DEF Behind, LeadsTo
    <2> QED BY <2>1, <2>2 DEF AtOrAbove
  <1> QED BY <1>2, <1>8, <1>10, <1>11 DEF Passed

-----------------------------------------------------------------------------
(* Replies are taken by the prompt that asked.                               *)

\* A prompt in a trusting tree: nothing is below it, and what is above it.
LEMMA PromptFacts ==
    ASSUME FlowTypes, Trusting, NEW p \in Prompts
    PROVE  /\ p \in DOMAIN flow /\ p \in Addresses /\ flow[p].kind = "Prompt"
           /\ \A x \in DOMAIN flow :
                 /\ x \in Addresses
                 /\ ~Above(p, x)
                 /\ Above(x, p) => /\ flow[x].kind \in Walks \cup Decorators
                                   /\ flow[x].kind \notin {"Parallel", "When"}
                                   /\ p[Len(x) + 1] \in 1..flow[x].kids
                                   /\ p[Len(x) + 1] \in Nat \ {0}
                                   /\ flow[x].kind \notin Walks => flow[x].kids = 1 /\ p[Len(x) + 1] = 1
  <1>1. IsTree(flow) /\ p \in DOMAIN flow /\ p \in Addresses /\ flow[p].kind = "Prompt"
    BY TreeFacts DEF FlowTypes, Prompts
  <1>2. ASSUME NEW x \in DOMAIN flow
        PROVE  x \in Addresses
    BY <1>1, TreeFacts
  <1>3. ASSUME NEW x \in DOMAIN flow, Above(p, x)
        PROVE  FALSE
    <2>1. flow[p].kind \in Composites \cup Decorators
      BY <1>1, <1>3, TreeFacts
    <2> QED BY <1>1, <2>1 DEF Composites, Walks, Decorators
  <1>4. ASSUME NEW x \in DOMAIN flow, Above(x, p)
        PROVE  /\ flow[x].kind \in Walks \cup Decorators
               /\ flow[x].kind \notin {"Parallel", "When"}
               /\ p[Len(x) + 1] \in 1..flow[x].kids
               /\ p[Len(x) + 1] \in Nat \ {0}
               /\ flow[x].kind \notin Walks => flow[x].kids = 1 /\ p[Len(x) + 1] = 1
    <2>1. flow[x].kind \notin {"Parallel", "When"}
      BY <1>1, <1>4 DEF Trusting, Below
    <2>2. /\ flow[x].kind \in Composites \cup Decorators
          /\ p[Len(x) + 1] \in 1..flow[x].kids
          /\ flow[x].kind \in Decorators => flow[x].kids = 1
      BY <1>1, <1>2, <1>4, TreeFacts
    <2>3. flow[x].kind \in Walks \cup Decorators
      BY <2>1, <2>2 DEF Composites
    <2>4. flow[x].kids \in Nat
      BY <1>1 DEF IsTree
    <2> QED BY <2>1, <2>2, <2>3, <2>4
  <1> QED BY <1>1, <1>2, <1>3, <1>4

\* The root is above the whole tree.
LEMMA RootOfTree ==
    ASSUME FlowTypes
    PROVE  /\ <<>> \in DOMAIN flow
           /\ \A x \in DOMAIN flow : /\ ~Above(x, <<>>) /\ ~Above(x, x)
                                     /\ AtOrAbove(<<>>, x)
                                     /\ AtOrAbove(x, x)
           /\ ~Below(<<>>, Composites)
  <1>1. <<>> \in DOMAIN flow /\ \A x \in DOMAIN flow : x \in Addresses
    BY TreeFacts DEF FlowTypes, IsTree
  <1> QED BY <1>1, RootFacts, NotAboveItself DEF AtOrAbove, Below

LEMMA OwnRests ==
    ASSUME FlowTypes, Trusting, Own, Rests
    PROVE  Own'
  <1>1. /\ UNCHANGED <<flow, activeChild, tally, pending, round, asker, phase, node, status, route, path, misread>>
        /\ cooling' \subseteq cooling
    BY DEF Rests
  <1>2. ASSUME NEW p \in pending
        PROVE  Dead(p)' \/ Asking(p)'
    BY <1>1 DEF Own, Dead, Asking, LetIn, LeadsTo
  <1>3. executor'.running_path = <<>>
    BY DEF Own, Rests
  <1>4. LetIn(node)'
    BY <1>1 DEF Own, LetIn
  <1>5. AllEnded' /\ Waits'
    BY <1>1 DEF Own, AllEnded, Waits, Below
  <1> QED BY <1>1, <1>2, <1>3, <1>4, <1>5 DEF Own

LEMMA OwnBegins ==
    ASSUME FlowTypes, Trusting, Own, Begins
    PROVE  Own'
  <1>1. /\ UNCHANGED <<flow, activeChild, tally, cooling, pending, round, asker, node, status, path, executor, misread>>
        /\ phase = "idle" /\ phase' = "down"
    BY DEF Begins
  <1>2. ASSUME NEW p \in pending
        PROVE  Dead(p)' \/ Asking(p)'
    BY <1>1 DEF Own, Dead, Asking, LetIn, LeadsTo
  <1>3. route' = <<>>
    BY DEF Own, Begins
  <1>4. LetIn(node)' /\ AllEnded' /\ Waits'
    BY <1>1 DEF Own, LetIn, AllEnded, Waits
  <1> QED BY <1>1, <1>2, <1>3, <1>4 DEF Own

LEMMA OwnEndsTick ==
    ASSUME FlowTypes, Trusting, Own, Aborts \/ Finishes
    PROVE  Own'
  <1>1. /\ UNCHANGED <<flow, activeChild, tally, cooling, pending, round, asker, misread>>
        /\ phase = "up" /\ phase' = "idle" /\ node' = <<>> /\ route' = <<>> /\ path' = <<>>
        /\ status = "Error" \/ node = <<>>
    BY DEF Aborts, Finishes, WalkOver
  <1>2. \A p \in pending : p \in DOMAIN flow
    BY DEF FlowTypes, Prompts
  <1>3. ASSUME NEW p \in pending
        PROVE  Dead(p)' \/ Asking(p)'
    <2>1. CASE Dead(p)
      <3>1. PICK g \in DOMAIN flow : Above(g, p) /\ flow[g].kind = "ReflectionGuard" /\ round >= flow[g].num
        BY <2>1 DEF Dead
      <3>2. ~Above(g, node')
        BY <1>1, RootOfTree
      <3> QED BY <1>1, <3>1, <3>2 DEF Dead
    <2>2. CASE Asking(p)
      <3>1. asker = p /\ LetIn(p) /\ LeadsTo(<<>>, p)
        BY <1>1, <2>2 DEF Asking
      <3>2. AtOrAbove(node', p)
        BY <1>1, <1>2, RootOfTree
      <3>3. LetIn(p)' /\ LeadsTo(<<>>, p)'
        BY <1>1, <3>1 DEF LetIn, LeadsTo
      <3> QED BY <1>1, <3>1, <3>2, <3>3 DEF Asking, LeadsTo
    <2> QED BY <2>1, <2>2 DEF Own
  <1>4. executor'.running_path = <<>>
    <2>1. CASE Aborts
      BY <2>1 DEF Aborts, Own
    <2>2. CASE Finishes
      <3>1. node = <<>> /\ phase = "up" /\ executor'.running_path = IF status = "Running" THEN path ELSE <<>>
        BY <2>2 DEF Finishes
      <3>2. ASSUME status = "Running"
            PROVE  path = <<>>
        BY <3>1, <3>2, RootOfTree DEF Own, Waits
      <3> QED BY <3>1, <3>2
    <2> QED BY <2>1, <2>2
  <1>5. LetIn(node)' /\ AllEnded' /\ Waits'
    <2>1. \A d \in DOMAIN flow : ~Above(d, <<>>)
      BY RootOfTree
    <2> QED BY <1>1, <2>1 DEF LetIn, AllEnded, Waits
  <1> QED BY <1>1, <1>3, <1>4, <1>5 DEF Own

\* The active children lead to the prompt that asked, and no guard stops the walk.
LEMMA OwnEnters ==
    ASSUME FlowTypes, Trusting, Own, Enters
    PROVE  Own'
  <1>1. PICK i \in 1..flow[node].kids :
        /\ phase = "down" /\ phase' = "down" /\ node' = Append(node, i)
        /\ flow[node].kind \in Walks /\ Left(node) = <<>> /\ activeChild[node] # 0 => i = activeChild[node]
        /\ flow[node].kind = "Parallel" => i = 1 /\ tally'[node].won + tally'[node].lost = 0
        /\ flow[node].kind = "Repeater" => flow[node].num # 0
        /\ flow[node].kind = "Cooldown" => node \notin cooling
        /\ flow[node].kind = "ReflectionGuard" => ~(round >= flow[node].num)
        /\ \A d \in DOMAIN flow : d # node => tally'[d] = tally[d]
        /\ UNCHANGED <<flow, activeChild, cooling, pending, round, asker, route, path, executor, misread>>
    BY DEF Enters
  <1>2. node \in DOMAIN flow /\ pending \subseteq Prompts
    BY DEF FlowTypes
  <1>3. /\ node'[Len(node) + 1] = i /\ i \in Nat \ {0}
        /\ \A x \in DOMAIN flow : /\ Above(x, node') <=> x = node \/ Above(x, node)
                                  /\ Above(x, node) => node'[Len(x) + 1] = node[Len(x) + 1]
                                  /\ AtOrAbove(node', x) <=> Above(node, x) /\ x[Len(node) + 1] = i
                                  /\ AtOrAbove(node, x) <=> node = x \/ Above(node, x)
    <2>1. /\ node'[Len(node) + 1] = i /\ i \in Nat \ {0}
          /\ \A x \in DOMAIN flow : /\ Above(x, node') <=> AtOrAbove(x, node)
                                    /\ Above(x, node) => node'[Len(x) + 1] = node[Len(x) + 1]
                                    /\ AtOrAbove(node', x) <=> Above(node, x) /\ x[Len(node) + 1] = i
      <3>1. node' = Append(node, i)
        BY <1>1
      <3>2. i \in Nat \ {0} /\ Append(node, i)[Len(node) + 1] = i
        BY <1>2, StepFacts
      <3>3. ASSUME NEW x \in DOMAIN flow
            PROVE  /\ Above(x, Append(node, i)) <=> AtOrAbove(x, node)
                   /\ Above(x, node) => Append(node, i)[Len(x) + 1] = node[Len(x) + 1]
                   /\ AtOrAbove(Append(node, i), x) <=> Above(node, x) /\ x[Len(node) + 1] = i
        BY <1>2, StepFacts
      <3> QED BY <3>1, <3>2, <3>3
    <2> QED BY <2>1 DEF AtOrAbove
  <1>4. ASSUME NEW p \in pending
        PROVE  Dead(p)' \/ Asking(p)'
    <2>1. CASE Dead(p)
      <3>1. PICK g \in DOMAIN flow : /\ Above(g, p) /\ ~Above(g, node)
                                     /\ flow[g].kind = "ReflectionGuard" /\ round >= flow[g].num
        BY <2>1 DEF Dead
      <3>2. ~Above(g, node')
        BY <1>1, <1>3, <3>1
      <3> QED BY <1>1, <3>1, <3>2 DEF Dead
    <2>2. CASE Asking(p)
      <3>1. asker = p /\ LetIn(p) /\ AtOrAbove(node, p) /\ LeadsTo(<<>>, p)
        BY <1>1, <2>2 DEF Asking
      <3>2. p \in DOMAIN flow /\ p \in Prompts /\ flow[p].kind = "Prompt"
        BY <1>2, PromptFacts
      <3>3. Above(node, p)
        <4>1. flow[p].kids = 0
          BY <3>2 DEF FlowTypes, IsTree, Leaves
        <4>2. node # p
          BY <4>1
        <4> QED BY <1>3, <3>1, <3>2, <4>2
      <3>4. p[Len(node) + 1] = i
        <4>1. CASE flow[node].kind \in Walks
          <5>1. activeChild[node] = p[Len(node) + 1]
            BY <1>2, <3>1, <3>3, <4>1, RootOfTree DEF LeadsTo, Composites
          <5>2. p[Len(node) + 1] # 0
            BY <1>2, <3>2, <3>3, PromptFacts
          <5>3. Left(node) = <<>>
            BY <1>2, LeftFacts DEF Own, FlowTypes
          <5> QED BY <1>1, <4>1, <5>1, <5>2, <5>3
        <4>2. CASE flow[node].kind \notin Walks
          BY <1>2, <3>2, <3>3, <4>2, PromptFacts
        <4> QED BY <4>1, <4>2
      <3>5. AtOrAbove(node', p)
        BY <1>3, <3>2, <3>3, <3>4
      <3>6. LetIn(p)' /\ LeadsTo(<<>>, p)'
        BY <1>1, <3>1 DEF LetIn, LeadsTo
      <3> QED BY <1>1, <3>1, <3>5, <3>6 DEF Asking, LeadsTo
    <2> QED BY <2>1, <2>2 DEF Own
  <1>5. LetIn(node)'
    BY <1>1, <1>3 DEF Own, LetIn
  <1>6. AllEnded'
    <2>1. ASSUME NEW d \in DOMAIN flow, flow[d].kind = "Parallel", Above(d, node')
          PROVE  tally'[d].won + tally'[d].lost = node'[Len(d) + 1] - 1
      <3>1. CASE d = node
        BY <1>1, <1>3, <2>1, <3>1
      <3>2. CASE d # node
        <4>1. Above(d, node) /\ node'[Len(d) + 1] = node[Len(d) + 1] /\ tally'[d] = tally[d]
          BY <1>1, <1>3, <2>1, <3>2
        <4> QED BY <2>1, <4>1 DEF Own, AllEnded
      <3> QED BY <3>1, <3>2
    <2> QED BY <1>1, <2>1 DEF AllEnded
  <1>7. Waits'
    BY <1>1 DEF Own, Waits
  <1> QED BY <1>1, <1>4, <1>5, <1>6, <1>7 DEF Own

\* What turns back above the prompt that asked is a guard that stays shut.
LEMMA OwnTurnsBack ==
    ASSUME FlowTypes, Trusting, Own, TurnsBack
    PROVE  Own'
  <1>1. /\ phase = "down" /\ phase' = "up" /\ node' = node /\ status' \in {"Success", "Failure", "Error"}
        /\ \A d \in DOMAIN flow : d # node => activeChild'[d] = activeChild[d] /\ tally'[d] = tally[d]
        /\ UNCHANGED <<flow, cooling, pending, round, asker, route, path, executor, misread>>
    BY DEF TurnsBack
  <1>2. node \in DOMAIN flow /\ pending \subseteq Prompts
    BY DEF FlowTypes
  <1>3. ASSUME NEW p \in pending
        PROVE  Dead(p)' \/ Asking(p)'
    <2>1. CASE Dead(p)
      BY <1>1, <2>1 DEF Dead
    <2>2. CASE Asking(p)
      <3>1. asker = p /\ LetIn(p) /\ AtOrAbove(node, p) /\ LeadsTo(<<>>, p)
        BY <1>1, <2>2 DEF Asking
      <3>2. p \in DOMAIN flow /\ p \in Prompts /\ flow[p].kind = "Prompt"
        BY <1>2, PromptFacts
      <3>3. CASE status' = "Error" /\ activeChild' = activeChild
        <4>1. LetIn(p)' /\ LeadsTo(<<>>, p)'
          BY <1>1, <3>1, <3>3 DEF LetIn, LeadsTo
        <4> QED BY <1>1, <3>1, <3>3, <4>1 DEF Asking, LeadsTo
      <3>4. CASE flow[node].kind \in {"When", "Parallel", "Condition", "Action", "SetVar"}
        <4>1. Above(node, p)
          BY <3>1, <3>2, <3>4 DEF AtOrAbove
        <4>2. flow[node].kind \in Walks \cup Decorators /\ flow[node].kind \notin {"Parallel", "When"}
          BY <1>2, <3>2, <4>1, PromptFacts
        <4> QED BY <3>4, <4>2 DEF Walks, Decorators
      <3>5. CASE flow[node].kind \in Walks /\ ~(Left(node) = <<>> /\ activeChild[node] \in 1..flow[node].kids)
        <4>1. Above(node, p)
          BY <3>1, <3>2, <3>5 DEF AtOrAbove, Walks
        <4>2. activeChild[node] = p[Len(node) + 1]
          BY <1>2, <3>1, <3>5, <4>1, RootOfTree DEF LeadsTo, Composites
        <4>3. Left(node) = <<>>
          BY <1>2, LeftFacts DEF Own, FlowTypes
        <4>4. p[Len(node) + 1] \in 1..flow[node].kids
          BY <1>2, <3>2, <4>1, PromptFacts
        <4> QED BY <3>5, <4>2, <4>3, <4>4
      <3>6. CASE flow[node].kind = "Repeater" /\ flow[node].num = 0
        <4>1. Above(node, p)
          BY <3>1, <3>2, <3>6 DEF AtOrAbove
        <4> QED BY <1>2, <3>1, <3>6, <4>1 DEF LetIn
      <3>7. CASE flow[node].kind = "Cooldown" /\ node \in cooling
        <4>1. Above(node, p)
          BY <3>1, <3>2, <3>7 DEF AtOrAbove
        <4> QED BY <1>2, <3>1, <3>7, <4>1 DEF LetIn
      <3>8. CASE flow[node].kind = "ReflectionGuard" /\ round >= flow[node].num
        <4>1. Above(node, p) /\ ~Above(node, node)
          BY <1>2, <3>1, <3>2, <3>8, RootOfTree DEF AtOrAbove
        <4> QED BY <1>1, <1>2, <3>8, <4>1 DEF Dead
      <3> QED BY <3>3, <3>4, <3>5, <3>6, <3>7, <3>8 DEF TurnsBack
    <2> QED BY <2>1, <2>2 DEF Own
  <1>4. LetIn(node)'
    BY <1>1 DEF Own, LetIn
  <1>5. AllEnded'
    <2>1. \A d \in DOMAIN flow : Above(d, node) => d # node
      BY <1>2, RootOfTree
    <2> QED BY <1>1, <2>1 DEF Own, AllEnded
  <1>6. Waits'
    BY <1>1 DEF Own, Waits
  <1> QED BY <1>1, <1>3, <1>4, <1>5, <1>6 DEF Own

\* The prompt the walk is at has not been given up.
LEMMA NotDeadHere ==
    ASSUME FlowTypes
    PROVE  ~Dead(node)
  BY DEF Dead

\* The prompt that takes the reply asked last.
LEMMA OwnAnswered ==
    ASSUME FlowTypes, Trusting, Own, Answered
    PROVE  Own'
  <1>1. /\ phase = "down" /\ phase' = "up" /\ node' = node /\ status' \in {"Success", "Failure"}
        /\ node \in pending /\ pending' = pending \ {node}
        /\ misread' => misread \/ asker # node
        /\ UNCHANGED <<flow, activeChild, tally, cooling, round, asker, route, path, executor>>
    BY DEF Answered
  <1>2. asker = node
    BY <1>1, NotDeadHere DEF Own, Asking
  <1>3. ~misread'
    BY <1>1, <1>2 DEF Own
  <1>4. ASSUME NEW p \in pending'
        PROVE  Dead(p)'
    <2>1. p \in pending /\ p # asker
      BY <1>1, <1>2
    <2>2. Dead(p)
      BY <2>1 DEF Own, Asking
    <2> QED BY <1>1, <2>2 DEF Dead
  <1>5. LetIn(node)' /\ AllEnded' /\ Waits'
    BY <1>1 DEF Own, LetIn, AllEnded, Waits
  <1> QED BY <1>1, <1>3, <1>4, <1>5 DEF Own

\* A prompt that asks is the only one left that can be reached.
LEMMA OwnAwaits ==
    ASSUME FlowTypes, Trusting, Own, Awaits
    PROVE  Own'
  <1>1. /\ phase = "down" /\ phase' = "up" /\ node' = node /\ status' = "Running"
        /\ node \in Prompts /\ pending' = pending \cup {node}
        /\ asker' = IF node \in pending THEN asker ELSE node
        /\ UNCHANGED <<flow, activeChild, tally, cooling, round, route, path, executor, misread>>
    BY DEF Awaits
  <1>2. \A p \in pending : p \in DOMAIN flow
    BY DEF FlowTypes, Prompts
  <1>3. asker' = node
    BY <1>1, NotDeadHere DEF Own, Asking
  <1>4. Asking(node)'
    <2>1. LetIn(node)'
      BY <1>1 DEF Own, LetIn
    <2>2. AtOrAbove(node, node)
      BY DEF AtOrAbove
    <2>3. LeadsTo(node, node)'
      <3>1. \A d \in DOMAIN flow : ~(AtOrAbove(node, d) /\ Above(d, node))
        <4>1. node \in DOMAIN flow /\ node \in Addresses /\ \A d \in DOMAIN flow : d \in Addresses
          BY <1>1, PromptFacts
        <4> QED BY <4>1, NotAboveItself DEF AtOrAbove
      <3> QED BY <1>1, <3>1 DEF LeadsTo
    <2> QED BY <1>1, <1>3, <2>1, <2>2, <2>3 DEF Asking
  <1>5. ASSUME NEW p \in pending, p # node
        PROVE  Dead(p)'
    <2>1. ~AtOrAbove(node, p)
      BY <1>1, <1>2, <1>5, PromptFacts DEF AtOrAbove
    <2>2. Dead(p)
      BY <2>1 DEF Own, Asking
    <2> QED BY <1>1, <2>2 DEF Dead
  <1>6. \A p \in pending' : Dead(p)' \/ Asking(p)'
    BY <1>1, <1>4, <1>5
  <1>7. LetIn(node)' /\ AllEnded'
    BY <1>1 DEF Own, LetIn, AllEnded
  <1>8. Waits'
    <2>1. path' = <<>>
      BY <1>1 DEF Own, Waits
    <2>2. node' \in pending' /\ AtOrAbove(node', node')
      BY <1>1 DEF AtOrAbove
    <2> QED BY <2>1, <2>2 DEF Waits
  <1> QED BY <1>1, <1>6, <1>7, <1>8 DEF Own

\* No later child runs while a prompt below an earlier one waits.
LEMMA OwnCrosses ==
    ASSUME FlowTypes, Trusting, Own, Crosses
    PROVE  Own'
  <1>1. PICK up \in DOMAIN flow : \E i, j \in 1..flow[up].kids :
        /\ phase = "up" /\ phase' = "down" /\ node = Append(up, i) /\ node' = Append(up, j)
        /\ status # "Error"
        /\ IF flow[up].kind \in Composites THEN j = i + 1 ELSE flow[up].kind = "Repeater" /\ j = 1
        /\ status = "Running" => flow[up].kind = "Parallel"
        /\ flow[up].kind = "Parallel" /\ status # "Running" =>
              tally'[up].won + tally'[up].lost = tally[up].won + tally[up].lost + 1
        /\ status # "Running" => path' = path
        /\ route' \in {route, <<>>}
        /\ \A d \in DOMAIN flow : d # up => tally'[d] = tally[d]
        /\ UNCHANGED <<flow, activeChild, cooling, pending, round, asker, executor, misread>>
    BY DEF Crosses
  <1>2. PICK i \in 1..flow[up].kids, j \in 1..flow[up].kids :
        /\ phase = "up" /\ phase' = "down" /\ node = Append(up, i) /\ node' = Append(up, j)
        /\ status # "Error"
        /\ IF flow[up].kind \in Composites THEN j = i + 1 ELSE flow[up].kind = "Repeater" /\ j = 1
        /\ status = "Running" => flow[up].kind = "Parallel"
        /\ flow[up].kind = "Parallel" /\ status # "Running" =>
              tally'[up].won + tally'[up].lost = tally[up].won + tally[up].lost + 1
        /\ status # "Running" => path' = path
        /\ route' \in {route, <<>>}
        /\ \A d \in DOMAIN flow : d # up => tally'[d] = tally[d]
        /\ UNCHANGED <<flow, activeChild, cooling, pending, round, asker, executor, misread>>
    BY <1>1
  <1>3. /\ i \in Nat \ {0} /\ node[Len(up) + 1] = i
        /\ \A x \in DOMAIN flow : /\ Above(x, node) <=> AtOrAbove(x, up)
                                  /\ Above(x, up) => node[Len(x) + 1] = up[Len(x) + 1]
                                  /\ AtOrAbove(node, x) <=> Above(up, x) /\ x[Len(up) + 1] = i
    BY <1>2, StepFacts
  <1>4. /\ node'[Len(up) + 1] = j
        /\ \A x \in DOMAIN flow : /\ Above(x, node') <=> AtOrAbove(x, up)
                                  /\ Above(x, up) => node'[Len(x) + 1] = up[Len(x) + 1]
    BY <1>2, StepFacts
  <1>5. pending \subseteq Prompts
    BY DEF FlowTypes
  <1>6. status # "Running"
    <2>1. SUFFICES ASSUME status = "Running" PROVE FALSE
      OBVIOUS
    <2>2. PICK p \in pending : AtOrAbove(node, p)
      BY <1>2, <2>1 DEF Own, Waits
    <2>3. p \in DOMAIN flow /\ p \in Prompts
      BY <1>5, PromptFacts
    <2>4. Above(up, p)
      BY <1>3, <2>2, <2>3
    <2>5. flow[up].kind # "Parallel"
      BY <1>5, <2>4, PromptFacts
    <2> QED BY <1>2, <2>1, <2>5
  <1>7. ASSUME NEW p \in pending
        PROVE  Dead(p)'
    <2>1. Dead(p)
      BY <1>2, <1>6 DEF Own, Asking
    <2>2. PICK g \in DOMAIN flow : /\ Above(g, p) /\ ~Above(g, node)
                                   /\ flow[g].kind = "ReflectionGuard" /\ round >= flow[g].num
      BY <2>1 DEF Dead
    <2>3. ~Above(g, node')
      BY <1>3, <1>4, <2>2
    <2> QED BY <1>2, <2>2, <2>3 DEF Dead
  <1>8. LetIn(node)'
    BY <1>2, <1>3, <1>4 DEF Own, LetIn
  <1>9. AllEnded'
    <2>1. ASSUME NEW d \in DOMAIN flow, flow[d].kind = "Parallel", Above(d, node')
          PROVE  tally'[d].won + tally'[d].lost = node'[Len(d) + 1] - 1
      <3>1. Above(d, node) /\ tally[d].won + tally[d].lost = node[Len(d) + 1] - 1
        BY <1>3, <1>4, <2>1 DEF Own, AllEnded
      <3>2. CASE d = up
        <4>1. j = i + 1
          BY <1>2, <2>1, <3>2 DEF Composites
        <4>2. tally'[up].won + tally'[up].lost = tally[up].won + tally[up].lost + 1
          BY <1>2, <1>6, <2>1, <3>2
        <4>3. tally[up].won \in Nat /\ tally[up].lost \in Nat
          BY DEF FlowTypes
        <4> QED BY <1>3, <1>4, <3>1, <3>2, <4>1, <4>2, <4>3
      <3>3. CASE d # up
        <4>1. Above(d, up) /\ tally'[d] = tally[d]
          BY <1>2, <1>3, <3>1, <3>3 DEF AtOrAbove
        <4> QED BY <1>3, <1>4, <3>1, <4>1
      <3> QED BY <3>2, <3>3
    <2> QED BY <1>2, <2>1 DEF AllEnded
  <1>10. Waits'
    BY <1>2, <1>6 DEF Own, Waits
  <1>11. route' = <<>>
    BY <1>2 DEF Own
  <1> QED BY <1>2, <1>7, <1>8, <1>9, <1>10, <1>11 DEF Own

\* The way back from a waiting prompt is remembered.
LEMMA OwnClimbs ==
    ASSUME FlowTypes, FlowTypes', Trusting, Own, Climbs
    PROVE  Own'
  <1>1. PICK up \in DOMAIN flow : \E i \in 1..flow[up].kids :
        /\ phase = "up" /\ phase' = "up" /\ node = Append(up, i) /\ node' = up
        /\ status \in {"Success", "Failure", "Running"} /\ status' \in {"Success", "Failure", "Running"}
        /\ flow[up].kind # "Parallel" => (status' = "Running" <=> status = "Running")
        /\ flow[up].kind = "Parallel" =>
              \/ status = "Running"
              \/ status' # "Running"
              \/ tally[up].won + tally[up].lost # i - 1
        /\ flow[up].kind \in Walks /\ status = "Running" => activeChild'[up] = i
        /\ \A d \in DOMAIN flow : d # up => activeChild'[d] = activeChild[d] /\ tally'[d] = tally[d]
        /\ path' = IF status = "Running" /\ flow[up].kind \in Composites THEN PathStack(up) ELSE path
        /\ cooling \subseteq cooling' /\ cooling' \subseteq cooling \cup {up}
        /\ round' >= round
        /\ status = "Running" => cooling' = cooling /\ round' = round
        /\ UNCHANGED <<flow, pending, asker, route, executor, misread>>
    BY DEF Climbs
  <1>2. PICK i \in 1..flow[up].kids :
        /\ phase = "up" /\ phase' = "up" /\ node = Append(up, i) /\ node' = up
        /\ status \in {"Success", "Failure", "Running"} /\ status' \in {"Success", "Failure", "Running"}
        /\ flow[up].kind # "Parallel" => (status' = "Running" <=> status = "Running")
        /\ flow[up].kind = "Parallel" =>
              \/ status = "Running"
              \/ status' # "Running"
              \/ tally[up].won + tally[up].lost # i - 1
        /\ flow[up].kind \in Walks /\ status = "Running" => activeChild'[up] = i
        /\ \A d \in DOMAIN flow : d # up => activeChild'[d] = activeChild[d] /\ tally'[d] = tally[d]
        /\ path' = IF status = "Running" /\ flow[up].kind \in Composites THEN PathStack(up) ELSE path
        /\ cooling \subseteq cooling' /\ cooling' \subseteq cooling \cup {up}
        /\ round' >= round
        /\ status = "Running" => cooling' = cooling /\ round' = round
        /\ UNCHANGED <<flow, pending, asker, route, executor, misread>>
    BY <1>1
  <1>3. /\ i \in Nat \ {0} /\ node[Len(up) + 1] = i /\ node \in Addresses /\ up \in Addresses
        /\ \A x \in DOMAIN flow : /\ x \in Addresses
                                  /\ Above(x, node) <=> AtOrAbove(x, up)
                                  /\ Above(x, up) => node[Len(x) + 1] = up[Len(x) + 1]
                                  /\ AtOrAbove(node, x) <=> Above(up, x) /\ x[Len(up) + 1] = i
                                  /\ ~Above(x, x)
    BY <1>2, StepFacts
  <1>4. pending \subseteq Prompts /\ \A p \in pending : p \in DOMAIN flow
    BY DEF FlowTypes, Prompts
  <1>5. status' = "Running" <=> status = "Running"
    <2>1. CASE flow[up].kind # "Parallel"
      BY <1>2, <2>1
    <2>2. CASE flow[up].kind = "Parallel"
      <3>1. status # "Running"
        <4>1. SUFFICES ASSUME status = "Running" PROVE FALSE
          OBVIOUS
        <4>2. PICK p \in pending : AtOrAbove(node, p)
          BY <1>2, <4>1 DEF Own, Waits
        <4>3. Above(up, p)
          BY <1>3, <1>4, <4>2
        <4> QED BY <1>4, <2>2, <4>3, PromptFacts
      <3>2. Above(up, node)
        BY <1>3 DEF AtOrAbove
      <3>3. tally[up].won + tally[up].lost = i - 1
        BY <1>3, <2>2, <3>2 DEF Own, AllEnded
      <3> QED BY <1>2, <2>2, <3>1, <3>3
    <2> QED BY <2>1, <2>2
  <1>6. ASSUME NEW p \in pending
        PROVE  Dead(p)' \/ Asking(p)'
    <2>1. CASE Dead(p)
      <3>1. PICK g \in DOMAIN flow : /\ Above(g, p) /\ ~Above(g, node)
                                     /\ flow[g].kind = "ReflectionGuard" /\ round >= flow[g].num
        BY <2>1 DEF Dead
      <3>2. ~Above(g, node')
        BY <1>2, <1>3, <3>1 DEF AtOrAbove
      <3>3. round \in Nat /\ round' \in Nat /\ flow[g].num \in Nat
        BY DEF FlowTypes, IsTree
      <3>4. round' >= flow[g].num
        BY <1>2, <3>1, <3>3
      <3> QED BY <1>2, <3>1, <3>2, <3>4 DEF Dead
    <2>2. CASE Asking(p)
      <3>1. status = "Running" /\ asker = p /\ LetIn(p) /\ AtOrAbove(node, p) /\ LeadsTo(node, p)
        BY <1>2, <2>2 DEF Asking
      <3>2. p \in DOMAIN flow /\ p \in Addresses /\ Above(up, p) /\ p[Len(up) + 1] = i
        BY <1>3, <1>4, <3>1
      <3>3. ASSUME NEW d \in DOMAIN flow, AtOrAbove(up, d), Above(d, p), flow[d].kind \in Composites
            PROVE  activeChild'[d] = p[Len(d) + 1]
        <4>1. CASE d = up
          <5>1. flow[up].kind \in Walks
            BY <1>4, <3>3, <4>1, PromptFacts DEF Composites
          <5> QED BY <1>2, <3>1, <3>2, <4>1, <5>1
        <4>2. CASE d # up
          <5>1. Above(up, d) /\ d \in Addresses
            BY <1>3, <3>3, <4>2 DEF AtOrAbove
          <5>2. d[Len(up) + 1] = i
            BY <1>3, <3>2, <3>3, <5>1, AboveTransitive DEF AtOrAbove
          <5>3. AtOrAbove(node, d)
            BY <1>3, <5>1, <5>2
          <5>4. activeChild[d] = p[Len(d) + 1]
            BY <3>1, <3>3, <5>3 DEF LeadsTo
          <5> QED BY <1>2, <4>2, <5>4
        <4> QED BY <4>1, <4>2
      <3>4. LeadsTo(up, p)'
        BY <1>2, <3>3 DEF LeadsTo
      <3>5. LetIn(p)'
        BY <1>2, <3>1 DEF LetIn
      <3> QED BY <1>2, <1>5, <3>1, <3>2, <3>4, <3>5 DEF Asking, LeadsTo, AtOrAbove
    <2> QED BY <2>1, <2>2 DEF Own
  <1>7. LetIn(node)'
    <2>1. ASSUME NEW d \in DOMAIN flow, Above(d, up)
          PROVE  /\ flow[d].kind = "Cooldown" => d \notin cooling'
                 /\ flow[d].kind = "Repeater" => flow[d].num # 0
      <3>1. Above(d, node) /\ d # up
        BY <1>3, <2>1 DEF AtOrAbove
      <3> QED BY <1>2, <3>1 DEF Own, LetIn
    <2> QED BY <1>2, <2>1 DEF LetIn
  <1>8. AllEnded'
    <2>1. ASSUME NEW d \in DOMAIN flow, flow[d].kind = "Parallel", Above(d, up)
          PROVE  tally'[d].won + tally'[d].lost = up[Len(d) + 1] - 1
      <3>1. Above(d, node) /\ d # up /\ node[Len(d) + 1] = up[Len(d) + 1]
        BY <1>3, <2>1 DEF AtOrAbove
      <3>2. tally[d].won + tally[d].lost = node[Len(d) + 1] - 1
        BY <2>1, <3>1 DEF Own, AllEnded
      <3> QED BY <1>2, <3>1, <3>2
    <2> QED BY <1>2, <2>1 DEF AllEnded
  <1>9. Waits'
    <2>1. CASE status = "Running"
      <3>1. PICK p \in pending : AtOrAbove(node, p)
        BY <1>2, <2>1 DEF Own, Waits
      <3>2. AtOrAbove(up, p)
        BY <1>3, <1>4, <3>1 DEF AtOrAbove
      <3>3. path' = <<>> \/ Below(up, Composites)
        <4>1. CASE flow[up].kind \in Composites
          BY <1>2, <2>1, <4>1, PathStackFacts DEF FlowTypes
        <4>2. CASE flow[up].kind \notin Composites
          <5>1. path' = path /\ (path = <<>> \/ Below(node, Composites))
            BY <1>2, <2>1, <4>2 DEF Own, Waits
          <5>2. ASSUME NEW x \in DOMAIN flow, Above(x, node), flow[x].kind \in Composites
                PROVE  Below(up, Composites)
            <6>1. Above(x, up)
              BY <1>3, <4>2, <5>2 DEF AtOrAbove
            <6> QED BY <5>2, <6>1 DEF Below
          <5> QED BY <5>1, <5>2 DEF Below
        <4> QED BY <4>1, <4>2
      <3> QED BY <1>2, <1>5, <2>1, <3>1, <3>2, <3>3 DEF Waits, Below
    <2>2. CASE status # "Running"
      BY <1>2, <1>5, <2>2 DEF Own, Waits
    <2> QED BY <2>1, <2>2
  <1> QED BY <1>2, <1>6, <1>7, <1>8, <1>9 DEF Own

-----------------------------------------------------------------------------
(* The invariants together.                                                  *)
\* Between the ticks of a pass the running path stays empty.
LEMMA OnceOutside ==
    ASSUME FlowTypes, NEW a, Spared(a), Once(a), Aborts \/ Finishes \/ Begins \/ Rests
    PROVE  Once(a)'
  <1>1. a \in DOMAIN flow /\ node \in DOMAIN flow
    BY DEF FlowTypes, Spared
  <1>2. CASE Aborts
    BY <1>2 DEF Aborts, WalkOver, Once, NoPath
  <1>3. CASE Finishes
    <2>1. /\ phase = "up" /\ status # "Error" /\ node = <<>>
          /\ phase' = "idle" /\ node' = <<>> /\ route' = <<>>
          /\ executor' = [is_running   |-> status = "Running",
                          running_path |-> IF status = "Running" THEN path ELSE <<>>]
          /\ UNCHANGED <<flow, activeChild, fired, clean>>
      BY <1>3 DEF Finishes, WalkOver
    <2>2. AtOrAbove(node, a) /\ ~Below(node, Composites) /\ ~Past(a)
      BY <1>1, <2>1, RootOfTree DEF Past
    <2>3. executor'.running_path = <<>>
      BY <2>1, <2>2 DEF Once, NoPath
    <2>4. NoPath(a)'
      BY <2>1, <2>3 DEF NoPath
    <2>5. ASSUME Passed(a), executor'.is_running
          PROVE  Behind(<<>>, a)'
      <3>1. status = "Running"
        BY <2>1, <2>5
      <3>2. Behind(<<>>, a)
        BY <2>1, <2>2, <2>5, <3>1 DEF Passed
      <3> QED BY <2>1, <3>2 DEF Behind, LeadsTo
    <2> QED BY <2>1, <2>4, <2>5 DEF Once, Passed
  <1>4. CASE Begins
    <2>1. /\ phase = "idle" /\ phase' = "down" /\ node = <<>> /\ node' = node
          /\ route' = IF executor.is_running THEN executor.running_path ELSE <<>>
          /\ IF executor.is_running THEN UNCHANGED <<fired, clean>>
             ELSE fired' = [x \in DOMAIN flow |-> 0] /\ clean' = TRUE
          /\ UNCHANGED <<flow, activeChild, executor>>
      BY <1>4 DEF Begins, FlowTypes
    <2>2. NoPath(a)'
      BY <2>1 DEF Once, NoPath
    <2>3. CASE ~executor.is_running
      BY <1>1, <2>1, <2>2, <2>3 DEF Once
    <2>4. CASE executor.is_running
      <3>1. ASSUME Passed(a)
            PROVE  Passed(a)'
        <4>1. Behind(<<>>, a)
          BY <2>1, <2>4, <3>1 DEF Passed
        <4>2. Above(<<>>, a)
          <5>1. PICK c \in DOMAIN flow : Above(c, a)
            BY <4>1 DEF Behind
          <5>2. a # <<>> /\ a \in Addresses
            BY <1>1, <5>1, RootOfTree, TreeFacts DEF FlowTypes
          <5> QED BY <5>2, RootFacts
        <4> QED BY <2>1, <4>1, <4>2 DEF Passed, Behind, LeadsTo
      <3> QED BY <2>1, <2>2, <2>4, <3>1 DEF Once
    <2> QED BY <2>3, <2>4
  <1>5. CASE Rests
    <2>1. /\ executor' = executor \/ (phase = "idle" /\ executor' = [is_running |-> FALSE, running_path |-> <<>>])
          /\ UNCHANGED <<flow, activeChild, phase, node, status, route, path, fired, clean>>
      BY <1>5 DEF Rests
    <2>2. NoPath(a)'
      BY <2>1 DEF Once, NoPath, Below
    <2>3. Passed(a) => Passed(a)'
      <3>1. CASE executor' = executor
        BY <2>1, <3>1 DEF Passed, Past, Behind, LeadsTo
      <3>2. CASE phase = "idle" /\ executor' = [is_running |-> FALSE, running_path |-> <<>>]
        BY <2>1, <3>2 DEF Passed
      <3> QED BY <2>1, <3>1, <3>2
    <2> QED BY <2>1, <2>2, <2>3 DEF Once
  <1> QED BY <1>2, <1>3, <1>4, <1>5

\* A new slot has no history.
LEMMA BlankInvariants ==
    ASSUME Blank
    PROVE  OnceInv /\ OwnInv
  <1>1. FlowTypes
    BY BlankTypes
  <1>2. OnceInv
    <2>1. ASSUME NEW a \in DOMAIN flow
          PROVE  NoPath(a) /\ fired[a] = 0
      BY <2>1 DEF Blank, NoPath
    <2> QED BY <2>1 DEF OnceInv
  <1>3. OwnInv
    <2>1. \A d \in DOMAIN flow : ~Above(d, <<>>)
      BY <1>1, RootOfTree
    <2> QED BY <2>1 DEF Blank, OwnInv, Own, LetIn, AllEnded, Waits
  <1> QED BY <1>2, <1>3

FlowInv == FlowTypes /\ OnceInv /\ OwnInv

LEMMA BlankFlowInv ==
    ASSUME Blank
    PROVE  FlowInv
  BY BlankTypes, BlankInvariants DEF FlowInv

\* The inductive step.
LEMMA FlowInvStep ==
    ASSUME FlowInv, [FlowNext]_flowVars
    PROVE  FlowInv'
  <1>1. FlowTypes /\ OnceInv /\ OwnInv
    BY DEF FlowInv
  <1>2. FlowTypes' /\ StepKind
    BY <1>1, FlowStepKind
  <1>3. CASE Blank'
    BY <1>3, BlankFlowInv, PTL
  <1>4. CASE ~Blank'
    <2>1. \/ Enters \/ TurnsBack \/ Answered \/ Awaits \/ Crosses \/ Climbs
          \/ Aborts \/ Finishes \/ Begins \/ Rests
      BY <1>2, <1>4 DEF StepKind
    <2>2. flow' = flow
      BY <2>1 DEF Enters, TurnsBack, Answered, Awaits, Crosses, Climbs, Aborts, Finishes, Begins, Rests
    <2>3. OnceInv'
      <3>1. ASSUME NEW a \in DOMAIN flow, Spared(a)
            PROVE  Once(a)'
        <4>1. Once(a)
          BY <1>1, <3>1 DEF OnceInv, Once
        <4> QED BY <1>1, <2>1, <3>1, <4>1, OnceEnters, OnceTurnsBack, OnceAwaits, OnceCrosses, OnceClimbs, OnceOutside
      <3>2. \A a \in DOMAIN flow : Spared(a)' => Spared(a)
        BY <2>2 DEF Spared, Below
      <3>3. \A a \in DOMAIN flow : Spared(a) => Once(a)'
        BY <3>1
      <3> QED BY <2>2, <3>2, <3>3 DEF OnceInv, Once
    <2>4. OwnInv'
      <3>1. SUFFICES ASSUME Trusting'
                     PROVE  Own'
        BY DEF OwnInv
      <3>2. Trusting
        BY <2>2, <3>1 DEF Trusting, Below
      <3>3. Own
        BY <1>1, <3>2 DEF OwnInv
      <3> QED BY <1>1, <1>2, <2>1, <3>2, <3>3, OwnEnters, OwnTurnsBack, OwnAnswered, OwnAwaits, OwnCrosses,
                 OwnClimbs, OwnEndsTick, OwnBegins, OwnRests
    <2> QED BY <1>2, <2>3, <2>4 DEF FlowInv
  <1> QED BY <1>3, <1>4

\* The inductive invariant holds in every reachable state.
LEMMA FlowInvHolds == FlowSpec => []FlowInv
  <1>1. FlowInit => FlowInv
    BY FlowInitBlank, BlankFlowInv
  <1>2. FlowInv /\ [FlowNext]_flowVars => FlowInv'
    BY FlowInvStep
  <1> QED BY <1>1, <1>2, PTL DEF FlowSpec

\* For every tree and every bound: an action that nothing repeats runs at
\* most once from the first tick of a pass to the one that ends it, however
\* often the tick is resumed, as long as no tick fails.
THEOREM ActionsRunOnce == FlowSpec => []ActionOnce
  <1>1. FlowInv => ActionOnce
    BY DEF FlowInv, OnceInv, Spared, ActionOnce
  <1> QED BY <1>1, FlowInvHolds, PTL

\* For every tree in which nothing above a prompt can leave it waiting: the
\* prompt that takes a reply is the one that asked.
THEOREM RepliesAreOwn == FlowSpec => []OwnReply
  <1>1. FlowInv => OwnReply
    BY DEF FlowInv, OwnInv, Trusting, Own, OwnReply
  <1> QED BY <1>1, FlowInvHolds, PTL

\* A walk stays in its tree, and only prompts wait.
THEOREM FlowKeepsTypes == FlowSpec => []FlowTypes
  <1>1. FlowInv => FlowTypes
    BY DEF FlowInv
  <1> QED BY <1>1, FlowInvHolds, PTL
=============================================================================
