------------------------ MODULE ConcurrentDecisions -------------------------
(* The objects that decision agents share when several of them decide at the *)
(* same time: the pool of provider sessions, the rate limiter and the        *)
(* arbitrator of questions to the human.  Each is behind a mutex, so a call  *)
(* is one step, and they are independent of each other: three small machines *)
(* with a specification each.  Times are abstracted to the events that a     *)
(* session has been idle for too long and that a minute is over.             *)
EXTENDS Naturals, Sequences, FiniteSets, HumanQueueOps, SequenceSelection

CONSTANTS
    Deciders,        \* ids of decision agents
    Providers,       \* kinds of providers
    MaxPerProvider,  \* max_per_provider of SessionPoolConfig
    MaxSessions,     \* bound: sessions created in all
    RequestsPerMinute,
    MaxConcurrent,   \* of the Parallel strategy
    MaxQuestions     \* bound: questions submitted in all

ASSUME SharedBoundsAssumption ==
    /\ MaxPerProvider \in Nat \ {0}
    /\ RequestsPerMinute \in Nat \ {0}
    /\ MaxConcurrent \in Nat \ {0}
    /\ MaxSessions \in Nat
    /\ MaxQuestions \in Nat

VARIABLES
    reuse,       \* reuse_enabled
    available,   \* available: per provider, a queue of idle sessions
    held,        \* active: the session of an agent, or NoSession
    stale,       \* ids of idle sessions past idle_timeout_ms
    sessionsMade,  \* how many sessions have been created

    count,       \* current_count
    minuteOver,  \* has a minute passed since minute_start?
    waiting,     \* waiting
    allowed,     \* requests allowed since minute_start

    strategy,    \* of the arbitrator
    active,      \* current (0 or 1 question), or active_parallel
    queue,       \* the human decision queue
    submitted,   \* how many questions there have been
    answered,    \* ids of the questions a response has named
    stray        \* has a response named a question that was not active?

poolVars == <<reuse, available, held, stale, sessionsMade>>
limiterVars == <<count, minuteOver, waiting, allowed>>
arbiterVars == <<strategy, active, queue, submitted, answered, stray>>

-----------------------------------------------------------------------------
(* DecisionSessionPool.                                                      *)
NoSession == [id |-> 0, provider |-> "none"]
InUse(p) == {a \in Deciders : held[a].id # 0 /\ held[a].provider = p}
Fit(s) == Select(s, {i \in DOMAIN s : s[i].id \notin stale})

\* Mutant of Acquire: a new session is created although idle ones are there.
AcquireNewFirst(p, a) ==
    /\ held[a] = NoSession
    /\ Cardinality(InUse(p)) < MaxPerProvider
    /\ sessionsMade < MaxSessions
    /\ sessionsMade' = sessionsMade + 1
    /\ held' = [held EXCEPT ![a] = [id |-> sessionsMade + 1, provider |-> p]]
    /\ UNCHANGED <<reuse, available, stale>>
\* acquire: an agent that has a session gets that one (whatever its provider);
\* or the first idle one that has not expired is taken; or a new one is
\* created.  When the pool is exhausted the expired ones are still removed.
Acquire(p, a) ==
    LET fit == IF reuse THEN Fit(available[p]) ELSE available[p]
    IN  /\ held[a] = NoSession
        /\ \/ /\ reuse /\ fit # <<>>
              /\ held' = [held EXCEPT ![a] = Head(fit)]
              /\ available' = [available EXCEPT ![p] = Tail(fit)]
              /\ UNCHANGED sessionsMade
           \/ /\ ~reuse \/ fit = <<>>
              /\ available' = [available EXCEPT ![p] = fit]
              /\ IF Cardinality(InUse(p)) < MaxPerProvider
                 THEN /\ sessionsMade < MaxSessions
                      /\ sessionsMade' = sessionsMade + 1
                      /\ held' = [held EXCEPT ![a] = [id |-> sessionsMade + 1, provider |-> p]]
                 ELSE UNCHANGED <<sessionsMade, held>>
        /\ stale' = IF reuse THEN stale \ {available[p][i].id : i \in 1..Len(available[p])} ELSE stale
        /\ UNCHANGED reuse

\* release: the session goes to the idle ones, if it is to be reused and
\* there is room.
Release(a) ==
    LET s == held[a]
    IN  /\ s # NoSession
        /\ held' = [held EXCEPT ![a] = NoSession]
        /\ available' = IF reuse /\ Len(available[s.provider]) < MaxPerProvider
                        THEN [available EXCEPT ![s.provider] = Append(@, s)]
                        ELSE available
        /\ UNCHANGED <<reuse, stale, sessionsMade>>

CleanupExpired ==
    /\ available' = [p \in Providers |-> Fit(available[p])]
    /\ stale' = {}
    /\ UNCHANGED <<reuse, held, sessionsMade>>

ClearSessions ==
    /\ available' = [p \in Providers |-> <<>>]
    /\ held' = [a \in Deciders |-> NoSession]
    /\ stale' = {}
    /\ UNCHANGED <<reuse, sessionsMade>>

Idle(s) == \E p \in Providers : \E i \in 1..Len(available[p]) : available[p][i].id = s

\* Time passes: an idle session expires.
SessionExpires(s) ==
    /\ Idle(s)
    /\ stale' = stale \cup {s}
    /\ UNCHANGED <<reuse, available, held, sessionsMade>>

PoolInit ==
    /\ reuse \in BOOLEAN
    /\ available = [p \in Providers |-> <<>>]
    /\ held = [a \in Deciders |-> NoSession]
    /\ stale = {}
    /\ sessionsMade = 0

PoolNext ==
    \/ \E p \in Providers, a \in Deciders : Acquire(p, a)
    \/ \E a \in Deciders : Release(a)
    \/ CleanupExpired
    \/ ClearSessions
    \/ \E s \in 1..sessionsMade : SessionExpires(s)

PoolSpec == PoolInit /\ [][PoolNext]_poolVars

-----------------------------------------------------------------------------
(* DecisionRateLimiter.                                                      *)
In(a, s) == \E i \in 1..Len(s) : s[i] = a
Without(a, s) == Select(s, {i \in DOMAIN s : s[i] # a})

\* After a minute the waiting agents are taken from the queue up to the limit
\* or up to the caller; those before the caller are counted, but told nothing.
Served(a) ==
    LET most == IF Len(waiting) < RequestsPerMinute THEN Len(waiting) ELSE RequestsPerMinute
        own  == {i \in 1..most : waiting[i] = a}
    IN  IF own = {} THEN most ELSE CHOOSE i \in own : TRUE

\* Mutant of Check: the limit is off by one.
CheckOffByOne(a) ==
    /\ minuteOver' = FALSE
    /\ IF minuteOver \/ count <= RequestsPerMinute
       THEN /\ count' = IF minuteOver THEN 1 ELSE count + 1
            /\ allowed' = IF minuteOver THEN 1 ELSE allowed + 1
            /\ waiting' = Without(a, waiting)
       ELSE /\ UNCHANGED <<count, allowed>>
            /\ waiting' = IF In(a, waiting) THEN waiting ELSE Append(waiting, a)
\* check: Allowed, DequeuedAllowed or Waiting.
Check(a) ==
    LET base  == IF minuteOver THEN 0 ELSE count
        taken == IF minuteOver THEN Served(a) ELSE 0
        rest  == SubSeq(waiting, taken + 1, Len(waiting))
        now   == base + taken
        before == IF minuteOver THEN 0 ELSE allowed
    IN  /\ minuteOver' = FALSE
        /\ IF taken > 0 /\ waiting[taken] = a
           THEN count' = now /\ waiting' = rest /\ allowed' = before + 1
           ELSE IF now < RequestsPerMinute
           THEN count' = now + 1 /\ waiting' = Without(a, rest) /\ allowed' = before + 1
           ELSE /\ count' = now
                /\ waiting' = IF In(a, rest) THEN rest ELSE Append(rest, a)
                /\ allowed' = before

CancelWaiting(a) ==
    /\ In(a, waiting)
    /\ waiting' = Without(a, waiting)
    /\ UNCHANGED <<count, minuteOver, allowed>>

ClearWaiting ==
    /\ waiting' = <<>>
    /\ UNCHANGED <<count, minuteOver, allowed>>

MinutePasses ==
    /\ minuteOver' = TRUE
    /\ UNCHANGED <<count, waiting, allowed>>

LimiterInit ==
    /\ count = 0
    /\ minuteOver = FALSE
    /\ waiting = <<>>
    /\ allowed = 0

LimiterNext ==
    \/ \E a \in Deciders : Check(a)
    \/ \E a \in Deciders : CancelWaiting(a)
    \/ ClearWaiting
    \/ MinutePasses

LimiterSpec == LimiterInit /\ [][LimiterNext]_limiterVars

-----------------------------------------------------------------------------
(* HumanDecisionArbitrator.  BatchSimilar differs from Sequential only in    *)
(* what submit returns.                                                      *)
Room == IF strategy = "Parallel" THEN MaxConcurrent ELSE 1

Submit(a, l) ==
    LET r == [id |-> submitted + 1, agent |-> a]
    IN  /\ submitted < MaxQuestions
        /\ submitted' = submitted + 1
        /\ IF Len(active) < Room
           THEN active' = Append(active, r) /\ UNCHANGED queue
           ELSE queue' = Push(queue, r, l) /\ UNCHANGED active
        /\ UNCHANGED <<strategy, answered, stray>>

\* complete: the response is recorded by the queue if it is about a question
\* there; then the next question is taken, whichever question was answered.
Next1(q) == IF IsEmpty(q) THEN <<>> ELSE <<Peek(q)>>
Popped(q) == IF IsEmpty(q) THEN q ELSE Pop(q)
NotId(id, s) == Select(s, {i \in DOMAIN s : s[i].id # id})

\* Mutant of CompleteQuestion: with Parallel, nothing is taken from the queue.
CompleteNoRefill(id) ==
    LET left == IF Indexed(queue, id) THEN Complete(queue, id) ELSE queue
    IN  /\ queue' = IF strategy = "Parallel" THEN left ELSE Popped(left)
        /\ active' = IF strategy = "Parallel" THEN NotId(id, active) ELSE Next1(left)
        /\ answered' = answered \cup {id}
        /\ stray' = (stray \/ \A i \in 1..Len(active) : active[i].id # id)
        /\ UNCHANGED <<strategy, submitted>>
CompleteQuestion(id) ==
    LET left == IF Indexed(queue, id) THEN Complete(queue, id) ELSE queue
    IN  /\ queue' = Popped(left)
        /\ active' = IF strategy = "Parallel" THEN NotId(id, active) \o Next1(left) ELSE Next1(left)
        /\ answered' = answered \cup {id}
        /\ stray' = (stray \/ \A i \in 1..Len(active) : active[i].id # id)
        /\ UNCHANGED <<strategy, submitted>>

ArbiterInit ==
    /\ strategy \in {"Sequential", "BatchSimilar", "Parallel"}
    /\ active = <<>>
    /\ queue = EmptyQueue
    /\ submitted = 0
    /\ answered = {}
    /\ stray = FALSE

ArbiterNext ==
    \/ \E a \in Deciders, l \in {Critical, Low} : Submit(a, l)
    \/ \E id \in 1..submitted : CompleteQuestion(id)

ArbiterSpec == ArbiterInit /\ [][ArbiterNext]_arbiterVars

-----------------------------------------------------------------------------
(* Properties.                                                               *)
\* A session has one owner, and of a provider there are never more sessions,
\* used and idle together, than max_per_provider.
SessionsBounded ==
    /\ \A a, b \in Deciders : a # b /\ held[a] # NoSession => held[a] # held[b]
    /\ \A a \in Deciders : held[a] # NoSession => ~Idle(held[a].id)
    /\ \A p \in Providers : Cardinality(InUse(p)) + Len(available[p]) <= MaxPerProvider

\* In a minute no more requests are allowed than the limit says, those taken
\* from the queue without being told included, and an agent waits once.
RateRespected ==
    /\ allowed <= count
    /\ count <= RequestsPerMinute
    /\ \A i, j \in 1..Len(waiting) : i # j => waiting[i] # waiting[j]

\* As long as responses are about questions that are being put to the human,
\* no question is lost, no more are put at a time than the strategy allows,
\* and none waits while there is room.
NoQuestionLost ==
    ~stray =>
        /\ \A id \in 1..submitted :
              id \in answered \/ id \in Ids(queue) \/ \E i \in 1..Len(active) : active[i].id = id
        /\ Len(active) <= Room
        /\ ~IsEmpty(queue) => Len(active) = Room
=============================================================================
