------------------------ MODULE ProviderRuntimeProofs ------------------------
(***************************************************************************)
(* Proofs about the provider runtime, for every set of agents and any      *)
(* number of provider threads: a working agent is always listened to, and  *)
(* late events of a thread do not change a stopped or failed agent.        *)
(***************************************************************************)
EXTENDS ProviderRuntime, SequenceTheorems, TLAPS

\* The only statuses the session manager ever gives to a slot between steps.
\* Without it ActiveIsHeard is not inductive: an event would wake a slot that
\* waits for input and has no channel.
Kinds == {"Idle", "Responding", "Blocked", "Stopped"}
Reached == \A a \in Agents : slot[a].status.kind \in Kinds

\* A tick polls only channels that exist: the session is locked, so none is
\* dropped before it has been polled.
Polling == \A a \in toPoll : phase = "poll" /\ recv[a] # NoThread

\* The inductive invariant.
RuntimeInv == TypeOK /\ Reached /\ Polling /\ ActiveIsHeard

ThreadRecords == [agent : Agents, at : Stages, alive : BOOLEAN]
BatchRecords == [agent : Agents, thread : Threads, event : Events]
-----------------------------------------------------------------------------
(* Transitions of a slot *)

\* The statuses the session manager moves slots to.
Targets ==
    {Idle, Plain("Responding"), Tagged("Blocked", "provider error"),
     Tagged("Stopped", "user requested")}
    \cup {Tagged("Stopped", reason) : reason \in DecisionReasons}

LEMMA TargetsTyped == Targets \subseteq Statuses
<1>1. \A tag \in StopTags : Tagged("Stopped", tag) \in Statuses
    BY DEF Tagged, Statuses, SlotKinds
<1>2. DecisionReasons \subseteq StopTags /\ "user requested" \in StopTags
    BY DEF StopTags
<1>3. {Idle, Plain("Responding"), Tagged("Blocked", "provider error")} \subseteq Statuses
    BY DEF Statuses, Idle, Plain, Tagged, SlotKinds
<1> QED BY <1>1, <1>2, <1>3 DEF Targets

\* A Worker never leaves its states.
LEMMA WorkerMoveTyped ==
    ASSUME NEW w \in WorkerStates, NEW x
    PROVE  WorkerMove(w, x) \in WorkerStates
<1>1. WorkerSuccessors[w] \subseteq WorkerStates
    BY DEF WorkerSuccessors, WorkerStates
<1> QED BY <1>1 DEF WorkerMove

\* transition_to keeps the fields of a slot typed, and changes neither the
\* thread handle nor the pid.
LEMMA TransitionTyped ==
    ASSUME NEW s \in SlotType, NEW t \in Statuses
    PROVE  /\ TransitionTo(s, t) \in SlotType
           /\ TransitionTo(s, t).status \in {s.status, t}
           /\ CanTransition(s.status, t) => TransitionTo(s, t).status = t
           /\ ~CanTransition(s.status, t) => TransitionTo(s, t).status = s.status
           /\ TransitionTo(s, t).pid = s.pid
<1> DEFINE w == WorkerMove(s.worker, ToWorkerState(t))
<1>1. w \in WorkerStates
    BY WorkerMoveTyped DEF SlotType
<1> HIDE DEF w
<1>2. TransitionTo(s, t) = IF CanTransition(s.status, t)
                           THEN [s EXCEPT !.status = t, !.worker = w] ELSE s
    BY DEF TransitionTo, w
<1>3. CASE CanTransition(s.status, t)
    <2>1. TransitionTo(s, t) = [s EXCEPT !.status = t, !.worker = w]
        BY <1>2, <1>3
    <2> QED BY <2>1, <1>1, <1>3 DEF SlotType
<1>4. CASE ~CanTransition(s.status, t)
    BY <1>2, <1>4
<1> QED BY <1>3, <1>4

\* Which moves the transition table allows between the statuses in use.
LEMMA AllowedMoves ==
    ASSUME NEW s \in Statuses, NEW t \in Statuses
    PROVE  /\ s.kind = "Responding" /\ t.kind \in {"Idle", "Blocked", "Stopped"}
              => CanTransition(s, t)
           /\ s.kind = "Starting" /\ t.kind = "Responding" => CanTransition(s, t)
           /\ s.kind = "Stopped" /\ t.kind \in {"Idle", "Blocked"}
              => ~CanTransition(s, t)
BY DEF CanTransition, SlotSuccessors, SlotKinds, Statuses, Timestamped

LEMMA ClearTyped ==
    ASSUME NEW s \in SlotType
    PROVE  /\ ClearProviderThread(s) \in SlotType
           /\ ClearProviderThread(s).status = s.status
           /\ ClearProviderThread(s).pid = NoThread
BY DEF ClearProviderThread, SlotType, NoThread

\* Starting a provider thread leaves the slot responding.
LEMMA StartedSlot ==
    ASSUME NEW s \in SlotType
    PROVE  /\ SetThreadHandle(s) \in SlotType
           /\ SetThreadHandle(s).status.kind = "Responding"
<1> DEFINE r == [s EXCEPT !.handle = TRUE, !.status = Plain("Starting")]
<1>1. Plain("Starting") \in Statuses /\ Plain("Responding") \in Statuses
    BY DEF Plain, Statuses, SlotKinds
<1>2. r \in SlotType /\ r.status = Plain("Starting")
    BY <1>1 DEF SlotType
<1>3. CanTransition(r.status, Plain("Responding"))
    BY <1>1, <1>2, AllowedMoves DEF Plain
<1>4. SetThreadHandle(s) = TransitionTo(r, Plain("Responding"))
    BY DEF SetThreadHandle
<1> HIDE DEF r
<1>5. /\ TransitionTo(r, Plain("Responding")) \in SlotType
      /\ TransitionTo(r, Plain("Responding")).status = Plain("Responding")
    BY <1>1, <1>2, <1>3, TransitionTyped
<1> QED
    BY <1>4, <1>5 DEF Plain

\* The end of a thread leaves no slot responding, and does not touch a slot
\* that is stopped or blocked.
LEMMA FinishedSlot ==
    ASSUME NEW s \in SlotType, s.status.kind \in Kinds
    PROVE  /\ OnFinished(s) \in SlotType
           /\ OnFinished(s).status.kind \in {"Idle", "Blocked", "Stopped"}
           /\ s.status.kind \in {"Blocked", "Stopped"}
              => OnFinished(s).status = s.status
           /\ OnFinished(s).pid = NoThread
<1>1. Idle \in Statuses /\ Idle.kind = "Idle"
    BY DEF Idle, Plain, Statuses, SlotKinds
<1>2. s.status \in Statuses
    BY DEF SlotType
<1>3. CASE s.status.kind = "Responding"
    <2>1. CanTransition(s.status, Idle)
        BY <1>1, <1>2, <1>3, AllowedMoves
    <2>2. TransitionTo(s, Idle) \in SlotType /\ TransitionTo(s, Idle).status = Idle
        BY <2>1, <1>1, TransitionTyped
    <2>3. OnFinished(s) = ClearProviderThread(TransitionTo(s, Idle))
        BY <1>3 DEF OnFinished, IsActive
    <2> QED BY <2>2, <2>3, <1>1, <1>3, ClearTyped
<1>4. CASE s.status.kind # "Responding"
    <2>1. OnFinished(s) = ClearProviderThread(s)
        BY <1>4 DEF OnFinished, IsActive, Kinds
    <2> QED BY <2>1, <1>4, ClearTyped DEF Kinds
<1> QED BY <1>3, <1>4

\* An error leaves no slot responding; a stopped slot stays stopped.
LEMMA ErrorSlot ==
    ASSUME NEW s \in SlotType, s.status.kind \in Kinds
    PROVE  /\ OnError(s) \in SlotType
           /\ OnError(s).status.kind \in {"Idle", "Blocked", "Stopped"}
           /\ s.status.kind \in {"Blocked", "Stopped"}
              => OnError(s).status.kind = s.status.kind
           /\ OnError(s).pid = NoThread
<1> DEFINE b == Tagged("Blocked", "provider error")
<1>1. b \in Statuses /\ b.kind = "Blocked"
    BY DEF Tagged, Statuses, SlotKinds
<1>2. s.status \in Statuses
    BY DEF SlotType
<1> HIDE DEF b
<1>3. TransitionTo(s, b) \in SlotType /\ TransitionTo(s, b).status \in {s.status, b}
    BY <1>1, TransitionTyped
<1>4. OnError(s) = ClearProviderThread(TransitionTo(s, b))
    BY DEF OnError, b
<1>5. OnError(s) \in SlotType /\ OnError(s).status = TransitionTo(s, b).status
      /\ OnError(s).pid = NoThread
    BY <1>3, <1>4, ClearTyped
<1>6. s.status.kind = "Responding" => OnError(s).status = b
    BY <1>1, <1>2, <1>5, TransitionTyped, AllowedMoves
<1>7. s.status.kind = "Stopped" => OnError(s).status = s.status
    BY <1>1, <1>2, <1>5, TransitionTyped, AllowedMoves
<1> QED BY <1>1, <1>3, <1>5, <1>6, <1>7 DEF Kinds

\* The Worker's copy of an event does not show in the slot.
LEMMA TouchedSlot ==
    ASSUME NEW s \in SlotType, s.status.kind \in Kinds, NEW e
    PROVE  /\ Touched(s, e) \in SlotType
           /\ Touched(s, e).status = s.status
           /\ Touched(s, e).pid = s.pid
<1>1. WorkerApply(s.worker, e) \in WorkerStates
    BY WorkerMoveTyped DEF WorkerApply, SlotType
<1>2. Touched(s, e) = [s EXCEPT !.worker = WorkerApply(s.worker, e)]
    BY DEF Touched, IsWaiting, Kinds
<1> QED BY <1>1, <1>2 DEF SlotType

\* A decision unblocks a slot into Idle.
LEMMA UnblockedSlot ==
    ASSUME NEW s \in SlotType, s.status.kind \in Kinds
    PROVE  /\ Unblocked(s) \in SlotType
           /\ Unblocked(s).status.kind \in Kinds
           /\ Unblocked(s).status.kind = "Responding" => s.status.kind = "Responding"
<1>1. Idle \in Statuses /\ Idle.kind = "Idle"
    BY DEF Idle, Plain, Statuses, SlotKinds
<1>2. CASE IsBlocked(s.status)
    <2>1. Unblocked(s) = TransitionTo(s, Idle)
        BY <1>2 DEF Unblocked
    <2> QED BY <2>1, <1>1, TransitionTyped DEF Kinds
<1>3. CASE ~IsBlocked(s.status)
    BY <1>3 DEF Unblocked
<1> QED BY <1>2, <1>3
-----------------------------------------------------------------------------
(* The steps *)

LEMMA InitInv == Init => RuntimeInv
<1> SUFFICES ASSUME Init PROVE RuntimeInv
    OBVIOUS
<1>1. NewSlot \in SlotType /\ NewSlot.status.kind = "Idle"
    BY RuntimeAssumption
    DEF NewSlot, SlotType, Idle, Plain, Statuses, SlotKinds, WorkerStates
<1>2. TypeOK
    BY <1>1, RuntimeAssumption DEF Init, TypeOK
<1>3. \A a \in Agents : slot[a].status.kind = "Idle"
    BY <1>1 DEF Init
<1> QED BY <1>2, <1>3 DEF RuntimeInv, Reached, Polling, ActiveIsHeard, IsActive, Init, Kinds

\* A step that gives one agent a new status: enough to check that agent.
LEMMA OneSlot ==
    ASSUME RuntimeInv, NEW a \in Agents, NEW s \in SlotType,
           slot' = [slot EXCEPT ![a] = s],
           recv' \in [Agents -> Threads \cup {NoThread}],
           \A b \in Agents \ {a} : recv'[b] = recv[b],
           s.status.kind \in Kinds,
           IsActive(s.status) => recv'[a] # NoThread
    PROVE  slot' \in [Agents -> SlotType] /\ Reached' /\ ActiveIsHeard'
<1>1. slot' \in [Agents -> SlotType] /\ slot'[a] = s
      /\ \A b \in Agents \ {a} : slot'[b] = slot[b]
    BY DEF RuntimeInv, TypeOK
<1> QED BY <1>1 DEF RuntimeInv, Reached, ActiveIsHeard

\* A new provider thread: the agent works, and its new channel is heard.
LEMMA StartStep ==
    ASSUME RuntimeInv, NEW a \in Agents, NEW s \in SlotType, StartProvider(a, s)
    PROVE  RuntimeInv'
<1>1. thread' \in Seq(ThreadRecords) /\ Len(thread') = Len(thread) + 1
      /\ Len(thread) + 1 \in Threads
    BY RuntimeAssumption
    DEF StartProvider, RuntimeInv, TypeOK, ThreadRecords, Stages, Threads
<1>2. recv' \in [Agents -> Threads \cup {NoThread}] /\ recv'[a] \in Threads
      /\ \A b \in Agents \ {a} : recv'[b] = recv[b]
    BY <1>1 DEF StartProvider, RuntimeInv, TypeOK
<1>3. recv'[a] # NoThread
    BY <1>2 DEF Threads, NoThread
<1>4. slot' \in [Agents -> SlotType] /\ Reached' /\ ActiveIsHeard'
    <2>1. SetThreadHandle(s) \in SlotType /\ SetThreadHandle(s).status.kind \in Kinds
        BY StartedSlot DEF Kinds
    <2>2. slot' = [slot EXCEPT ![a] = SetThreadHandle(s)]
        BY DEF StartProvider
    <2> QED BY <1>2, <1>3, <2>1, <2>2, OneSlot
<1>5. chan' \in [Agents -> Seq(Events)]
    BY DEF StartProvider, RuntimeInv, TypeOK
<1>6. TypeOK'
    BY <1>1, <1>2, <1>4, <1>5, RuntimeAssumption
    DEF StartProvider, RuntimeInv, TypeOK, tickVars, Threads, ThreadRecords
<1>7. Polling'
    BY <1>2, <1>3 DEF RuntimeInv, Polling, StartProvider, tickVars
<1> QED BY <1>4, <1>6, <1>7 DEF RuntimeInv

\* A step that only gives one slot another status that is not active.
LEMMA StatusStep ==
    ASSUME RuntimeInv, NEW a \in Agents, NEW s \in SlotType,
           slot' = [slot EXCEPT ![a] = s],
           s.status.kind \in {"Idle", "Blocked", "Stopped"},
           UNCHANGED <<recv, thread, chan, tickVars>>
    PROVE  RuntimeInv'
<1>1. slot' \in [Agents -> SlotType] /\ Reached' /\ ActiveIsHeard'
    BY OneSlot DEF RuntimeInv, TypeOK, IsActive, Kinds
<1> QED BY <1>1 DEF RuntimeInv, TypeOK, Polling, tickVars

\* Stopping an agent that may be stopped.
LEMMA StopStep ==
    ASSUME RuntimeInv, NEW a \in Agents, NEW stopped \in Targets,
           stopped.kind = "Stopped",
           CanTransition(slot[a].status, stopped),
           slot' = [slot EXCEPT ![a] = TransitionTo(slot[a], stopped)],
           UNCHANGED <<recv, thread, chan, tickVars>>
    PROVE  RuntimeInv'
<1>1. slot[a] \in SlotType /\ stopped \in Statuses
    BY TargetsTyped DEF RuntimeInv, TypeOK
<1>2. TransitionTo(slot[a], stopped) \in SlotType
      /\ TransitionTo(slot[a], stopped).status = stopped
    BY <1>1, TransitionTyped
<1> QED BY <1>2, StatusStep

\* A provider thread touches nothing but its stage and its channel.
LEMMA ThreadStepInv ==
    ASSUME RuntimeInv, NEW t \in DOMAIN thread, ThreadStep(t)
    PROVE  RuntimeInv' /\ UNCHANGED slot
<1> DEFINE b == thread[t].agent
<1>0. thread \in Seq(ThreadRecords)
    BY DEF RuntimeInv, TypeOK, ThreadRecords
<1>1. thread \in Seq(ThreadRecords) /\ thread[t] \in ThreadRecords /\ b \in Agents
    <2>1. thread[t] \in ThreadRecords
        BY <1>0
    <2> QED BY <1>0, <2>1 DEF ThreadRecords
<1>2. \A e \in Events : Send(t, e) => chan' \in [Agents -> Seq(Events)]
    <2> SUFFICES ASSUME NEW e \in Events, Send(t, e)
                 PROVE  chan' \in [Agents -> Seq(Events)]
        OBVIOUS
    <2>1. chan \in [Agents -> Seq(Events)] /\ Append(chan[b], e) \in Seq(Events)
        BY <1>1 DEF RuntimeInv, TypeOK
    <2> QED BY <1>1, <2>1 DEF Send
<1>3. \A at \in Stages : Advance(t, at) =>
         thread' \in Seq(ThreadRecords) /\ Len(thread') = Len(thread)
    <2> SUFFICES ASSUME NEW at \in Stages, Advance(t, at)
                 PROVE  thread' \in Seq(ThreadRecords) /\ Len(thread') = Len(thread)
        OBVIOUS
    <2>1. thread' = [thread EXCEPT ![t] = [thread[t] EXCEPT !.at = at]]
        BY DEF Advance
    <2>2. [thread[t] EXCEPT !.at = at] \in ThreadRecords
        BY <1>1 DEF ThreadRecords
    <2> QED BY <1>1, <2>1, <2>2
<1> DEFINE Quiet ==
        /\ UNCHANGED <<sessionVars, tickVars>>
        /\ thread' \in Seq(ThreadRecords) /\ Len(thread') = Len(thread)
        /\ chan' \in [Agents -> Seq(Events)]
<1>4. Quiet
    <2>1. CASE StartFails(t) \/ ThreadEnds(t)
        BY <2>1, <1>3 DEF StartFails, ThreadEnds, Stages, RuntimeInv, TypeOK, Advance
    <2>2. CASE SpawnFails(t) \/ ReadFails(t)
        BY <2>2, <1>2, <1>3 DEF SpawnFails, ReadFails, Stages, Events, Advance
    <2>3. CASE SpawnProcess(t)
        <3>1. thread' = [thread EXCEPT ![t] = [thread[t] EXCEPT !.at = "process",
                                                                !.alive = TRUE]]
            BY <2>3 DEF SpawnProcess
        <3>2. [thread[t] EXCEPT !.at = "process", !.alive = TRUE] \in ThreadRecords
            BY <1>1 DEF ThreadRecords, Stages
        <3>3. thread' \in Seq(ThreadRecords) /\ Len(thread') = Len(thread)
            BY <1>1, <3>1, <3>2
        <3> QED BY <1>2, <2>3, <3>3 DEF SpawnProcess, Events
    <2>4. CASE MockStarts(t) \/ SayFinished(t)
        BY <2>4, <1>2, <1>3 DEF MockStarts, SayFinished, Stages, Events, Advance
    <2>5. ASSUME NEW e \in Events, Stream(t, e) PROVE Quiet
        BY <2>5, <1>2, <1>3 DEF Stream, Stages, Advance
    <2>6. CASE ProcessDies(t)
        <3>1. thread' = [thread EXCEPT ![t] = [thread[t] EXCEPT !.alive = FALSE]]
            BY <2>6 DEF ProcessDies
        <3>2. [thread[t] EXCEPT !.alive = FALSE] \in ThreadRecords
            BY <1>1 DEF ThreadRecords
        <3> QED BY <1>1, <2>6, <3>1, <3>2 DEF ProcessDies, RuntimeInv, TypeOK
    <2>7. ASSUME NEW ok \in BOOLEAN, SeesExit(t, ok) PROVE Quiet
        BY <2>7, <1>2, <1>3 DEF SeesExit, Stages, Events, Advance, RuntimeInv, TypeOK
    <2> QED BY <2>1, <2>2, <2>3, <2>4, <2>5, <2>6, <2>7 DEF ThreadStep
<1>5. TypeOK' /\ UNCHANGED <<slot, recv, phase, toPoll>>
    BY <1>4 DEF RuntimeInv, TypeOK, ThreadRecords, sessionVars, tickVars
<1> QED BY <1>5 DEF RuntimeInv, Reached, Polling, ActiveIsHeard
-----------------------------------------------------------------------------
(* The tick *)

LEMMA PollStep ==
    ASSUME RuntimeInv, NEW a \in Agents, PollChannel(a)
    PROVE  RuntimeInv'
<1> DEFINE part == [i \in 1..Len(chan[a]) |->
                       [agent |-> a, thread |-> recv[a], event |-> chan[a][i]]]
<1>1. chan[a] \in Seq(Events) /\ recv[a] \in Threads
    BY DEF PollChannel, RuntimeInv, TypeOK, Polling
<1>2. part \in Seq(BatchRecords)
    <2>1. \A i \in 1..Len(chan[a]) : chan[a][i] \in Events
        BY <1>1
    <2>2. part \in [1..Len(chan[a]) -> BatchRecords]
        BY <1>1, <2>1 DEF BatchRecords
    <2>3. Len(chan[a]) \in Nat
        BY <1>1
    <2> HIDE DEF part
    <2> QED BY <2>2, <2>3
<1>3. batch' = batch \o part
    BY DEF PollChannel
<1> HIDE DEF part
<1>4. batch' \in Seq(BatchRecords)
    BY <1>2, <1>3 DEF RuntimeInv, TypeOK, BatchRecords
<1>5. chan' \in [Agents -> Seq(Events)] /\ lost' \subseteq Agents
      /\ toPoll' \subseteq toPoll
    BY DEF PollChannel, RuntimeInv, TypeOK
<1>6. TypeOK'
    BY <1>4, <1>5 DEF PollChannel, RuntimeInv, TypeOK, BatchRecords, sessionVars
<1> QED BY <1>5, <1>6
    DEF RuntimeInv, Reached, Polling, ActiveIsHeard, PollChannel, sessionVars

\* The first event of the batch is typed, and the slot it is for ends in one
\* of the statuses in use.
LEMMA AppliedEvent ==
    ASSUME RuntimeInv, ApplyEvent
    PROVE  \E a \in Agents, s \in SlotType :
             /\ slot' = [slot EXCEPT ![a] = s]
             /\ s.status.kind \in Kinds
             /\ slot[a].status.kind \in {"Blocked", "Stopped"}
                => s.status.kind = slot[a].status.kind
             /\ \/ s.status = slot[a].status /\ recv' = recv /\ chan' = chan
                \/ /\ s.status.kind \in {"Idle", "Blocked", "Stopped"}
                   /\ recv' = [recv EXCEPT ![a] = NoThread]
                   /\ chan' = [chan EXCEPT ![a] = <<>>]
<1> DEFINE h == Head(batch)
           a == h.agent
           e == h.event
           s == Touched(slot[a], e)
           r == CASE e = "Finished" -> OnFinished(s)
                  [] e = "Error" -> OnError(s)
                  [] e = "Pid" -> [s EXCEPT !.pid = h.thread]
                  [] OTHER -> s
<1>1. h \in BatchRecords
    <2>1. batch \in Seq(BatchRecords) /\ batch # <<>>
        BY DEF ApplyEvent, RuntimeInv, TypeOK, BatchRecords
    <2> QED BY <2>1
<1>2. a \in Agents /\ h.thread \in Threads
    BY <1>1 DEF BatchRecords
<1>3. slot[a] \in SlotType /\ slot[a].status.kind \in Kinds
    BY <1>2 DEF RuntimeInv, TypeOK, Reached
<1>4. s \in SlotType /\ s.status = slot[a].status
    BY <1>3, TouchedSlot
<1>5. slot' = [slot EXCEPT ![a] = r]
    BY DEF ApplyEvent
<1>6. recv' = (IF e \in {"Finished", "Error"} THEN [recv EXCEPT ![a] = NoThread] ELSE recv)
      /\ chan' = (IF e \in {"Finished", "Error"} THEN [chan EXCEPT ![a] = <<>>] ELSE chan)
    BY DEF ApplyEvent
<1>7. CASE e = "Finished"
    <2>1. r = OnFinished(s)
        BY <1>7
    <2>2. r \in SlotType /\ r.status.kind \in {"Idle", "Blocked", "Stopped"}
          /\ (slot[a].status.kind \in {"Blocked", "Stopped"} => r.status = slot[a].status)
        BY <2>1, <1>3, <1>4, FinishedSlot
    <2> HIDE DEF r, a, e
    <2> QED BY <1>2, <1>5, <1>6, <1>7, <2>2 DEF Kinds
<1>8. CASE e = "Error"
    <2>1. r = OnError(s)
        BY <1>8
    <2>2. r \in SlotType /\ r.status.kind \in {"Idle", "Blocked", "Stopped"}
          /\ (slot[a].status.kind \in {"Blocked", "Stopped"}
                => r.status.kind = slot[a].status.kind)
        BY <2>1, <1>3, <1>4, ErrorSlot
    <2> HIDE DEF r, a, e
    <2> QED BY <1>2, <1>5, <1>6, <1>8, <2>2 DEF Kinds
<1>9. CASE e \notin {"Finished", "Error"}
    <2>1. r = IF e = "Pid" THEN [s EXCEPT !.pid = h.thread] ELSE s
        BY <1>9
    <2> HIDE DEF s
    <2>2. r \in SlotType /\ r.status = slot[a].status
        BY <2>1, <1>2, <1>4 DEF SlotType
    <2> HIDE DEF r, a, e
    <2> QED BY <1>2, <1>3, <1>5, <1>6, <1>9, <2>2
<1> QED BY <1>7, <1>8, <1>9

LEMMA ApplyStep ==
    ASSUME RuntimeInv, ApplyEvent
    PROVE  RuntimeInv'
<1>1. PICK a \in Agents, s \in SlotType :
         /\ slot' = [slot EXCEPT ![a] = s]
         /\ s.status.kind \in Kinds
         /\ \/ s.status = slot[a].status /\ recv' = recv /\ chan' = chan
            \/ /\ s.status.kind \in {"Idle", "Blocked", "Stopped"}
               /\ recv' = [recv EXCEPT ![a] = NoThread]
               /\ chan' = [chan EXCEPT ![a] = <<>>]
    BY AppliedEvent
<1>2. recv' \in [Agents -> Threads \cup {NoThread}]
      /\ (\A b \in Agents \ {a} : recv'[b] = recv[b])
      /\ chan' \in [Agents -> Seq(Events)]
    <2>1. recv \in [Agents -> Threads \cup {NoThread}] /\ chan \in [Agents -> Seq(Events)]
        BY DEF RuntimeInv, TypeOK
    <2>2. CASE recv' = recv /\ chan' = chan
        BY <2>1, <2>2
    <2>3. CASE /\ recv' = [recv EXCEPT ![a] = NoThread]
               /\ chan' = [chan EXCEPT ![a] = <<>>]
        BY <2>1, <2>3
    <2> QED BY <1>1, <2>2, <2>3
<1>3. IsActive(s.status) => recv'[a] # NoThread
    BY <1>1 DEF RuntimeInv, ActiveIsHeard, IsActive
<1>4. slot' \in [Agents -> SlotType] /\ Reached' /\ ActiveIsHeard'
    BY <1>1, <1>2, <1>3, OneSlot
<1>5. batch' \in Seq(BatchRecords)
    <2>1. batch \in Seq(BatchRecords) /\ batch # <<>> /\ batch' = Tail(batch)
        BY DEF ApplyEvent, RuntimeInv, TypeOK, BatchRecords
    <2> QED BY <2>1
<1>6. TypeOK' /\ toPoll' = toPoll /\ phase = "apply" /\ phase' = phase
    BY <1>2, <1>4, <1>5 DEF ApplyEvent, RuntimeInv, TypeOK, BatchRecords
<1> QED BY <1>4, <1>6 DEF RuntimeInv, Polling

\* A disconnected channel ends its agent's work like Finished does.
LEMMA DropStep ==
    ASSUME RuntimeInv, NEW a \in Agents, DropChannel(a)
    PROVE  RuntimeInv'
<1>1. slot[a] \in SlotType /\ slot[a].status.kind \in Kinds
    BY DEF RuntimeInv, TypeOK, Reached
<1>2. OnFinished(slot[a]) \in SlotType
      /\ OnFinished(slot[a]).status.kind \in {"Idle", "Blocked", "Stopped"}
    BY <1>1, FinishedSlot
<1>3. recv' \in [Agents -> Threads \cup {NoThread}]
      /\ \A b \in Agents \ {a} : recv'[b] = recv[b]
    BY DEF DropChannel, RuntimeInv, TypeOK
<1>4. slot' \in [Agents -> SlotType] /\ Reached' /\ ActiveIsHeard'
    <2>1. slot' = [slot EXCEPT ![a] = OnFinished(slot[a])]
        BY DEF DropChannel
    <2> QED BY <1>2, <1>3, <2>1, OneSlot DEF IsActive, Kinds
<1>5. TypeOK'
    BY <1>3, <1>4 DEF DropChannel, RuntimeInv, TypeOK
<1>6. Polling'
    BY DEF DropChannel, RuntimeInv, Polling
<1> QED BY <1>4, <1>5, <1>6 DEF RuntimeInv
-----------------------------------------------------------------------------
(* The theorems *)

LEMMA NextInv == RuntimeInv /\ [Next]_vars => RuntimeInv'
<1> SUFFICES ASSUME RuntimeInv, [Next]_vars PROVE RuntimeInv'
    OBVIOUS
<1>0. \A a \in Agents : slot[a] \in SlotType /\ slot[a].status.kind \in Kinds
    BY DEF RuntimeInv, TypeOK, Reached
<1>1. CASE SessionStep
    <2>1. ASSUME NEW a \in Agents, SendInput(a) PROVE RuntimeInv'
        BY <1>0, <2>1, StartStep DEF SendInput
    <2>2. ASSUME NEW a \in Agents, StopAgent(a) PROVE RuntimeInv'
        <3> DEFINE stopped == Tagged("Stopped", "user requested")
        <3>1. stopped \in Targets /\ stopped.kind = "Stopped"
            BY DEF Targets, Tagged
        <3>2. /\ CanTransition(slot[a].status, stopped)
              /\ slot' = [slot EXCEPT ![a] = TransitionTo(slot[a], stopped)]
              /\ UNCHANGED <<recv, thread, chan, tickVars>>
            BY <2>2 DEF StopAgent
        <3> HIDE DEF stopped
        <3> QED BY <3>1, <3>2, StopStep
    <2>3. CASE TerminateAll
        <3>1. thread \in Seq(ThreadRecords)
            BY DEF RuntimeInv, TypeOK, ThreadRecords
        <3>2. \A t \in 1..Len(thread) : thread'[t] \in ThreadRecords
            <4> SUFFICES ASSUME NEW t \in 1..Len(thread)
                         PROVE  thread'[t] \in ThreadRecords
                OBVIOUS
            <4>1. thread[t] \in ThreadRecords
                BY <3>1
            <4>2. [thread[t] EXCEPT !.alive = FALSE] \in ThreadRecords
                BY <4>1 DEF ThreadRecords
            <4>3. thread'[t] \in {thread[t], [thread[t] EXCEPT !.alive = FALSE]}
                BY <2>3, <3>1 DEF TerminateAll
            <4> QED BY <4>1, <4>2, <4>3
        <3>3. thread' = [t \in 1..Len(thread) |-> thread'[t]] /\ Len(thread) \in Nat
            BY <2>3, <3>1 DEF TerminateAll
        <3>4. thread' \in [1..Len(thread) -> ThreadRecords]
            BY <3>2, <3>3
        <3>5. thread' \in Seq(ThreadRecords) /\ Len(thread') = Len(thread)
            BY <3>3, <3>4
        <3>6. UNCHANGED <<slot, recv, chan, phase, toPoll, batch, lost>>
            BY <2>3 DEF TerminateAll, sessionVars, tickVars
        <3> QED BY <3>5, <3>6
            DEF RuntimeInv, TypeOK, ThreadRecords, Reached, Polling, ActiveIsHeard
    <2> QED BY <1>1, <2>1, <2>2, <2>3 DEF SessionStep
<1>2. CASE DecisionStep
    <2>1. ASSUME NEW a \in Agents, NEW unblock \in BOOLEAN,
                 DecisionInstructs(a, unblock)
          PROVE  RuntimeInv'
        <3>1. Unblocked(slot[a]) \in SlotType
            BY <1>0, UnblockedSlot
        <3> QED BY <1>0, <2>1, <3>1, StartStep DEF DecisionInstructs
    <2>2. ASSUME NEW a \in Agents, DecisionUnblocks(a) PROVE RuntimeInv'
        <3>1. Unblocked(slot[a]) \in SlotType
              /\ Unblocked(slot[a]).status.kind \in {"Idle", "Blocked", "Stopped"}
            BY <1>0, <2>2, UnblockedSlot DEF DecisionUnblocks, IsBlocked, Kinds
        <3>2. slot' = [slot EXCEPT ![a] = Unblocked(slot[a])]
              /\ UNCHANGED <<recv, thread, chan, tickVars>>
            BY <2>2 DEF DecisionUnblocks
        <3> QED BY <3>1, <3>2, StatusStep
    <2>3. ASSUME NEW a \in Agents, NEW reason \in DecisionReasons,
                 DecisionStops(a, reason)
          PROVE  RuntimeInv'
        <3> DEFINE stopped == Tagged("Stopped", reason)
        <3>1. stopped \in Targets /\ stopped.kind = "Stopped"
            BY DEF Targets, Tagged
        <3>2. /\ CanTransition(slot[a].status, stopped)
              /\ slot' = [slot EXCEPT ![a] = TransitionTo(slot[a], stopped)]
              /\ UNCHANGED <<recv, thread, chan, tickVars>>
            BY <2>3 DEF DecisionStops
        <3> HIDE DEF stopped
        <3> QED BY <3>1, <3>2, StopStep
    <2> QED BY <1>2, <2>1, <2>2, <2>3 DEF DecisionStep
<1>3. CASE LoopStep
    <2>1. CASE TickStarts
        BY <2>1 DEF TickStarts, RuntimeInv, TypeOK, Reached, Polling, ActiveIsHeard, sessionVars
    <2>2. CASE PollEnds \/ ApplyEnds \/ TickEnds
        BY <2>2 DEF PollEnds, ApplyEnds, TickEnds, RuntimeInv, TypeOK, Reached,
                    Polling, ActiveIsHeard, sessionVars
    <2>3. CASE ApplyEvent
        BY <2>3, ApplyStep
    <2>4. ASSUME NEW a \in Agents, PollChannel(a) \/ DropChannel(a) PROVE RuntimeInv'
        BY <2>4, PollStep, DropStep
    <2> QED BY <1>3, <2>1, <2>2, <2>3, <2>4 DEF LoopStep
<1>4. CASE \E t \in DOMAIN thread : ThreadStep(t)
    BY <1>4, ThreadStepInv
<1>5. CASE UNCHANGED vars
    BY <1>5 DEF vars, RuntimeInv, TypeOK, Reached, Polling, ActiveIsHeard
<1> QED BY <1>1, <1>2, <1>3, <1>4, <1>5 DEF Next

\* However many agents and provider threads there are, an agent shown as
\* working has a channel that the session manager listens to.
THEOREM RuntimeSafe == Spec => [](TypeOK /\ ActiveIsHeard)
<1>1. RuntimeInv => TypeOK /\ ActiveIsHeard
    BY DEF RuntimeInv
<1> QED BY <1>1, InitInv, NextInv, PTL DEF Spec

\* However many agents and provider threads there are, what a thread says
\* after its agent was stopped or failed leaves the agent stopped or failed.
THEOREM LateEventsHarmless == Spec => LateEventsKeepStatus
<1> DEFINE Kept == \A a \in Agents :
                      /\ slot[a].status.kind \in {"Stopped", "Blocked"}
                      /\ ApplyEvent \/ DropChannel(a)
                      => slot'[a].status.kind = slot[a].status.kind
<1>1. RuntimeInv /\ [Next]_vars => [Kept]_vars
    <2> SUFFICES ASSUME RuntimeInv, NEW a \in Agents,
                        slot[a].status.kind \in {"Stopped", "Blocked"},
                        ApplyEvent \/ DropChannel(a)
                 PROVE  slot'[a].status.kind = slot[a].status.kind
        OBVIOUS
    <2>1. slot[a] \in SlotType /\ slot[a].status.kind \in Kinds
          /\ slot \in [Agents -> SlotType]
        BY DEF RuntimeInv, TypeOK, Reached
    <2>2. CASE ApplyEvent
        <3>1. PICK b \in Agents, s \in SlotType :
                 /\ slot' = [slot EXCEPT ![b] = s]
                 /\ slot[b].status.kind \in {"Blocked", "Stopped"}
                    => s.status.kind = slot[b].status.kind
            BY <2>2, AppliedEvent
        <3> QED BY <2>1, <3>1
    <2>3. CASE DropChannel(a)
        <3>1. slot' = [slot EXCEPT ![a] = OnFinished(slot[a])]
            BY <2>3 DEF DropChannel
        <3>2. OnFinished(slot[a]).status = slot[a].status
            BY <2>1, FinishedSlot
        <3> QED BY <2>1, <3>1, <3>2
    <2> QED BY <2>2, <2>3
<1> QED BY <1>1, InitInv, NextInv, PTL DEF Spec, LateEventsKeepStatus

\* Every variable of the provider runtime keeps its type, for every set of
\* agents and any number of provider threads.
COROLLARY RuntimeTyped == Spec => []TypeOK
  BY RuntimeSafe, PTL
-----------------------------------------------------------------------------
(* A recorded pid is heard: why no order of events records one too late *)

\* The aggregator reads the channel of a thread of that very agent.
HeardThread ==
    \A a \in Agents : recv[a] # NoThread =>
        recv[a] \in DOMAIN thread /\ thread[recv[a]].agent = a

\* A thread that has not got further than its start has said nothing.
SilentAtFirst ==
    \A a \in Agents :
        recv[a] = NoThread \/ thread[recv[a]].at = "started" => chan[a] = <<>>

\* The pid is the first thing a thread says.
PidSentFirst == \A a \in Agents : \A i \in DOMAIN chan[a] : chan[a][i] = "Pid" => i = 1

\* Polled events are applied before the tick goes on to its decisions.
BatchOfTick == phase \in {"free", "decide"} => batch = <<>>

\* A channel is polled once in a tick.
PolledOnce == \A a \in toPoll : \A i \in DOMAIN batch : batch[i].agent # a

\* No event of the batch that could drop an agent's channel comes before the
\* pid of that agent.
PidAppliedFirst ==
    \A i \in DOMAIN batch : batch[i].event = "Pid" =>
        /\ recv[batch[i].agent] # NoThread
        /\ \A j \in 1..(i - 1) : batch[j].agent # batch[i].agent

PidInv == /\ HeardThread /\ SilentAtFirst /\ PidSentFirst /\ BatchOfTick
          /\ PolledOnce /\ PidAppliedFirst /\ PidIsHeard

\* What a step of a provider thread does to its stage and its channel.
LEMMA ThreadStepEffect ==
    ASSUME RuntimeInv, NEW t \in DOMAIN thread, ThreadStep(t)
    PROVE  /\ UNCHANGED <<slot, recv, phase, toPoll, batch, lost>>
           /\ DOMAIN thread' = DOMAIN thread
           /\ \A u \in DOMAIN thread : /\ thread'[u].agent = thread[u].agent
                                       /\ u # t => thread'[u] = thread[u]
           /\ \/ chan' = chan /\ (thread'[t].at = "started" => thread[t].at = "started")
              \/ \E e \in Events : /\ Send(t, e)
                                   /\ thread'[t].at # "started"
                                   /\ e = "Pid" => thread[t].at = "started"
<1>1. thread \in Seq(ThreadRecords) /\ thread[t] \in ThreadRecords
    <2>1. thread \in Seq(ThreadRecords)
        BY DEF RuntimeInv, TypeOK, ThreadRecords
    <2> QED BY <2>1
<1>2. UNCHANGED <<slot, recv, phase, toPoll, batch, lost>>
    BY DEF ThreadStep, StartFails, SpawnFails, SpawnProcess, MockStarts, Stream, ProcessDies,
           ReadFails, SeesExit, SayFinished, ThreadEnds, Advance, sessionVars, tickVars
<1> DEFINE Moves(r) == /\ DOMAIN thread' = DOMAIN thread
                       /\ \A u \in DOMAIN thread : u # t => thread'[u] = thread[u]
                       /\ thread'[t] = r
                       /\ r.agent = thread[t].agent
<1>3. ASSUME NEW at \in Stages, Advance(t, at)
      PROVE  Moves([thread[t] EXCEPT !.at = at]) /\ thread'[t].at = at
    <2>1. thread' = [thread EXCEPT ![t] = [thread[t] EXCEPT !.at = at]]
        BY <1>3 DEF Advance
    <2> QED BY <1>1, <2>1 DEF ThreadRecords
<1> DEFINE Said(e) == Send(t, e) /\ thread'[t].at # "started" /\ (e = "Pid" => thread[t].at = "started")
           Effect == /\ \E r : Moves(r)
                     /\ \/ chan' = chan /\ (thread'[t].at = "started" => thread[t].at = "started")
                        \/ \E e \in Events : Said(e)
<1> HIDE DEF Moves
<1>4. ASSUME StartFails(t) \/ ThreadEnds(t) PROVE Effect
    BY <1>3, <1>4 DEF StartFails, ThreadEnds, Stages
<1>5. ASSUME SpawnFails(t) \/ ReadFails(t) PROVE Effect
    <2>1. Advance(t, "ending") /\ Send(t, "Error")
        BY <1>5 DEF SpawnFails, ReadFails
    <2> QED BY <1>3, <2>1 DEF Stages, Events
<1>6. ASSUME SpawnProcess(t) PROVE Effect
    <2>1. thread' = [thread EXCEPT ![t] = [thread[t] EXCEPT !.at = "process", !.alive = TRUE]]
        BY <1>6 DEF SpawnProcess
    <2>2. Moves([thread[t] EXCEPT !.at = "process", !.alive = TRUE]) /\ thread'[t].at = "process"
        BY <1>1, <2>1 DEF ThreadRecords, Moves
    <2>3. Send(t, "Pid") /\ thread[t].at = "started"
        BY <1>6 DEF SpawnProcess
    <2> QED BY <2>2, <2>3 DEF Events
<1>7. ASSUME MockStarts(t) \/ SayFinished(t) PROVE Effect
    <2>1. \E at \in {"mock", "finished"}, e \in {"Note", "Finished"} : Advance(t, at) /\ Send(t, e)
        BY <1>7 DEF MockStarts, SayFinished
    <2> QED BY <1>3, <2>1 DEF Stages, Events
<1>8. ASSUME NEW e \in Events, Stream(t, e) PROVE Effect
    <2>1. PICK at \in {"process", "mock", "gone"} : Advance(t, at) /\ Send(t, e)
        BY <1>8 DEF Stream
    <2>2. e # "Pid"
        BY <1>8, RuntimeAssumption DEF Stream
    <2> QED BY <1>3, <2>1, <2>2 DEF Stages
<1>9. ASSUME ProcessDies(t) PROVE Effect
    <2>1. thread' = [thread EXCEPT ![t] = [thread[t] EXCEPT !.alive = FALSE]]
        BY <1>9 DEF ProcessDies
    <2>2. Moves([thread[t] EXCEPT !.alive = FALSE]) /\ thread'[t].at = thread[t].at
        BY <1>1, <2>1 DEF ThreadRecords, Moves
    <2> QED BY <1>9, <2>2 DEF ProcessDies
<1>10. ASSUME NEW ok \in BOOLEAN, SeesExit(t, ok) PROVE Effect
    <2>1. Advance(t, "ending") /\ (chan' = chan \/ Send(t, "Error"))
        BY <1>10 DEF SeesExit
    <2> QED BY <1>3, <2>1 DEF Stages, Events
<1>11. Effect
    BY <1>4, <1>5, <1>6, <1>7, <1>8, <1>9, <1>10 DEF ThreadStep
<1> QED BY <1>2, <1>11 DEF Moves

LEMMA ThreadStepPid ==
    ASSUME RuntimeInv, PidInv, NEW t \in DOMAIN thread, ThreadStep(t)
    PROVE  PidInv'
<1> DEFINE b == thread[t].agent
<1>1. /\ UNCHANGED <<slot, recv, phase, toPoll, batch, lost>>
      /\ DOMAIN thread' = DOMAIN thread
      /\ \A u \in DOMAIN thread : /\ thread'[u].agent = thread[u].agent
                                  /\ u # t => thread'[u] = thread[u]
    BY ThreadStepEffect
<1>2. HeardThread' /\ BatchOfTick' /\ PolledOnce' /\ PidAppliedFirst' /\ PidIsHeard'
    BY <1>1 DEF PidInv, HeardThread, BatchOfTick, PolledOnce, PidAppliedFirst, PidIsHeard
<1>3. CASE chan' = chan /\ (thread'[t].at = "started" => thread[t].at = "started")
    <2>1. SilentAtFirst'
        BY <1>1, <1>3 DEF PidInv, SilentAtFirst, HeardThread
    <2> QED BY <1>2, <1>3, <2>1 DEF PidInv, PidSentFirst
<1>4. ASSUME NEW e \in Events, Send(t, e), thread'[t].at # "started",
             e = "Pid" => thread[t].at = "started"
      PROVE  PidInv'
    <2>0. t # NoThread
        BY DEF RuntimeInv, TypeOK, NoThread
    <2>1. \A a \in Agents : recv[a] = t => a = b
        BY <2>0 DEF PidInv, HeardThread
    <2>2. chan \in [Agents -> Seq(Events)]
        BY DEF RuntimeInv, TypeOK
    <2>3. ASSUME NEW a \in Agents
          PROVE  /\ recv[a] # t => chan'[a] = chan[a]
                 /\ recv[a] = t => chan'[a] = Append(chan[a], e)
        BY <1>4, <2>1, <2>2 DEF Send
    <2>4. SilentAtFirst'
        <3>1. ASSUME NEW a \in Agents, recv'[a] = NoThread \/ thread'[recv'[a]].at = "started"
              PROVE  chan'[a] = <<>>
            <4>1. recv[a] # t
                BY <1>1, <1>4, <2>0, <3>1
            <4>2. recv[a] = NoThread \/ thread[recv[a]].at = "started"
                BY <1>1, <3>1, <4>1 DEF PidInv, HeardThread
            <4> QED BY <2>3, <4>1, <4>2 DEF PidInv, SilentAtFirst
        <3> QED BY <3>1 DEF SilentAtFirst
    <2>5. PidSentFirst'
        <3>1. ASSUME NEW a \in Agents, NEW i \in DOMAIN chan'[a], chan'[a][i] = "Pid"
              PROVE  i = 1
            <4>1. CASE recv[a] # t
                BY <2>3, <3>1, <4>1 DEF PidInv, PidSentFirst
            <4>2. CASE recv[a] = t
                <5>1. chan[a] \in Seq(Events) /\ chan'[a] = Append(chan[a], e)
                    BY <2>2, <2>3, <4>2
                <5>2. CASE i = Len(chan[a]) + 1
                    <6>1. e = "Pid"
                        BY <3>1, <5>1, <5>2
                    <6>2. chan[a] = <<>>
                        BY <1>4, <4>2, <6>1 DEF PidInv, SilentAtFirst
                    <6> QED BY <5>2, <6>2
                <5>3. CASE i # Len(chan[a]) + 1
                    <6>1. i \in DOMAIN chan[a] /\ chan[a][i] = "Pid"
                        BY <3>1, <5>1, <5>3
                    <6> QED BY <6>1 DEF PidInv, PidSentFirst
                <5> QED BY <5>2, <5>3
            <4> QED BY <4>1, <4>2
        <3> QED BY <3>1 DEF PidSentFirst
    <2> QED BY <1>2, <2>4, <2>5 DEF PidInv
<1> QED BY <1>3, <1>4, ThreadStepEffect

\* Starting a thread: its channel is new and empty, whatever pid the slot still
\* carries is heard on it.
LEMMA StartPid ==
    ASSUME RuntimeInv, PidInv, NEW a \in Agents, NEW s, phase \in {"free", "decide"},
           StartProvider(a, s)
    PROVE  PidInv'
<1> DEFINE n == Len(thread) + 1
           r == [agent |-> a, at |-> "started", alive |-> FALSE]
<1>1. thread \in Seq(ThreadRecords) /\ Len(thread) \in Nat /\ r \in ThreadRecords
    BY DEF RuntimeInv, TypeOK, ThreadRecords, Stages
<1>2. /\ thread' = Append(thread, r) /\ n # NoThread
      /\ slot' = [slot EXCEPT ![a] = SetThreadHandle(s)]
      /\ recv' = [recv EXCEPT ![a] = n]
      /\ chan' = [chan EXCEPT ![a] = <<>>]
      /\ UNCHANGED <<phase, toPoll, batch, lost>>
    BY <1>1 DEF StartProvider, tickVars, NoThread
<1>3. /\ n \in DOMAIN thread' /\ thread'[n] = r /\ r.agent = a
      /\ \A u \in DOMAIN thread : u \in DOMAIN thread' /\ thread'[u] = thread[u]
    BY <1>1, <1>2
<1> HIDE DEF n, r
<1>4. /\ recv'[a] = n /\ chan'[a] = <<>>
      /\ \A b \in Agents \ {a} : slot'[b] = slot[b] /\ recv'[b] = recv[b] /\ chan'[b] = chan[b]
    BY <1>2 DEF RuntimeInv, TypeOK
<1>5. HeardThread' /\ SilentAtFirst' /\ PidIsHeard'
    BY <1>2, <1>3, <1>4 DEF PidInv, HeardThread, SilentAtFirst, PidIsHeard
<1>6. PidSentFirst'
    BY <1>4 DEF PidInv, PidSentFirst
<1>7. batch = <<>> /\ DOMAIN batch = {}
    BY DEF PidInv, BatchOfTick
<1>8. BatchOfTick' /\ PolledOnce' /\ PidAppliedFirst'
    BY <1>2, <1>7 DEF BatchOfTick, PolledOnce, PidAppliedFirst
<1> QED BY <1>5, <1>6, <1>8 DEF PidInv

\* A step that changes one slot and nothing else, and keeps its pid.
LEMMA StatusPid ==
    ASSUME RuntimeInv, PidInv, NEW a \in Agents, NEW s, s.pid = slot[a].pid,
           slot' = [slot EXCEPT ![a] = s], UNCHANGED <<recv, thread, chan, tickVars>>
    PROVE  PidInv'
<1>1. \A b \in Agents : slot'[b].pid = slot[b].pid
    BY DEF RuntimeInv, TypeOK
<1> QED BY <1>1 DEF PidInv, HeardThread, SilentAtFirst, PidSentFirst, BatchOfTick, PolledOnce,
                    PidAppliedFirst, PidIsHeard, tickVars

\* The events of a channel join the batch in their order, behind those of other
\* agents only.
LEMMA PollPid ==
    ASSUME RuntimeInv, PidInv, NEW a \in Agents, PollChannel(a)
    PROVE  PidInv'
<1> DEFINE n == Len(batch)
           part == [i \in 1..Len(chan[a]) |->
                       [agent |-> a, thread |-> recv[a], event |-> chan[a][i]]]
<1>1. /\ phase = "poll" /\ a \in toPoll /\ recv[a] \in Threads /\ recv[a] # NoThread
      /\ toPoll' = toPoll \ {a} /\ batch' = batch \o part
      /\ chan' = [chan EXCEPT ![a] = <<>>]
      /\ UNCHANGED <<slot, recv, thread, phase>>
    BY DEF PollChannel, RuntimeInv, TypeOK, Polling, sessionVars
<1>2. /\ batch \in Seq(BatchRecords) /\ n \in Nat /\ DOMAIN batch = 1..n
      /\ chan[a] \in Seq(Events) /\ Len(chan[a]) \in Nat /\ DOMAIN chan[a] = 1..Len(chan[a])
    BY DEF RuntimeInv, TypeOK, BatchRecords
<1>3. part \in Seq(BatchRecords) /\ Len(part) = Len(chan[a])
    <2>1. \A i \in 1..Len(chan[a]) : chan[a][i] \in Events
        BY <1>2
    <2>2. part \in [1..Len(chan[a]) -> BatchRecords]
        BY <1>1, <2>1 DEF BatchRecords
    <2> HIDE DEF part
    <2> QED BY <1>2, <2>2
<1>4. \A i \in 1..Len(chan[a]) : part[i].agent = a /\ part[i].event = chan[a][i]
    OBVIOUS
<1> HIDE DEF part
<1>5. DOMAIN batch' = 1..(n + Len(chan[a]))
    <2>1. batch' \in Seq(BatchRecords) /\ Len(batch') = n + Len(part)
        BY <1>1, <1>2, <1>3, ConcatProperties
    <2> QED BY <1>3, <2>1
<1>6. ASSUME NEW i \in DOMAIN batch'
      PROVE  \/ i \in DOMAIN batch /\ batch'[i] = batch[i]
             \/ /\ i - n \in DOMAIN chan[a]
                /\ batch'[i].agent = a /\ batch'[i].event = chan[a][i - n]
    <2>1. CASE i <= n
        <3>1. i \in 1..n
            BY <1>2, <1>5, <2>1
        <3> QED BY <1>1, <1>2, <1>3, <3>1
    <2>2. CASE i > n
        <3>1. i - n \in 1..Len(chan[a])
            BY <1>2, <1>5, <2>2
        <3>2. batch'[i] = part[i - n]
            BY <1>1, <1>2, <1>3, <1>5, <2>2
        <3> QED BY <1>2, <1>4, <3>1, <3>2
    <2>3. i \in Nat
        BY <1>2, <1>5
    <2> QED BY <1>2, <2>1, <2>2, <2>3
<1>7. \A i \in 1..n : i \in DOMAIN batch' /\ batch'[i] = batch[i] /\ batch[i].agent # a
    <2>1. \A i \in 1..n : batch[i].agent # a
        BY <1>1, <1>2 DEF PidInv, PolledOnce
    <2> QED BY <1>1, <1>2, <1>3, <1>5, <2>1
<1>8. HeardThread' /\ PidIsHeard' /\ BatchOfTick'
    BY <1>1 DEF PidInv, HeardThread, PidIsHeard, BatchOfTick
<1>9. SilentAtFirst' /\ PidSentFirst'
    <2>1. chan'[a] = <<>> /\ \A b \in Agents \ {a} : chan'[b] = chan[b]
        BY <1>1 DEF RuntimeInv, TypeOK
    <2> QED BY <1>1, <2>1 DEF PidInv, SilentAtFirst, PidSentFirst
<1>10. PolledOnce'
    BY <1>1, <1>6 DEF PidInv, PolledOnce
<1>11. PidAppliedFirst'
    <2> SUFFICES ASSUME NEW i \in DOMAIN batch', batch'[i].event = "Pid"
                 PROVE  /\ recv'[batch'[i].agent] # NoThread
                        /\ \A j \in 1..(i - 1) : batch'[j].agent # batch'[i].agent
        BY DEF PidAppliedFirst
    <2>1. CASE i \in DOMAIN batch /\ batch'[i] = batch[i]
        <3>1. \A j \in 1..(i - 1) : j \in 1..n
            BY <1>2, <2>1
        <3> QED BY <1>1, <1>2, <1>7, <2>1, <3>1 DEF PidInv, PidAppliedFirst
    <2>2. CASE /\ i - n \in DOMAIN chan[a]
               /\ batch'[i].agent = a /\ batch'[i].event = chan[a][i - n]
        <3>1. i - n = 1
            BY <2>2 DEF PidInv, PidSentFirst
        <3>2. i - 1 = n
            BY <1>2, <1>5, <3>1
        <3> QED BY <1>1, <1>7, <2>2, <3>2
    <2> QED BY <1>6, <2>1, <2>2
<1> QED BY <1>8, <1>9, <1>10, <1>11 DEF PidInv

\* Applying the first event of the batch.
LEMMA ApplyPid ==
    ASSUME RuntimeInv, PidInv, ApplyEvent
    PROVE  PidInv'
<1> DEFINE h == Head(batch)
           a == h.agent
           e == h.event
           s == Touched(slot[a], e)
<1>1. /\ batch \in Seq(BatchRecords) /\ batch # <<>> /\ batch' = Tail(batch)
      /\ phase = "apply" /\ UNCHANGED <<thread, phase, toPoll, lost>>
    BY DEF ApplyEvent, RuntimeInv, TypeOK, BatchRecords
<1>2. h \in BatchRecords /\ h = batch[1] /\ 1 \in DOMAIN batch
    BY <1>1
<1>3. a \in Agents /\ h.thread \in Threads
    BY <1>2 DEF BatchRecords
<1>4. slot[a] \in SlotType /\ slot[a].status.kind \in Kinds
    BY <1>3 DEF RuntimeInv, TypeOK, Reached
<1>5. s \in SlotType /\ s.status = slot[a].status /\ s.pid = slot[a].pid
    BY <1>4, TouchedSlot
<1>6. /\ Len(batch) \in Nat /\ DOMAIN batch = 1..Len(batch)
      /\ DOMAIN batch' = 1..(Len(batch) - 1)
      /\ \A i \in DOMAIN batch' : i + 1 \in DOMAIN batch /\ batch'[i] = batch[i + 1]
    BY <1>1
<1>7. slot' = [slot EXCEPT ![a] =
                  CASE e = "Finished" -> OnFinished(s)
                    [] e = "Error" -> OnError(s)
                    [] e = "Pid" -> [s EXCEPT !.pid = h.thread]
                    [] OTHER -> s]
    BY DEF ApplyEvent
<1>8. /\ recv' = (IF e \in {"Finished", "Error"} THEN [recv EXCEPT ![a] = NoThread] ELSE recv)
      /\ chan' = (IF e \in {"Finished", "Error"} THEN [chan EXCEPT ![a] = <<>>] ELSE chan)
    BY DEF ApplyEvent
<1>9. \A b \in Agents \ {a} : slot'[b] = slot[b] /\ recv'[b] = recv[b] /\ chan'[b] = chan[b]
    <2>1. \A b \in Agents \ {a} : slot'[b] = slot[b]
        BY <1>3, <1>7 DEF RuntimeInv, TypeOK
    <2> HIDE DEF a, e
    <2> QED BY <1>3, <1>8, <2>1 DEF RuntimeInv, TypeOK
<1>10. \/ slot'[a].pid = NoThread /\ recv'[a] = NoThread /\ chan'[a] = <<>>
       \/ /\ recv'[a] = recv[a] /\ chan'[a] = chan[a]
          /\ slot'[a].pid = slot[a].pid \/ recv[a] # NoThread
    <2>1. CASE e = "Finished"
        <3>1. slot'[a] = OnFinished(s)
            BY <1>3, <1>7, <2>1 DEF RuntimeInv, TypeOK
        <3>2. OnFinished(s).pid = NoThread
            BY <1>4, <1>5, FinishedSlot
        <3>3. recv'[a] = NoThread /\ chan'[a] = <<>>
            BY <1>3, <1>8, <2>1 DEF RuntimeInv, TypeOK
        <3> QED BY <3>1, <3>2, <3>3
    <2>2. CASE e = "Error"
        <3>1. slot'[a] = OnError(s)
            BY <1>3, <1>7, <2>2 DEF RuntimeInv, TypeOK
        <3>2. OnError(s).pid = NoThread
            BY <1>4, <1>5, ErrorSlot
        <3>3. recv'[a] = NoThread /\ chan'[a] = <<>>
            BY <1>3, <1>8, <2>2 DEF RuntimeInv, TypeOK
        <3> QED BY <3>1, <3>2, <3>3
    <2>3. CASE e = "Pid"
        <3>1. recv[a] # NoThread
            BY <1>2, <2>3 DEF PidInv, PidAppliedFirst
        <3>2. recv' = recv /\ chan' = chan
            BY <1>8, <2>3
        <3> QED BY <3>1, <3>2
    <2>4. CASE e \notin {"Finished", "Error", "Pid"}
        <3>1. slot'[a] = s
            BY <1>3, <1>7, <2>4 DEF RuntimeInv, TypeOK
        <3>2. recv' = recv /\ chan' = chan
            BY <1>8, <2>4
        <3> HIDE DEF s, a
        <3> QED BY <1>5, <3>1, <3>2
    <2> QED BY <2>1, <2>2, <2>3, <2>4
<1> HIDE DEF h, a, e, s
<1>11. HeardThread' /\ SilentAtFirst' /\ PidSentFirst' /\ PidIsHeard'
    BY <1>1, <1>3, <1>9, <1>10
    DEF PidInv, HeardThread, SilentAtFirst, PidSentFirst, PidIsHeard
<1>12. BatchOfTick' /\ PolledOnce'
    BY <1>1, <1>6 DEF PidInv, BatchOfTick, PolledOnce
<1>13. PidAppliedFirst'
    <2> SUFFICES ASSUME NEW i \in DOMAIN batch', batch'[i].event = "Pid"
                 PROVE  /\ recv'[batch'[i].agent] # NoThread
                        /\ \A j \in 1..(i - 1) : batch'[j].agent # batch'[i].agent
        BY DEF PidAppliedFirst
    <2> DEFINE b == batch'[i].agent
    <2>1. i + 1 \in DOMAIN batch /\ batch'[i] = batch[i + 1] /\ i \in Nat /\ i >= 1 /\ (i + 1) - 1 = i
        BY <1>6
    <2>2. recv[b] # NoThread /\ \A j \in 1..i : batch[j].agent # b
        BY <2>1 DEF PidInv, PidAppliedFirst
    <2>3. b \in Agents
        <3>1. batch[i + 1] \in BatchRecords
            BY <1>1, <1>6, <2>1
        <3> QED BY <2>1, <3>1 DEF BatchRecords
    <2>4. b # a
        BY <1>2, <2>1, <2>2 DEF a
    <2>5. \A j \in 1..(i - 1) : batch'[j] = batch[j + 1] /\ j + 1 \in 1..i
        BY <1>6, <2>1
    <2> HIDE DEF b
    <2>6. recv'[b] # NoThread /\ \A j \in 1..(i - 1) : batch'[j].agent # b
        BY <1>9, <2>2, <2>3, <2>4, <2>5
    <2> QED BY <2>6 DEF b
<1> QED BY <1>11, <1>12, <1>13 DEF PidInv

\* A disconnected channel leaves with the pid of its agent.
LEMMA DropPid ==
    ASSUME RuntimeInv, PidInv, NEW a \in Agents, DropChannel(a)
    PROVE  PidInv'
<1>1. slot[a] \in SlotType /\ slot[a].status.kind \in Kinds
    BY DEF RuntimeInv, TypeOK, Reached
<1>2. OnFinished(slot[a]).pid = NoThread
    BY <1>1, FinishedSlot
<1>3. /\ slot'[a].pid = NoThread /\ recv'[a] = NoThread /\ chan'[a] = <<>>
      /\ \A b \in Agents \ {a} : slot'[b] = slot[b] /\ recv'[b] = recv[b] /\ chan'[b] = chan[b]
      /\ batch = <<>> /\ UNCHANGED <<thread, phase, toPoll, batch>>
    BY <1>2 DEF DropChannel, RuntimeInv, TypeOK
<1>4. DOMAIN batch = {} /\ DOMAIN batch' = {}
    BY <1>3
<1>5. HeardThread' /\ SilentAtFirst' /\ PidSentFirst' /\ PidIsHeard'
    BY <1>3 DEF PidInv, HeardThread, SilentAtFirst, PidSentFirst, PidIsHeard
<1>6. BatchOfTick' /\ PolledOnce' /\ PidAppliedFirst'
    BY <1>3, <1>4 DEF BatchOfTick, PolledOnce, PidAppliedFirst
<1> QED BY <1>5, <1>6 DEF PidInv

LEMMA NextPid ==
    ASSUME RuntimeInv, PidInv, [Next]_vars
    PROVE  PidInv'
<1>0. \A a \in Agents : slot[a] \in SlotType
    BY DEF RuntimeInv, TypeOK
<1>1. CASE SessionStep
    <2>1. ASSUME NEW a \in Agents, SendInput(a) PROVE PidInv'
        BY <2>1, StartPid DEF SendInput
    <2>2. ASSUME NEW a \in Agents, StopAgent(a) PROVE PidInv'
        <3> DEFINE stopped == Tagged("Stopped", "user requested")
        <3>1. stopped \in Statuses
            BY TargetsTyped DEF Targets
        <3>2. /\ slot' = [slot EXCEPT ![a] = TransitionTo(slot[a], stopped)]
              /\ UNCHANGED <<recv, thread, chan, tickVars>>
            BY <2>2 DEF StopAgent
        <3> HIDE DEF stopped
        <3>3. TransitionTo(slot[a], stopped).pid = slot[a].pid
            BY <1>0, <3>1, TransitionTyped
        <3> QED BY <3>2, <3>3, StatusPid
    <2>3. CASE TerminateAll
        <3>1. /\ DOMAIN thread' = DOMAIN thread
              /\ \A t \in DOMAIN thread :
                    thread'[t].agent = thread[t].agent /\ thread'[t].at = thread[t].at
            <4>0. thread \in Seq(ThreadRecords)
                BY DEF RuntimeInv, TypeOK, ThreadRecords
            <4>1. \A t \in DOMAIN thread : thread[t] \in ThreadRecords
                BY <4>0
            <4>2. \A t \in DOMAIN thread :
                    thread'[t] \in {thread[t], [thread[t] EXCEPT !.alive = FALSE]}
                BY <2>3 DEF TerminateAll
            <4>3. DOMAIN thread' = DOMAIN thread
                BY <2>3 DEF TerminateAll
            <4> QED BY <4>1, <4>2, <4>3 DEF ThreadRecords
        <3>2. UNCHANGED <<slot, recv, chan, phase, toPoll, batch, lost>>
            BY <2>3 DEF TerminateAll, sessionVars, tickVars
        <3> QED BY <3>1, <3>2
            DEF PidInv, HeardThread, SilentAtFirst, PidSentFirst, BatchOfTick, PolledOnce,
                PidAppliedFirst, PidIsHeard
    <2> QED BY <1>1, <2>1, <2>2, <2>3 DEF SessionStep
<1>2. CASE DecisionStep
    <2>1. ASSUME NEW a \in Agents, NEW unblock \in BOOLEAN, DecisionInstructs(a, unblock)
          PROVE  PidInv'
        BY <2>1, StartPid DEF DecisionInstructs
    <2>2. ASSUME NEW a \in Agents, DecisionUnblocks(a) PROVE PidInv'
        <3>1. Idle \in Statuses
            BY TargetsTyped DEF Targets
        <3>2. Unblocked(slot[a]).pid = slot[a].pid
            BY <1>0, <3>1, TransitionTyped DEF Unblocked
        <3>3. slot' = [slot EXCEPT ![a] = Unblocked(slot[a])]
              /\ UNCHANGED <<recv, thread, chan, tickVars>>
            BY <2>2 DEF DecisionUnblocks
        <3> QED BY <3>2, <3>3, StatusPid
    <2>3. ASSUME NEW a \in Agents, NEW reason \in DecisionReasons, DecisionStops(a, reason)
          PROVE  PidInv'
        <3> DEFINE stopped == Tagged("Stopped", reason)
        <3>1. stopped \in Statuses
            BY TargetsTyped DEF Targets
        <3>2. /\ slot' = [slot EXCEPT ![a] = TransitionTo(slot[a], stopped)]
              /\ UNCHANGED <<recv, thread, chan, tickVars>>
            BY <2>3 DEF DecisionStops
        <3> HIDE DEF stopped
        <3>3. TransitionTo(slot[a], stopped).pid = slot[a].pid
            BY <1>0, <3>1, TransitionTyped
        <3> QED BY <3>2, <3>3, StatusPid
    <2> QED BY <1>2, <2>1, <2>2, <2>3 DEF DecisionStep
<1>3. CASE LoopStep
    <2>1. CASE TickStarts
        <3>1. batch = <<>> /\ DOMAIN batch = {} /\ UNCHANGED <<slot, recv, thread, chan, batch>>
              /\ phase' = "poll"
            BY <2>1 DEF TickStarts, PidInv, BatchOfTick, sessionVars
        <3> QED BY <3>1 DEF PidInv, HeardThread, SilentAtFirst, PidSentFirst, BatchOfTick, PolledOnce,
                            PidAppliedFirst, PidIsHeard
    <2>2. CASE PollEnds \/ ApplyEnds \/ TickEnds
        <3>1. UNCHANGED <<slot, recv, thread, chan, toPoll, batch>>
              /\ (phase' \in {"free", "decide"} => batch = <<>>)
            BY <2>2 DEF PollEnds, ApplyEnds, TickEnds, PidInv, BatchOfTick, sessionVars
        <3> QED BY <3>1 DEF PidInv, HeardThread, SilentAtFirst, PidSentFirst, BatchOfTick, PolledOnce,
                            PidAppliedFirst, PidIsHeard
    <2>3. CASE ApplyEvent
        BY <2>3, ApplyPid
    <2>4. ASSUME NEW a \in Agents, PollChannel(a) \/ DropChannel(a) PROVE PidInv'
        BY <2>4, PollPid, DropPid
    <2> QED BY <1>3, <2>1, <2>2, <2>3, <2>4 DEF LoopStep
<1>4. CASE \E t \in DOMAIN thread : ThreadStep(t)
    BY <1>4, ThreadStepPid
<1>5. CASE UNCHANGED vars
    BY <1>5 DEF vars, PidInv, HeardThread, SilentAtFirst, PidSentFirst, BatchOfTick, PolledOnce,
                PidAppliedFirst, PidIsHeard
<1> QED BY <1>1, <1>2, <1>3, <1>4, <1>5 DEF Next

\* However many agents and provider threads there are, and however their events
\* interleave with stops, restarts and ticks, a recorded pid belongs to an agent
\* whose channel is still open, so the end of the thread will clear it.
THEOREM PidsAreHeard == Spec => []PidIsHeard
<1>1. Init => PidInv
    BY DEF Init, NewSlot, PidInv, HeardThread, SilentAtFirst, PidSentFirst, BatchOfTick,
           PolledOnce, PidAppliedFirst, PidIsHeard
<1>2. (RuntimeInv /\ PidInv) /\ [Next]_vars => (RuntimeInv /\ PidInv)'
    BY NextInv, NextPid
<1>3. PidInv => PidIsHeard
    BY DEF PidInv
<1> QED BY <1>1, <1>2, <1>3, InitInv, PTL DEF Spec
=============================================================================
