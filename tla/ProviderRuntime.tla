--------------------------- MODULE ProviderRuntime ---------------------------
(***************************************************************************)
(* The daemon's session manager and its provider threads                   *)
(* (agent/daemon/src/session_mgr.rs, core/src/event_aggregator.rs,         *)
(* agent/provider): how a prompt becomes a provider thread, how the        *)
(* thread's events reach the slot and its Worker through the event         *)
(* aggregator, and how the thread ends.                                    *)
(*                                                                         *)
(* The session lock is held for a whole tick, so a tick is a sequence of   *)
(* steps (phase) between which only provider threads run.  Every other     *)
(* operation of the session is one step taken while no tick is under way.  *)
(***************************************************************************)
EXTENDS SlotStatus, Sequences, FiniteSets

CONSTANTS
    Agents,       \* agents of the pool
    Streamed,     \* what a provider says while it streams
    MaxThreads,   \* bound: provider threads started in the life of the daemon
    MaxChan       \* bound: streamed events waiting in one channel

\* Text, a tool call that starts or ends, a note (status texts, session
\* handles, output deltas).
ASSUME RuntimeAssumption ==
    /\ Streamed \subseteq {"Chunk", "Tool", "ToolDone", "Note"}
    /\ MaxThreads \in Nat /\ MaxChan \in Nat

VARIABLES
    slot,     \* [Agents -> [status, worker, rx, handle, pid]]
    recv,     \* [Agents -> thread]: whose channel the aggregator reads
    thread,   \* sequence of [agent, at, alive]: the agent it serves, how far
              \* it is, whether its subprocess lives
    chan,     \* [Agents -> sequence of events in that channel]
    phase,    \* of the tick; "free" between ticks
    toPoll,   \* channels this tick has not polled yet
    batch,    \* events this tick has polled and not applied yet
    lost      \* channels this tick found disconnected

vars == <<slot, recv, thread, chan, phase, toPoll, batch, lost>>
tickVars == <<phase, toPoll, batch, lost>>
sessionVars == <<slot, recv>>

Threads == 1..MaxThreads
NoThread == 0

\* The stages of a provider thread: started; streaming from a subprocess;
\* streaming mock replies; done and about to say so; said so; gone.
Stages == {"started", "process", "mock", "ending", "finished", "gone"}

Events == {"Chunk", "Tool", "ToolDone", "Note", "Pid", "Error", "Finished"}

Idle == Plain("Idle")

\* Why an agent stops; a decision may give a reason that mentions a failure.
DecisionReasons == {"all tasks complete", "failure"}
StopTags == {"user requested"} \cup DecisionReasons

Statuses == [kind : SlotKinds, tag : {"none", "provider error"} \cup StopTags]
SlotType ==
    [status : Statuses, worker : WorkerStates, rx : BOOLEAN, handle : BOOLEAN,
     pid : Threads \cup {NoThread}]

NewSlot ==
    [status |-> Idle, worker |-> "Idle", rx |-> FALSE, handle |-> FALSE,
     pid |-> NoThread]

Init ==
    /\ slot = [a \in Agents |-> NewSlot]
    /\ recv = [a \in Agents |-> NoThread]
    /\ thread = <<>>
    /\ chan = [a \in Agents |-> <<>>]
    /\ phase = "free" /\ toPoll = {} /\ batch = <<>> /\ lost = {}
-----------------------------------------------------------------------------
(* Starting and stopping *)

\* has_provider_thread; no step of the daemon stores an event_rx in the slot.
HasProviderThread(s) == s.rx /\ s.handle

\* set_thread_handle overwrites the status with Starting, and the start-up
\* code moves on to Responding.
SetThreadHandle(s) ==
    TransitionTo([s EXCEPT !.handle = TRUE, !.status = Plain("Starting")],
                 Plain("Responding"))

ClearProviderThread(s) ==
    [s EXCEPT !.rx = FALSE, !.handle = FALSE, !.pid = NoThread]

\* start_provider_for_agent_inner on a slot s: the new channel replaces the
\* one the aggregator had for this agent, which is dropped with its events.
StartProvider(a, s) ==
    /\ ~HasProviderThread(s)
    /\ Len(thread) < MaxThreads
    /\ thread' = Append(thread, [agent |-> a, at |-> "started", alive |-> FALSE])
    /\ slot' = [slot EXCEPT ![a] = SetThreadHandle(s)]
    /\ recv' = [recv EXCEPT ![a] = Len(thread) + 1]
    /\ chan' = [chan EXCEPT ![a] = <<>>]
    /\ UNCHANGED tickVars

SendInput(a) == phase = "free" /\ StartProvider(a, slot[a])

\* stop_agent leaves the thread, its process and its channel alone.
StopAgent(a) ==
    LET stopped == Tagged("Stopped", "user requested")
    IN  /\ phase = "free"
        /\ CanTransition(slot[a].status, stopped)
        /\ slot' = [slot EXCEPT ![a] = TransitionTo(slot[a], stopped)]
        /\ UNCHANGED <<recv, thread, chan, tickVars>>

\* terminate_all_provider_processes: SIGTERM to every pid a slot knows.
TerminateAll ==
    /\ phase = "free"
    /\ \E a \in Agents : slot[a].pid # NoThread
    /\ thread' = [t \in DOMAIN thread |->
                     IF \E a \in Agents : slot[a].pid = t
                     THEN [thread[t] EXCEPT !.alive = FALSE] ELSE thread[t]]
    /\ UNCHANGED <<sessionVars, chan, tickVars>>
-----------------------------------------------------------------------------
(* The provider threads *)

\* A send to a channel whose receiver was dropped is ignored.
Send(t, e) ==
    chan' = IF recv[thread[t].agent] = t
            THEN [chan EXCEPT ![thread[t].agent] = Append(@, e)] ELSE chan

Advance(t, at) ==
    /\ thread' = [thread EXCEPT ![t].at = at]
    /\ UNCHANGED <<sessionVars, tickVars>>

\* The executable is not found: the thread ends without a word.
StartFails(t) ==
    /\ thread[t].at = "started"
    /\ Advance(t, "gone") /\ UNCHANGED chan

\* The process does not start: an error, and Finished.
SpawnFails(t) ==
    /\ thread[t].at = "started"
    /\ Advance(t, "ending") /\ Send(t, "Error")

SpawnProcess(t) ==
    /\ thread[t].at = "started"
    /\ thread' = [thread EXCEPT ![t].at = "process", ![t].alive = TRUE]
    /\ Send(t, "Pid")
    /\ UNCHANGED <<sessionVars, tickVars>>

MockStarts(t) ==
    /\ thread[t].at = "started"
    /\ Advance(t, "mock") /\ Send(t, "Note")

\* The mock provider only streams text, and ends when nobody listens; an
\* error result of claude does not end its process.
Stream(t, e) ==
    /\ Len(chan[thread[t].agent]) < MaxChan
    /\ \/ thread[t].at = "process" /\ e \in Streamed \cup {"Error"}
          /\ Advance(t, "process")
       \/ thread[t].at = "mock" /\ e = "Chunk"
          /\ Advance(t, IF recv[thread[t].agent] = t THEN "mock" ELSE "gone")
    /\ Send(t, e)

ProcessDies(t) ==
    /\ thread[t].alive
    /\ thread' = [thread EXCEPT ![t].alive = FALSE]
    /\ UNCHANGED <<sessionVars, chan, tickVars>>

\* The thread waits for its process; a bad exit status is an error.
SeesExit(t, ok) ==
    /\ thread[t].at = "process" /\ ~thread[t].alive
    /\ Advance(t, "ending")
    /\ IF ok THEN UNCHANGED chan ELSE Send(t, "Error")

\* codex prints a line that cannot be parsed: the thread gives up with an
\* error and leaves the process running.
ReadFails(t) ==
    /\ thread[t].at = "process"
    /\ Advance(t, "ending") /\ Send(t, "Error")

SayFinished(t) ==
    /\ thread[t].at \in {"ending", "mock"}
    /\ Advance(t, "finished") /\ Send(t, "Finished")

ThreadEnds(t) ==
    /\ thread[t].at = "finished"
    /\ Advance(t, "gone") /\ UNCHANGED chan
-----------------------------------------------------------------------------
(* One tick of the event loop *)

TickStarts ==
    /\ phase = "free"
    /\ phase' = "poll"
    /\ toPoll' = {a \in Agents : recv[a] # NoThread}
    /\ UNCHANGED <<sessionVars, thread, chan, batch, lost>>

\* EventAggregator::poll_all drains one channel, and notices that its sender
\* is gone.
PollChannel(a) ==
    LET t == recv[a]
    IN  /\ phase = "poll" /\ a \in toPoll
        /\ toPoll' = toPoll \ {a}
        /\ batch' = batch \o [i \in 1..Len(chan[a]) |->
                                 [agent |-> a, thread |-> t, event |-> chan[a][i]]]
        /\ chan' = [chan EXCEPT ![a] = <<>>]
        /\ lost' = IF thread[t].at = "gone" THEN lost \cup {a} ELSE lost
        /\ UNCHANGED <<sessionVars, thread, phase>>

PollEnds ==
    /\ phase = "poll" /\ toPoll = {}
    /\ phase' = "apply"
    /\ UNCHANGED <<sessionVars, thread, chan, toPoll, batch, lost>>

\* Worker::apply: a transition the Worker refuses leaves its state alone.
WorkerApply(w, e) ==
    CASE e = "Finished" -> WorkerMove(w, "Completed")
      [] e = "Error" -> WorkerMove(w, "Failed")
      [] e \in {"Chunk", "ToolDone"} -> WorkerMove(w, "Responding")
      [] e = "Tool" -> WorkerMove(w, "ProcessingTool")
      [] OTHER -> w

\* What phase 1 does to the slot before it looks at the event: a waiting
\* slot responds again, and the Worker gets its copy of the event.
Touched(s, e) ==
    LET r == IF IsWaiting(s.status) THEN TransitionTo(s, Plain("Responding")) ELSE s
    IN  [r EXCEPT !.worker = WorkerApply(r.worker, e)]

\* Mutant of OnFinished: the end of a thread makes every slot idle.
OnFinishedAlways(s) == ClearProviderThread(TransitionTo(s, Idle))

\* Mutant of OnFinished: the slot keeps its status.
OnFinishedKeepsStatus(s) == ClearProviderThread(s)

OnFinished(s) ==
    ClearProviderThread(IF IsActive(s.status) THEN TransitionTo(s, Idle) ELSE s)

\* Mutant of OnError: the event is stored where its message belongs.
OnErrorUntyped(s) == ClearProviderThread(TransitionTo(s, Tagged("Blocked", "Error")))

\* Mutant of OnError: the pid of the subprocess is kept.
OnErrorKeepsPid(s) == TransitionTo(s, Tagged("Blocked", "provider error"))

OnError(s) ==
    ClearProviderThread(TransitionTo(s, Tagged("Blocked", "provider error")))

\* One event of the batch is applied; Finished and Error also drop the
\* channel of the agent, and what the thread has sent since the poll.
ApplyEvent ==
    LET a == Head(batch).agent
        e == Head(batch).event
        s == Touched(slot[a], e)
    IN  /\ phase = "apply" /\ batch # <<>>
        /\ batch' = Tail(batch)
        /\ slot' = [slot EXCEPT ![a] =
                       CASE e = "Finished" -> OnFinished(s)
                         [] e = "Error" -> OnError(s)
                         [] e = "Pid" -> [s EXCEPT !.pid = Head(batch).thread]
                         [] OTHER -> s]
        /\ recv' = IF e \in {"Finished", "Error"}
                   THEN [recv EXCEPT ![a] = NoThread] ELSE recv
        /\ chan' = IF e \in {"Finished", "Error"}
                   THEN [chan EXCEPT ![a] = <<>>] ELSE chan
        /\ UNCHANGED <<thread, phase, toPoll, lost>>

\* Mutant of DropChannel: a disconnected channel is only forgotten.
DropChannelOnly(a) ==
    /\ phase = "apply" /\ batch = <<>> /\ a \in lost
    /\ lost' = lost \ {a}
    /\ UNCHANGED <<slot, recv, thread, chan, phase, toPoll, batch>>

\* Clean-up of a disconnected channel: a thread may end without Finished.
DropChannel(a) ==
    /\ phase = "apply" /\ batch = <<>> /\ a \in lost
    /\ lost' = lost \ {a}
    /\ slot' = [slot EXCEPT ![a] = OnFinished(@)]
    /\ recv' = [recv EXCEPT ![a] = NoThread]
    /\ chan' = [chan EXCEPT ![a] = <<>>]
    /\ UNCHANGED <<thread, phase, toPoll, batch>>

ApplyEnds ==
    /\ phase = "apply" /\ batch = <<>> /\ lost = {}
    /\ phase' = "decide"
    /\ UNCHANGED <<sessionVars, thread, chan, toPoll, batch, lost>>

\* Phase 3.  An output of the decision agent is executed when the agent is
\* blocked, idle or waiting.
Decidable(s) == IsBlocked(s) \/ IsIdle(s) \/ IsWaiting(s)
Unblocked(s) == IF IsBlocked(s.status) THEN TransitionTo(s, Idle) ELSE s

\* custom_instruction (unblock FALSE), reflect and retry (unblock TRUE): the
\* slot is still in a state that may start a provider.
DecisionInstructs(a, unblock) ==
    /\ phase = "decide" /\ Decidable(slot[a].status)
    /\ StartProvider(a, IF unblock THEN Unblocked(slot[a]) ELSE slot[a])

\* confirm_completion.
DecisionUnblocks(a) ==
    /\ phase = "decide" /\ IsBlocked(slot[a].status)
    /\ slot' = [slot EXCEPT ![a] = Unblocked(@)]
    /\ UNCHANGED <<recv, thread, chan, tickVars>>

\* stop_if_complete among other actions.
DecisionStops(a, reason) ==
    LET stopped == Tagged("Stopped", reason)
    IN  /\ phase = "decide" /\ Decidable(slot[a].status)
        /\ CanTransition(slot[a].status, stopped)
        /\ slot' = [slot EXCEPT ![a] = TransitionTo(@, stopped)]
        /\ UNCHANGED <<recv, thread, chan, tickVars>>

TickEnds ==
    /\ phase = "decide"
    /\ phase' = "free"
    /\ UNCHANGED <<sessionVars, thread, chan, toPoll, batch, lost>>
-----------------------------------------------------------------------------
SessionStep ==
    \/ \E a \in Agents : SendInput(a) \/ StopAgent(a)
    \/ TerminateAll

ThreadStep(t) ==
    \/ StartFails(t) \/ SpawnFails(t) \/ SpawnProcess(t) \/ MockStarts(t)
    \/ \E e \in Events : Stream(t, e)
    \/ ProcessDies(t) \/ ReadFails(t)
    \/ \E ok \in BOOLEAN : SeesExit(t, ok)
    \/ SayFinished(t) \/ ThreadEnds(t)

DecisionStep ==
    \E a \in Agents :
        \/ \E unblock \in BOOLEAN : DecisionInstructs(a, unblock)
        \/ DecisionUnblocks(a)
        \/ \E reason \in DecisionReasons : DecisionStops(a, reason)

LoopStep ==
    \/ TickStarts \/ PollEnds \/ ApplyEvent \/ ApplyEnds \/ TickEnds
    \/ \E a \in Agents : PollChannel(a) \/ DropChannel(a)

Next == SessionStep \/ DecisionStep \/ LoopStep \/ \E t \in DOMAIN thread : ThreadStep(t)

\* A thread always gets further: a process that was started exits, and a mock
\* reply is finite.
ThreadProgress(t) ==
    \/ StartFails(t) \/ SpawnFails(t) \/ SpawnProcess(t) \/ MockStarts(t)
    \/ ProcessDies(t) \/ ReadFails(t)
    \/ \E ok \in BOOLEAN : SeesExit(t, ok)
    \/ SayFinished(t) \/ ThreadEnds(t)

\* The loop ticks every 100 ms for as long as the daemon lives.
Fairness ==
    /\ WF_vars(LoopStep)
    /\ \A t \in Threads : WF_vars(t \in DOMAIN thread /\ ThreadProgress(t))

Spec == Init /\ [][Next]_vars
FairSpec == Spec /\ Fairness
-----------------------------------------------------------------------------
(* Properties *)

\* Every variable keeps its type.
TypeOK ==
    /\ slot \in [Agents -> SlotType]
    /\ recv \in [Agents -> Threads \cup {NoThread}]
    /\ thread \in Seq([agent : Agents, at : Stages, alive : BOOLEAN])
    /\ Len(thread) <= MaxThreads
    /\ chan \in [Agents -> Seq(Events)]
    /\ phase \in {"free", "poll", "apply", "decide"}
    /\ toPoll \subseteq Agents /\ lost \subseteq Agents
    /\ batch \in Seq([agent : Agents, thread : Threads, event : Events])

\* An agent that is shown as working has a channel that the loop listens to:
\* no order of late events, errors, disconnections, stops and restarts leaves
\* it working with nobody to tell that it has ended (phase_1_poll_provider_events,
\* start_provider_for_agent_inner).
ActiveIsHeard ==
    \A a \in Agents : IsActive(slot[a].status) => recv[a] # NoThread

\* A recorded pid belongs to an agent whose channel is still open: it will be
\* forgotten when the thread ends, so that a later SIGTERM does not go to a
\* process that took over the number (clear_provider_thread).
PidIsHeard ==
    \A a \in Agents : slot[a].pid # NoThread => recv[a] # NoThread

\* What a thread says after its agent was stopped or failed does not change
\* the status of the agent: the Finished that follows every Error, and the
\* disconnection that follows every Finished, leave the error to be seen.
LateEventsKeepStatus ==
    [][\A a \in Agents :
          /\ slot[a].status.kind \in {"Stopped", "Blocked"}
          /\ ApplyEvent \/ DropChannel(a)
          => slot'[a].status.kind = slot[a].status.kind]_vars

\* A working agent does not work for ever: it becomes idle, blocked or stopped
\* once its provider ends, however the provider ends.
BusyEnds ==
    \A a \in Agents : IsActive(slot[a].status) ~> ~IsActive(slot[a].status)

\* send_input rejects when the agent is already busy: an agent never has two
\* provider threads that stream at the same time.
OneThreadPerAgent ==
    \A t, u \in DOMAIN thread :
        /\ thread[t].at \in {"process", "mock"}
        /\ thread[u].at \in {"process", "mock"}
        /\ thread[t].agent = thread[u].agent
        => t = u
=============================================================================
