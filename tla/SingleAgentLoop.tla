--------------------------- MODULE SingleAgentLoop ---------------------------
(* The headless loop of a single agent: it takes the todos in order, makes a *)
(* task of each, runs turns of the provider until the task is resolved, and  *)
(* stops at its guardrails.  The agent's own files (metadata, state,         *)
(* transcript) are written when the agent's status or its provider session   *)
(* changes; the backlog and the session file only when the run is over.  A   *)
(* later run may resume from these files, whatever they have got to.         *)
(*                                                                           *)
(* A summary is the last non-empty text of the assistant in the transcript:  *)
(* "open" when it is blank or names remaining work, else "final".  Titles    *)
(* and verification plans are never empty, so judge_completion finds every   *)
(* final summary ready for verification.  A run that ends with an error (a   *)
(* file could not be written) saves as little as one that dies.  The         *)
(* metadata file is never half-written here.                                 *)
EXTENDS Naturals, Sequences

CONSTANTS
    NumTodos,          \* todos of the backlog, in the order of their priority
    MaxIterations,     \* max_iterations
    MaxContinuations,  \* max_continuations_per_task
    MaxRuns,           \* bound: runs started
    MaxLoopCrashes     \* bound: runs that die

ASSUME LoopAssumption ==
    /\ NumTodos \in Nat /\ MaxIterations \in Nat /\ MaxContinuations \in Nat
    /\ MaxRuns \in Nat /\ MaxLoopCrashes \in Nat

VARIABLES
    pc,          \* where the run is; "down" when there is none
    todos,       \* status of each todo
    items,       \* tasks of the backlog: [todo, status]; the id is the position
    agent,       \* [active, hadError, attempts, phase] of the application state
    summary,     \* active_task_summary
    iterations,  \* iterations of the run
    source,      \* history: the file the run has its backlog from; "mixed" once a
                 \* run has put the state of a fallen-back run on another backlog
    metaFile,    \* status in the metadata of the agent, also of the one in memory
    stateFile,   \* the agent state
    stateSource, \* history: the source of the run that wrote it
    textFile,    \* the summary of the saved transcript
    backlogFile, \* [todos, items]
    sessionFile, \* [todos, items, phase, summary]
    runs,        \* how many runs have been started
    crashes      \* how many of them died

memory == <<todos, items, agent, summary>>
files == <<metaFile, stateFile, stateSource, textFile, backlogFile, sessionFile>>
loopVars == <<pc, memory, iterations, source, files, runs, crashes>>

Torn == [torn |-> TRUE]    \* a file that cannot be parsed, or is not there
Parses(file) == file # Torn
Todos == 1..NumTodos
FreshAgent == [active |-> 0, hadError |-> FALSE, attempts |-> 0, phase |-> "Idle"]

-----------------------------------------------------------------------------
(* Files.                                                                    *)
\* agent_status_from_app; the turn is over or the phase is not Idle.
StatusOf(phase) == IF phase = "Idle" THEN "Idle" ELSE "Running"

Dies ==
    /\ crashes < MaxLoopCrashes
    /\ crashes' = crashes + 1
    /\ pc' = "down"

\* The state, and whose it is.
WriteState ==
    /\ stateFile' = agent'
    /\ stateSource' = source'

\* persist_agent_runtime_bundle: metadata, state, transcript, one by one.
Bundle(status, next) ==
    \/ /\ metaFile' = status
       /\ WriteState
       /\ textFile' = summary'
       /\ pc' = next
       /\ UNCHANGED crashes
    \/ /\ Dies
       /\ UNCHANGED textFile
       /\ \/ UNCHANGED <<metaFile, stateFile, stateSource>>
          \/ /\ metaFile' = status
             /\ \/ UNCHANGED <<stateFile, stateSource>>
                \/ stateFile' = Torn /\ UNCHANGED stateSource
                \/ WriteState

\* The hook of the loop: sync_from_app_state, then the bundle if the status
\* or the session of the provider changed.
Hook(sessionChanged, next) ==
    IF sessionChanged \/ metaFile # StatusOf(agent'.phase)
    THEN Bundle(StatusOf(agent'.phase), next)
    ELSE /\ pc' = next
         /\ UNCHANGED <<metaFile, stateFile, stateSource, textFile, crashes>>

Keep == UNCHANGED <<source, backlogFile, sessionFile, runs>>

-----------------------------------------------------------------------------
(* A run.                                                                    *)
\* run_loop_headless_single_agent up to the loop.  With resume the state of
\* the agent is restored on top of the backlog file; if that fails, backlog
\* and state are those of the recent session; if that fails too, nothing is.
Start(resume) ==
    /\ pc = "down"
    /\ runs < MaxRuns
    /\ Parses(backlogFile)
    /\ runs' = runs + 1
    /\ iterations' = 0
    /\ LET fromState == resume /\ Parses(stateFile)
           fromSession == resume /\ ~Parses(stateFile) /\ Parses(sessionFile)
           backlog == IF fromSession THEN sessionFile ELSE backlogFile
       IN  /\ source' = IF source = "mixed" \/ (fromState /\ stateSource = "session")
                        THEN "mixed" ELSE IF fromSession THEN "session" ELSE "backlog"
           /\ todos' = backlog.todos
           /\ items' = backlog.items
           /\ agent' = IF fromState THEN stateFile
                       ELSE IF fromSession THEN [FreshAgent EXCEPT !.phase = sessionFile.phase]
                       ELSE FreshAgent
           /\ summary' = IF fromState THEN textFile
                         ELSE IF fromSession THEN sessionFile.summary ELSE "none"
    /\ \E changed \in BOOLEAN :
          /\ changed => resume /\ ~Parses(stateFile) /\ Parses(sessionFile)
          /\ Hook(changed, "top")
    /\ UNCHANGED <<backlogFile, sessionFile>>

HasActiveTask == agent.active \in DOMAIN items

\* The top of the loop: stop, resume the active task, or begin the next one.
Stop(phase) ==
    /\ agent' = [agent EXCEPT !.phase = phase]
    /\ pc' = "save"
    /\ UNCHANGED <<todos, items, summary, iterations, metaFile, stateFile, stateSource,
                   textFile, crashes>>
    /\ Keep
ReachMaxIterations ==
    /\ pc = "top"
    /\ iterations >= MaxIterations
    /\ Stop("Escalating")
NoReadyTodo ==
    /\ pc = "top"
    /\ iterations < MaxIterations
    /\ ~HasActiveTask
    /\ \A t \in Todos : todos[t] # "Ready"
    /\ Stop("Idle")
ResumeTask ==
    /\ pc = "top"
    /\ iterations < MaxIterations
    /\ HasActiveTask
    /\ pc' = "turn"
    /\ UNCHANGED <<memory, iterations, files, crashes, source, runs>>

\* begin_task_from_todo.
BeginTask(t) ==
    /\ pc = "top"
    /\ iterations < MaxIterations
    /\ ~HasActiveTask
    /\ todos[t] = "Ready"
    /\ \A u \in Todos : u < t => todos[u] # "Ready"
    /\ todos' = [todos EXCEPT ![t] = "InProgress"]
    /\ items' = Append(items, [todo |-> t, status |-> "Ready"])
    /\ agent' = [FreshAgent EXCEPT !.active = Len(items) + 1, !.phase = "Planning"]
    /\ UNCHANGED <<summary, iterations>>
    /\ Keep
    /\ Hook(FALSE, "turn")

\* execute_task_until_resolution: the provider is started, or fails to start.
StartTurn ==
    /\ pc = "turn"
    /\ agent' = [agent EXCEPT !.phase = "Executing"]
    /\ items' = [items EXCEPT ![agent.active].status = "Running"]
    /\ UNCHANGED <<todos, summary, iterations>>
    /\ Keep
    /\ Hook(FALSE, "start provider")

ProviderStarts ==
    /\ pc = "start provider"
    /\ pc' = "events"
    /\ UNCHANGED <<memory, iterations, files, crashes, source, runs>>

\* What becomes of the active task and of its todo.
Resolve(status, todo, phase) ==
    /\ items' = [items EXCEPT ![agent.active].status = status]
    /\ todos' = [todos EXCEPT ![items[agent.active].todo] = todo]
    /\ agent' = [FreshAgent EXCEPT !.phase = phase]
    /\ iterations' = iterations + 1

\* Mutant of CompleteTask: the phase is left as it is.
CompleteTaskKeepsPhase == Resolve("Done", "Done", agent.phase)
\* complete_active_task, fail_active_task, block_active_task (escalated).
CompleteTask == Resolve("Done", "Done", "Idle")
FailTask ==
    Resolve("Failed",
            IF todos[items[agent.active].todo] = "InProgress" THEN "Ready"
            ELSE todos[items[agent.active].todo], "Idle")
EscalateTask == Resolve("Blocked", "Blocked", "Escalating")

ProviderStartFails ==
    /\ pc = "start provider"
    /\ EscalateTask
    /\ UNCHANGED summary
    /\ Keep
    /\ Hook(FALSE, "top")

\* consume_provider_until_finished: an event that matters to the loop.
AssistantChunk(text) ==
    /\ pc = "events"
    /\ summary' = text
    /\ UNCHANGED <<pc, todos, items, agent, iterations, files, crashes, source, runs>>
SessionHandle ==
    /\ pc = "events"
    /\ UNCHANGED <<memory, iterations>>
    /\ Keep
    /\ Hook(TRUE, "events")
\* An expired session clears the transcript the summary is read from.
ErrorEvent(expired) ==
    /\ pc = "events"
    /\ agent' = [agent EXCEPT !.hadError = TRUE]
    /\ summary' = IF expired THEN "none" ELSE summary
    /\ UNCHANGED <<todos, items, iterations>>
    /\ Keep
    /\ Hook(expired, "events")
Finished ==
    /\ pc = "events"
    /\ UNCHANGED <<memory, iterations>>
    /\ Keep
    /\ Hook(FALSE, "resolve")
Disconnected ==
    /\ pc = "events"
    /\ agent' = [agent EXCEPT !.hadError = TRUE]
    /\ UNCHANGED <<todos, items, summary, iterations>>
    /\ Keep
    /\ Hook(FALSE, "resolve")

-----------------------------------------------------------------------------
(* resolve_active_task_after_turn, with what the loop does about it.         *)
AfterTurn(next) ==
    /\ UNCHANGED summary
    /\ Keep
    /\ Hook(FALSE, next)

TurnFailed ==
    /\ pc = "resolve"
    /\ agent.hadError \/ summary = "none"
    /\ FailTask
    /\ AfterTurn("top")

\* Mutant of Continue: the attempt is not counted.
ContinueUncounted ==
    /\ pc = "resolve" /\ ~agent.hadError /\ summary = "open"
    /\ agent.attempts < MaxContinuations
    /\ agent' = [agent EXCEPT !.phase = "Executing"]
    /\ UNCHANGED <<todos, items, iterations>>
    /\ AfterTurn("turn")
Continue ==
    /\ pc = "resolve" /\ ~agent.hadError /\ summary = "open"
    /\ agent.attempts < MaxContinuations
    /\ agent' = [agent EXCEPT !.attempts = @ + 1, !.phase = "Executing"]
    /\ UNCHANGED <<todos, items, iterations>>
    /\ AfterTurn("turn")
ContinuationLimit ==
    /\ pc = "resolve" /\ ~agent.hadError /\ summary = "open"
    /\ agent.attempts >= MaxContinuations
    /\ EscalateTask
    /\ AfterTurn("top")

VerificationPassed ==
    /\ pc = "resolve" /\ ~agent.hadError /\ summary = "final"
    /\ CompleteTask
    /\ AfterTurn("top")
\* max_verification_failures is 1: the first failure ends the run.
VerificationFailed ==
    /\ pc = "resolve" /\ ~agent.hadError /\ summary = "final"
    /\ FailTask
    /\ AfterTurn("stop")
StopAfterFailure ==
    /\ pc = "stop"
    /\ Stop("Escalating")

-----------------------------------------------------------------------------
(* The end of a run: the backlog, the session, then the bundle with the      *)
(* agent marked as stopped.                                                  *)
SaveBacklog ==
    /\ pc = "save"
    /\ \/ /\ backlogFile' = [todos |-> todos, items |-> items]
          /\ pc' = "save session"
          /\ IF source = "session" THEN source' = "backlog" /\ stateSource' = "backlog"
             ELSE UNCHANGED <<source, stateSource>>
          /\ UNCHANGED crashes
       \/ backlogFile' = Torn /\ Dies /\ UNCHANGED <<source, stateSource>>
    /\ UNCHANGED <<memory, iterations, metaFile, stateFile, textFile, sessionFile, runs>>

\* A new file, then the pointer to it: one step for the reader.
SaveSession ==
    /\ pc = "save session"
    /\ sessionFile' = [todos |-> todos, items |-> items, phase |-> agent.phase,
                       summary |-> summary]
    /\ pc' = "save bundle"
    /\ UNCHANGED <<memory, iterations, source, metaFile, stateFile, stateSource, textFile,
                   backlogFile, runs, crashes>>

SaveBundle ==
    /\ pc = "save bundle"
    /\ UNCHANGED <<memory, iterations>>
    /\ Keep
    /\ Bundle("Stopped", "down")

\* The process dies between two writes.
Crash ==
    /\ pc # "down"
    /\ Dies
    /\ UNCHANGED <<memory, iterations, source, files, runs>>

LoopInit ==
    /\ pc = "down"
    /\ todos = [t \in Todos |-> "Ready"]
    /\ items = <<>>
    /\ agent = FreshAgent
    /\ summary = "none"
    /\ iterations = 0
    /\ source = "backlog"
    /\ metaFile = "Idle"
    /\ stateFile = Torn
    /\ stateSource = "backlog"
    /\ textFile = "none"
    /\ backlogFile = [todos |-> todos, items |-> items]
    /\ sessionFile = Torn
    /\ runs = 0
    /\ crashes = 0

\* The steps of a run, without the events a provider may send.
RunStep ==
    \/ ReachMaxIterations \/ NoReadyTodo \/ ResumeTask
    \/ \E t \in Todos : BeginTask(t)
    \/ StartTurn \/ ProviderStarts \/ ProviderStartFails
    \/ TurnFailed \/ Continue \/ ContinuationLimit
    \/ VerificationPassed \/ VerificationFailed \/ StopAfterFailure
    \/ SaveBacklog \/ SaveSession \/ SaveBundle
TurnEnds == Finished \/ Disconnected

LoopNext ==
    \/ \E resume \in BOOLEAN : Start(resume)
    \/ RunStep
    \/ \E text \in {"open", "final"} : AssistantChunk(text)
    \/ SessionHandle
    \/ \E expired \in BOOLEAN : ErrorEvent(expired)
    \/ TurnEnds
    \/ Crash

\* The loop is one thread that runs; a provider's turn ends, if only because
\* its channel is closed.
LoopFairness == WF_loopVars(RunStep) /\ WF_loopVars(TurnEnds)

LoopSpec == LoopInit /\ [][LoopNext]_loopVars /\ LoopFairness

-----------------------------------------------------------------------------
(* Properties.                                                               *)
\* Work that the backlog file holds as done is never taken up again, by the
\* same run or by one that resumes after a crash: whatever the state file says
\* of the active task, it is not a task that is done.  A run that has to fall
\* back on the recent session works from an older backlog and is excepted, and
\* so are the runs after one that resumes the state of such a run on top of
\* the newer backlog file: there the position of the active task can name one
\* that is done.
SavedDoneIsFinal ==
    pc # "down" /\ source = "backlog" /\ Parses(backlogFile) =>
        \A i \in DOMAIN backlogFile.items :
            backlogFile.items[i].status = "Done" =>
                items[i].status = "Done" /\ todos[items[i].todo] = "Done"

\* Every run comes to its end, however its turns go: the guardrails bound the
\* turns of a task and the tasks of a run.
RunEnds == pc # "down" ~> pc = "down"
=============================================================================
