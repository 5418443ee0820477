---------------------------- MODULE TaskRegistry ----------------------------
(* The registry of decision tasks and its file store: active tasks in        *)
(* memory, one file each under tasks/, and the ended ones under completed/.  *)
(* Every call changes the memory first and the disk second, and the disk may *)
(* refuse; a write that is cut short, by the end of the process or by a full *)
(* disk, leaves half a file, which the next start skips without a word.  Of  *)
(* a task only the status is kept.                                           *)
EXTENDS Naturals, DecisionTaskStatus

CONSTANTS
    RegTasks,         \* ids of tasks
    MaxStoreErrors,   \* bound: how often the store refuses
    MaxStoreCrashes   \* bound: how often the process dies

ASSUME StoreBoundsAssumption == MaxStoreErrors \in Nat /\ MaxStoreCrashes \in Nat

VARIABLES
    regActive,   \* active_tasks: status of each task, or "none"
    regDone,     \* ids in completed_tasks
    taskFile,    \* tasks/<id>.json: a status, "none" or "half"
    doneFile,    \* completed/<id>.json, likewise
    made,        \* ids given out by create
    ended,       \* tasks whose completion or cancellation was reported as done
    regUp,       \* whether the process runs
    storeErrors, storeCrashes

regVars == <<regActive, regDone, taskFile, doneFile, made, ended, regUp, storeErrors, storeCrashes>>

\* Statuses an update may write; update does not ask whether a transition is valid.
Written == {"InProgress", "Reflecting", "PendingConfirmation"}

-----------------------------------------------------------------------------
(* The store.  Each call succeeds, fails without an effect, fails half-way,  *)
(* or is cut short by the end of the process.                                *)
Fine == UNCHANGED <<regUp, storeErrors, storeCrashes>>
Fails ==
    /\ storeErrors < MaxStoreErrors
    /\ storeErrors' = storeErrors + 1
    /\ UNCHANGED <<regUp, storeCrashes>>
Refused == Fails /\ UNCHANGED <<taskFile, doneFile>>
CutShort ==
    /\ storeCrashes < MaxStoreCrashes
    /\ storeCrashes' = storeCrashes + 1
    /\ regUp' = FALSE
    /\ UNCHANGED storeErrors

\* FileTaskStore::save.
SaveFile(t, s) ==
    /\ UNCHANGED doneFile
    /\ \/ taskFile' = [taskFile EXCEPT ![t] = s] /\ Fine
       \/ taskFile' = [taskFile EXCEPT ![t] = "half"] /\ (Fails \/ CutShort)

\* Mutant of MoveToCompleted: the file is copied.
MoveToCompletedCopies(t, s) ==
    /\ doneFile' = [doneFile EXCEPT ![t] = s]
    /\ UNCHANGED taskFile
    /\ Fine
\* FileTaskStore::move_to_completed: a rename when there is a file, which
\* keeps the status it was last saved with, else a write.
MoveToCompleted(t, s) ==
    \/ /\ taskFile[t] # "none"
       /\ doneFile' = [doneFile EXCEPT ![t] = taskFile[t]]
       /\ taskFile' = [taskFile EXCEPT ![t] = "none"]
       /\ Fine
    \/ /\ taskFile[t] = "none"
       /\ UNCHANGED taskFile
       /\ \/ doneFile' = [doneFile EXCEPT ![t] = s] /\ Fine
          \/ doneFile' = [doneFile EXCEPT ![t] = "half"] /\ (Fails \/ CutShort)

-----------------------------------------------------------------------------
(* The registry.                                                             *)
CreateTask(t) ==
    /\ regUp
    /\ t \notin made
    /\ made' = made \cup {t}
    /\ regActive' = [regActive EXCEPT ![t] = "Pending"]
    /\ SaveFile(t, "Pending") \/ Refused
    /\ UNCHANGED <<regDone, ended>>

UpdateTask(t, s) ==
    /\ regUp
    /\ regActive[t] # "none"
    /\ regActive' = [regActive EXCEPT ![t] = s]
    /\ SaveFile(t, s) \/ Refused
    /\ UNCHANGED <<regDone, made, ended>>

\* The end of complete and cancel: the task leaves the active ones, and the
\* caller is told Ok only once the store has moved it.
Leave(t, s) ==
    /\ regActive' = [regActive EXCEPT ![t] = "none"]
    /\ regDone' = regDone \cup {t}
    /\ \/ MoveToCompleted(t, s) /\ ended' = IF Fine THEN ended \cup {t} ELSE ended
       \/ Refused /\ UNCHANGED ended
    /\ UNCHANGED made

\* A task whose status does not allow it is dropped from the active ones and
\* the error reported; its file stays.
CompleteActive(t) ==
    /\ regUp
    /\ regActive[t] # "none"
    /\ \/ Valid(regActive[t], "Completed") /\ Leave(t, "Completed")
       \/ /\ ~Valid(regActive[t], "Completed")
          /\ regActive' = [regActive EXCEPT ![t] = "none"]
          /\ Fine
          /\ UNCHANGED <<regDone, taskFile, doneFile, made, ended>>

\* Every active task can be cancelled.
CancelTask(t) ==
    /\ regUp
    /\ regActive[t] # "none"
    /\ Valid(regActive[t], "Cancelled")
    /\ Leave(t, "Cancelled")

\* The process ends between two calls.
Stops ==
    /\ regUp
    /\ CutShort
    /\ UNCHANGED <<regActive, regDone, taskFile, doneFile, made, ended>>

Readable(f, t) == f[t] \notin {"none", "half"}

\* A new registry: load, then recover, which pauses the tasks that were being
\* worked on and saves them all; or some, when the store refuses or the
\* process dies again.
LoadAndRecover ==
    LET found == [t \in RegTasks |-> IF Readable(taskFile, t) THEN RecoveredStatus(taskFile[t]) ELSE "none"]
        loaded == {t \in RegTasks : found[t] # "none"}
        Saved(tasks) == [t \in RegTasks |-> IF t \in tasks THEN found[t] ELSE taskFile[t]]
    IN  /\ ~regUp
        /\ regActive' = found
        /\ regDone' = {t \in RegTasks : Readable(doneFile, t)}
        /\ \/ /\ taskFile' = Saved(loaded)
              /\ regUp' = TRUE
              /\ UNCHANGED <<storeErrors, storeCrashes>>
           \/ \E t \in loaded : \E tasks \in SUBSET (loaded \ {t}) :
                 /\ storeErrors < MaxStoreErrors
                 /\ storeErrors' = storeErrors + 1
                 /\ taskFile' \in {Saved(tasks), [Saved(tasks) EXCEPT ![t] = "half"]}
                 /\ regUp' = TRUE
                 /\ UNCHANGED storeCrashes
           \/ \E t \in loaded : \E tasks \in SUBSET (loaded \ {t}) :
                 /\ taskFile' = [Saved(tasks) EXCEPT ![t] = "half"]
                 /\ CutShort
        /\ UNCHANGED <<doneFile, made, ended>>

RegInit ==
    /\ regActive = [t \in RegTasks |-> "none"]
    /\ regDone = {}
    /\ taskFile = [t \in RegTasks |-> "none"]
    /\ doneFile = [t \in RegTasks |-> "none"]
    /\ made = {}
    /\ ended = {}
    /\ regUp = TRUE
    /\ storeErrors = 0
    /\ storeCrashes = 0

RegNext ==
    \/ \E t \in RegTasks :
          \/ CreateTask(t)
          \/ \E s \in Written : UpdateTask(t, s)
          \/ CompleteActive(t)
          \/ CancelTask(t)
    \/ Stops
    \/ LoadAndRecover

RegSpec == RegInit /\ [][RegNext]_regVars

-----------------------------------------------------------------------------
(* Properties.                                                               *)
\* A task whose completion or cancellation was reported as done stays ended:
\* no refused write, crash, load or recovery brings it back among the active
\* tasks, because its file was moved and nothing writes a new one.  And a task
\* never has two files, from which the next start would make two tasks.
EndedStaysEnded ==
    /\ \A t \in ended : regActive[t] = "none" /\ doneFile[t] # "none"
    /\ \A t \in RegTasks : taskFile[t] = "none" \/ doneFile[t] = "none"
=============================================================================
