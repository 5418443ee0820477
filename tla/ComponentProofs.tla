-------------------------- MODULE ComponentProofs ---------------------------
(* Proofs about the task decision engine (TaskWorkflow), the registry of its *)
(* tasks (TaskRegistry), the worktrees of the agents (Worktrees), their mail *)
(* (AgentMail) and the headless loop of a single agent (SingleAgentLoop).    *)
EXTENDS TaskWorkflow, TaskRegistry, Worktrees, AgentMail, SingleAgentLoop, HumanQueueLemmas

-----------------------------------------------------------------------------
(* The rounds of reflection.  The bound of RoundsCapped is on a history that *)
(* the process does not keep: what it keeps is the count, in memory and in   *)
(* the file.  The file may be behind, by as many rounds as were asked for    *)
(* since it was last written; each of these is paid for by the save that was *)
(* refused or cut short.                                                     *)
Bound == MaxReflectionRounds + feedback
Counts ==
    /\ rounds \in Nat /\ granted \in Nat /\ feedback \in Nat
    /\ refused \in Nat /\ deaths \in Nat
    /\ wup \in BOOLEAN
    /\ recorded = [status |-> recorded.status, rounds |-> recorded.rounds]
    /\ recorded.rounds \in Nat
    /\ rounds <= Bound
    /\ recorded.rounds <= Bound

Paid ==
    /\ granted <= rounds + refused + deaths
    /\ recorded # HalfFile => granted <= recorded.rounds + refused + deaths

RoundsInv == Counts /\ Paid

\* A decision that asks for at most one round, and the write of the task.
LEMMA PersistKeepsRounds ==
    ASSUME RoundsInv, Persist,
           \/ rounds' = rounds /\ granted' = granted
           \/ rounds' = rounds + 1 /\ granted' = granted + 1,
           feedback' \in Nat, feedback <= feedback',
           rounds' <= MaxReflectionRounds + feedback'
    PROVE  RoundsInv'
  <1>1. /\ rounds \in Nat /\ granted \in Nat /\ deaths \in Nat /\ refused \in Nat
        /\ feedback \in Nat /\ recorded.rounds \in Nat
        /\ rounds <= MaxReflectionRounds + feedback
        /\ recorded.rounds <= MaxReflectionRounds + feedback
        /\ granted <= rounds + refused + deaths
        /\ recorded # HalfFile => granted <= recorded.rounds + refused + deaths
        /\ recorded = [status |-> recorded.status, rounds |-> recorded.rounds]
        /\ wup \in BOOLEAN
        /\ MaxReflectionRounds \in Nat
    BY MaxReflectionRoundsAssumption DEF RoundsInv, Counts, Paid, Bound
  <1>2. rounds' \in Nat /\ granted' \in Nat /\ granted' <= rounds' + refused + deaths
        /\ granted' <= rounds + refused + deaths + 1 /\ granted' <= granted + 1
    BY <1>1
  <1>3. CASE recorded' = [status |-> wstatus', rounds |-> rounds'] /\ UNCHANGED <<wup, refused, deaths>>
    <2>1. recorded'.rounds = rounds'
          /\ recorded' = [status |-> recorded'.status, rounds |-> recorded'.rounds]
      BY <1>3
    <2> QED BY <1>1, <1>2, <1>3, <2>1 DEF RoundsInv, Counts, Paid, Bound
  <1>4. CASE /\ recorded' \in {recorded, [status |-> wstatus', rounds |-> rounds], HalfFile}
             /\ SaveRefused \/ SaveCutShort
    <2>1. /\ refused' \in Nat /\ deaths' \in Nat
          /\ refused' + deaths' = refused + deaths + 1
      BY <1>1, <1>4 DEF SaveRefused, SaveCutShort
    <2>2. wup' \in BOOLEAN
      BY <1>1, <1>4, Zenon DEF SaveRefused, SaveCutShort
    <2>3. /\ recorded' = [status |-> recorded'.status, rounds |-> recorded'.rounds]
          /\ recorded'.rounds \in Nat /\ recorded'.rounds <= MaxReflectionRounds + feedback'
          /\ recorded' # HalfFile => granted <= recorded'.rounds + refused + deaths
      <3>1. CASE recorded' = recorded
        BY <1>1, <3>1
      <3>2. CASE recorded' = [status |-> wstatus', rounds |-> rounds]
        BY <1>1, <3>2
      <3>3. CASE recorded' = HalfFile
        BY <1>1, <3>3 DEF HalfFile
      <3> QED BY <1>4, <3>1, <3>2, <3>3
    <2>4. granted' <= rounds' + refused' + deaths'
      BY <1>1, <1>2, <2>1
    <2>5. recorded' # HalfFile => granted' <= recorded'.rounds + refused' + deaths'
      BY <1>1, <1>2, <2>1, <2>3
    <2> QED BY <1>2, <2>1, <2>2, <2>3, <2>4, <2>5 DEF RoundsInv, Counts, Paid, Bound, HalfFile
  <1> QED BY <1>3, <1>4 DEF Persist

LEMMA RoundsInvInit == WorkflowInit => RoundsInv
  BY MaxReflectionRoundsAssumption DEF WorkflowInit, RoundsInv, Counts, Paid, Bound

LEMMA RoundsInvStep == RoundsInv /\ [WorkflowNext]_workflowVars => RoundsInv'
  <1> SUFFICES ASSUME RoundsInv, [WorkflowNext]_workflowVars PROVE RoundsInv'
    OBVIOUS
  <1>1. /\ rounds \in Nat /\ feedback \in Nat /\ deaths \in Nat /\ refused \in Nat /\ granted \in Nat
        /\ rounds <= MaxReflectionRounds + feedback
        /\ MaxReflectionRounds \in Nat
    BY MaxReflectionRoundsAssumption DEF RoundsInv, Counts, Bound
  <1>2. ASSUME NEW out \in {"good", "empty"}, Pass(out) PROVE RoundsInv'
    <2>1. Persist /\ rounds' = rounds /\ granted' = granted /\ feedback' = feedback
      BY <1>2 DEF Pass, NoRound
    <2> QED BY <1>1, <2>1, PersistKeepsRounds
  <1>3. CASE Broken
    <2>1. Persist /\ feedback' = feedback
      BY <1>3 DEF Broken
    <2>2. \/ rounds' = rounds /\ granted' = granted
          \/ rounds < MaxReflectionRounds /\ rounds' = rounds + 1 /\ granted' = granted + 1
      BY <1>3 DEF Broken, Round, NoRound
    <2> QED BY <1>1, <2>1, <2>2, PersistKeepsRounds
  <1>4. CASE Unsafe
    <2>1. Persist /\ rounds' = rounds /\ granted' = granted /\ feedback' = feedback
      BY <1>4 DEF Unsafe, NoRound
    <2> QED BY <1>1, <2>1, PersistKeepsRounds
  <1>5. ASSUME NEW a \in Answers, HandleHumanResponse(a) PROVE RoundsInv'
    <2>1. Persist
      BY <1>5 DEF HandleHumanResponse
    <2>2. \/ rounds' = rounds /\ granted' = granted /\ feedback' = feedback
          \/ /\ rounds' = rounds + 1 /\ granted' = granted + 1
             /\ \/ rounds < MaxReflectionRounds /\ feedback' = feedback
                \/ feedback' = feedback + 1
      BY <1>5 DEF HandleHumanResponse, Round, NoRound
    <2> QED BY <1>1, <2>1, <2>2, PersistKeepsRounds
  <1>6. ASSUME NEW m \in Marks, Mark(m) PROVE RoundsInv'
    BY <1>6 DEF Mark, RoundsInv, Counts, Paid, Bound
  <1>7. CASE Die
    <2>1. wup' = FALSE /\ deaths' = deaths + 1 /\ refused' = refused /\ recorded' = recorded
          /\ rounds' = rounds /\ granted' = granted /\ feedback' = feedback
      BY <1>7 DEF Die
    <2>2. wup' \in BOOLEAN
      BY <2>1, Zenon
    <2> QED BY <1>1, <2>1, <2>2 DEF RoundsInv, Counts, Paid, Bound
  <1>8. CASE Restart
    <2>1. /\ recorded # HalfFile
          /\ rounds' = recorded.rounds /\ granted' = granted /\ feedback' = feedback
          /\ \/ /\ recorded' = [recorded EXCEPT !.status = RecoveredStatus(recorded.status)]
                /\ wup' = TRUE /\ UNCHANGED <<refused, deaths>>
             \/ /\ recorded' \in {recorded, HalfFile}
                /\ wup' = TRUE
                /\ refused' = refused + 1
                /\ UNCHANGED deaths
             \/ recorded' = HalfFile /\ wup' = FALSE /\ deaths' = deaths + 1 /\ UNCHANGED refused
      BY <1>8 DEF Restart, SaveCutShort
    <2>2. wup' \in BOOLEAN
      BY <2>1, Zenon
    <2>3. /\ recorded = [status |-> recorded.status, rounds |-> recorded.rounds]
          /\ recorded.rounds \in Nat /\ recorded.rounds <= MaxReflectionRounds + feedback
          /\ granted <= recorded.rounds + refused + deaths
      BY <2>1 DEF RoundsInv, Counts, Paid, Bound
    <2>4. /\ refused' \in Nat /\ deaths' \in Nat /\ refused + deaths <= refused' + deaths'
      BY <1>1, <2>1
    <2>5. \/ recorded' = HalfFile
          \/ /\ recorded' = [status |-> recorded'.status, rounds |-> recorded'.rounds]
             /\ recorded'.rounds = recorded.rounds
      BY <2>1, <2>3
    <2>6. Counts'
      <3>1. recorded' = [status |-> recorded'.status, rounds |-> recorded'.rounds]
            /\ recorded'.rounds \in Nat /\ recorded'.rounds <= MaxReflectionRounds + feedback
        BY <1>1, <2>3, <2>5 DEF HalfFile
      <3> QED BY <1>1, <2>1, <2>2, <2>3, <2>4, <3>1 DEF Counts, Bound
    <2>7. Paid'
      BY <1>1, <2>1, <2>3, <2>4, <2>5 DEF Paid, HalfFile
    <2> QED BY <2>6, <2>7 DEF RoundsInv
  <1>9. CASE UNCHANGED workflowVars
    BY <1>9 DEF workflowVars, RoundsInv, Counts, Paid, Bound
  <1> QED BY <1>2, <1>3, <1>4, <1>5, <1>6, <1>7, <1>8, <1>9 DEF WorkflowNext

\* For every limit on the rounds, and however many saves the store refuses and
\* however often the process dies, in a save or between two, a task is sent
\* back at most as often as its limit, its custom answers, the refused saves
\* and the crashes allow.
THEOREM RoundsAreCapped == WorkflowSpec => []RoundsCapped
  <1>1. RoundsInv => RoundsCapped
    BY MaxReflectionRoundsAssumption DEF RoundsInv, Counts, Paid, Bound, RoundsCapped
  <1> QED BY <1>1, RoundsInvInit, RoundsInvStep, PTL DEF WorkflowSpec

-----------------------------------------------------------------------------
(* Cancelled tasks.                                                          *)
LEMMA CancelledStays == \A to : Moved("Cancelled", to) = "Cancelled"
  BY DEF Moved, Valid

\* No output, answer, mark, refused save or recovery takes a task out of
\* Cancelled once its file has it as cancelled.
THEOREM CancelledForGood == WorkflowSpec => CancelledIsFinal
  <1> DEFINE Kept == wstatus = "Cancelled" /\ recorded.status = "Cancelled" => wstatus' = "Cancelled"
  <1>1. [WorkflowNext]_workflowVars => [Kept]_workflowVars
    <2> SUFFICES ASSUME WorkflowNext, wstatus = "Cancelled", recorded.status = "Cancelled"
                 PROVE  wstatus' = "Cancelled"
      OBVIOUS
    <2>1. ASSUME NEW out \in {"good", "empty"}, Pass(out) PROVE wstatus' = "Cancelled"
      BY <2>1, CancelledStays DEF Pass, NoRound
    <2>2. CASE Broken
      BY <2>2, CancelledStays DEF Broken, Round, NoRound
    <2>3. CASE Unsafe
      BY <2>3, CancelledStays DEF Unsafe, NoRound
    <2>4. ASSUME NEW a \in Answers, HandleHumanResponse(a) PROVE wstatus' = "Cancelled"
      BY <2>4, CancelledStays DEF HandleHumanResponse, Round, NoRound
    <2>5. ASSUME NEW m \in Marks, Mark(m) PROVE wstatus' = "Cancelled"
      BY <2>5 DEF Mark
    <2>6. CASE Die
      BY <2>6 DEF Die
    <2>7. CASE Restart
      BY <2>7 DEF Restart, RecoveredStatus
    <2> QED BY <2>1, <2>2, <2>3, <2>4, <2>5, <2>6, <2>7 DEF WorkflowNext
  <1> QED BY <1>1, PTL DEF WorkflowSpec, CancelledIsFinal

-----------------------------------------------------------------------------
(* The registry of decision tasks.  A task that has a file under completed/  *)
(* has none under tasks/ and is not active, and an id that was never given   *)
(* out has nothing at all: so neither create nor a write of an active task   *)
(* can bring back what has ended, and there is nothing for load to find.     *)
Stored == {"none", "half", "Pending", "InProgress", "Reflecting", "PendingConfirmation",
           "NeedsHumanDecision", "Paused", "Completed", "Cancelled"}
FilesTyped ==
    /\ regActive \in [RegTasks -> Stored]
    /\ taskFile \in [RegTasks -> Stored]
    /\ doneFile \in [RegTasks -> Stored]
    /\ ended \subseteq RegTasks
Unmade == \A t \in RegTasks : t \notin made => taskFile[t] = "none" /\ regActive[t] = "none"
                                               /\ doneFile[t] = "none"
OneFile == \A t \in RegTasks : doneFile[t] # "none" => taskFile[t] = "none" /\ regActive[t] = "none"
Reported == \A t \in ended : doneFile[t] # "none"

RegInv == FilesTyped /\ Unmade /\ OneFile /\ Reported

LEMMA StoredFacts ==
    /\ \A s \in {"none", "half", "Pending", "Completed", "Cancelled"} : s \in Stored
    /\ Written \subseteq Stored
    /\ \A s \in Stored : RecoveredStatus(s) \in Stored
  BY DEF Stored, Written, RecoveredStatus

LEMMA RegInvInit == RegInit => RegInv
  BY StoredFacts DEF RegInit, RegInv, FilesTyped, Unmade, OneFile, Reported

\* A task that is active, or new, and is written.
LEMMA WriteKeeps ==
    ASSUME RegInv, NEW t \in RegTasks, NEW s \in Stored, SaveFile(t, s) \/ Refused,
           regActive' = [regActive EXCEPT ![t] = s], doneFile[t] = "none",
           made \subseteq made', t \in made', ended' = ended
    PROVE  RegInv'
  <1>1. doneFile' = doneFile /\ (taskFile' = taskFile \/ taskFile' = [taskFile EXCEPT ![t] = s]
                                 \/ taskFile' = [taskFile EXCEPT ![t] = "half"])
    BY DEF SaveFile, Refused
  <1>2. FilesTyped'
    BY <1>1, StoredFacts DEF RegInv, FilesTyped
  <1>3. \A u \in RegTasks : u # t => taskFile'[u] = taskFile[u] /\ regActive'[u] = regActive[u]
    BY <1>1 DEF RegInv, FilesTyped
  <1>4. Unmade'
    BY <1>1, <1>3 DEF RegInv, Unmade
  <1>5. OneFile'
    BY <1>1, <1>3 DEF RegInv, OneFile
  <1>6. Reported'
    BY <1>1 DEF RegInv, Reported
  <1> QED BY <1>2, <1>4, <1>5, <1>6 DEF RegInv

LEMMA EndKeeps ==
    ASSUME RegInv, NEW t \in RegTasks, regActive[t] # "none",
           NEW s \in Stored, s # "none", Leave(t, s)
    PROVE  RegInv'
  <1>1. t \in made /\ doneFile[t] = "none" /\ made' = made
        /\ regActive' = [regActive EXCEPT ![t] = "none"]
    BY DEF RegInv, Unmade, OneFile, Leave
  <1>2. CASE Refused /\ UNCHANGED ended
    BY <1>1, <1>2, StoredFacts DEF Refused, RegInv, FilesTyped, Unmade, OneFile, Reported
  <1>3. CASE /\ MoveToCompleted(t, s)
             /\ ended' = IF Fine THEN ended \cup {t} ELSE ended
    <2>1. PICK d \in Stored : d # "none" /\ doneFile' = [doneFile EXCEPT ![t] = d]
      BY <1>3, StoredFacts DEF MoveToCompleted, RegInv, FilesTyped
    <2>2. taskFile' \in [RegTasks -> Stored] /\ taskFile'[t] = "none"
          /\ \A u \in RegTasks : u # t => taskFile'[u] = taskFile[u]
      BY <1>3, StoredFacts DEF MoveToCompleted, RegInv, FilesTyped
    <2>3. /\ doneFile' \in [RegTasks -> Stored] /\ doneFile'[t] # "none"
          /\ \A u \in RegTasks : u # t => doneFile'[u] = doneFile[u]
      BY <2>1 DEF RegInv, FilesTyped
    <2>4. /\ regActive' \in [RegTasks -> Stored] /\ regActive'[t] = "none"
          /\ \A u \in RegTasks : u # t => regActive'[u] = regActive[u]
      BY <1>1, StoredFacts DEF RegInv, FilesTyped
    <2>5. ended' \subseteq ended \cup {t}
      BY <1>3
    <2>6. FilesTyped'
      BY <2>2, <2>3, <2>4, <2>5 DEF RegInv, FilesTyped
    <2>7. Unmade'
      BY <1>1, <2>2, <2>3, <2>4 DEF RegInv, Unmade
    <2>8. OneFile'
      BY <2>2, <2>3, <2>4 DEF RegInv, OneFile
    <2>9. Reported'
      BY <2>3, <2>5 DEF RegInv, FilesTyped, Reported
    <2> QED BY <2>6, <2>7, <2>8, <2>9 DEF RegInv
  <1> QED BY <1>2, <1>3 DEF Leave

\* Whatever load reads and recover writes, a task without a readable file is
\* neither active nor given a file.
LEMMA LoadKeeps ==
    ASSUME RegInv, LoadAndRecover
    PROVE  RegInv'
  <1>1. doneFile' = doneFile /\ made' = made /\ ended' = ended
    BY DEF LoadAndRecover
  <1>2. /\ regActive' \in [RegTasks -> Stored]
        /\ \A t \in RegTasks : taskFile[t] = "none" => regActive'[t] = "none"
    BY StoredFacts DEF LoadAndRecover, Readable, RegInv, FilesTyped
  <1>3. /\ taskFile' \in [RegTasks -> Stored]
        /\ \A t \in RegTasks : taskFile[t] = "none" => taskFile'[t] = "none"
    <2> DEFINE found == [t \in RegTasks |-> IF Readable(taskFile, t)
                                            THEN RecoveredStatus(taskFile[t]) ELSE "none"]
               loaded == {t \in RegTasks : found[t] # "none"}
               Saved(tasks) == [t \in RegTasks |-> IF t \in tasks THEN found[t] ELSE taskFile[t]]
    <2>1. \A t \in RegTasks : found[t] \in Stored /\ (taskFile[t] = "none" => t \notin loaded)
      BY StoredFacts DEF RegInv, FilesTyped, Readable
    <2>2. \/ taskFile' = Saved(loaded)
          \/ \E t \in loaded : \E tasks \in SUBSET (loaded \ {t}) :
                taskFile' = Saved(tasks) \/ taskFile' = [Saved(tasks) EXCEPT ![t] = "half"]
      BY DEF LoadAndRecover
    <2> HIDE DEF found, loaded
    <2>3. \A tasks \in SUBSET loaded :
             /\ Saved(tasks) \in [RegTasks -> Stored]
             /\ \A t \in RegTasks : taskFile[t] = "none" => Saved(tasks)[t] = "none"
      BY <2>1 DEF RegInv, FilesTyped
    <2> HIDE DEF Saved
    <2>4. CASE taskFile' = Saved(loaded)
      BY <2>3, <2>4
    <2>5. ASSUME NEW t \in loaded, NEW tasks \in SUBSET (loaded \ {t}),
                 taskFile' = Saved(tasks) \/ taskFile' = [Saved(tasks) EXCEPT ![t] = "half"]
          PROVE  /\ taskFile' \in [RegTasks -> Stored]
                 /\ \A u \in RegTasks : taskFile[u] = "none" => taskFile'[u] = "none"
      <3>1. tasks \in SUBSET loaded
        OBVIOUS
      <3>2. /\ Saved(tasks) \in [RegTasks -> Stored]
            /\ \A u \in RegTasks : taskFile[u] = "none" => Saved(tasks)[u] = "none"
        BY <2>3, <3>1
      <3> QED BY <2>1, <2>5, <3>2, StoredFacts
    <2> QED BY <2>2, <2>4, <2>5
  <1>4. FilesTyped'
    BY <1>1, <1>2, <1>3 DEF RegInv, FilesTyped
  <1>5. Unmade' /\ OneFile' /\ Reported'
    BY <1>1, <1>2, <1>3 DEF RegInv, Unmade, OneFile, Reported
  <1> QED BY <1>4, <1>5 DEF RegInv

LEMMA RegInvStep == RegInv /\ [RegNext]_regVars => RegInv'
  <1> SUFFICES ASSUME RegInv, [RegNext]_regVars PROVE RegInv'
    OBVIOUS
  <1>1. ASSUME NEW t \in RegTasks, CreateTask(t) PROVE RegInv'
    <2>1. doneFile[t] = "none" /\ t \in made' /\ made \subseteq made'
      BY <1>1 DEF CreateTask, RegInv, Unmade
    <2> QED BY <1>1, <2>1, WriteKeeps, StoredFacts DEF CreateTask
  <1>2. ASSUME NEW t \in RegTasks, NEW s \in Written, UpdateTask(t, s) PROVE RegInv'
    <2>1. doneFile[t] = "none" /\ t \in made /\ made' = made /\ s \in Stored
      BY <1>2, StoredFacts DEF UpdateTask, RegInv, Unmade, OneFile
    <2> QED BY <1>2, <2>1, WriteKeeps, StoredFacts DEF UpdateTask
  <1>3. ASSUME NEW t \in RegTasks, CompleteActive(t) PROVE RegInv'
    <2>1. CASE Leave(t, "Completed")
      BY <1>3, <2>1, EndKeeps, StoredFacts DEF CompleteActive
    <2>2. CASE /\ regActive' = [regActive EXCEPT ![t] = "none"]
               /\ UNCHANGED <<regDone, taskFile, doneFile, made, ended>>
      BY <2>2, StoredFacts DEF RegInv, FilesTyped, Unmade, OneFile, Reported
    <2> QED BY <1>3, <2>1, <2>2 DEF CompleteActive
  <1>4. ASSUME NEW t \in RegTasks, CancelTask(t) PROVE RegInv'
    BY <1>4, EndKeeps, StoredFacts DEF CancelTask
  <1>5. CASE Stops
    BY <1>5 DEF Stops, RegInv, FilesTyped, Unmade, OneFile, Reported
  <1>6. CASE UNCHANGED regVars
    BY <1>6 DEF regVars, RegInv, FilesTyped, Unmade, OneFile, Reported
  <1> QED BY <1>1, <1>2, <1>3, <1>4, <1>5, <1>6, LoadKeeps DEF RegNext

\* For every set of tasks, and however often the store refuses or the process
\* dies, half-way through a write included: a task that complete or cancel
\* reported as done stays among the completed ones, and no task has two files.
THEOREM EndedForGood == RegSpec => []EndedStaysEnded
  <1>1. RegInv => EndedStaysEnded
    BY DEF RegInv, FilesTyped, OneFile, Reported, EndedStaysEnded
  <1> QED BY <1>1, RegInvInit, RegInvStep, PTL DEF RegSpec

-----------------------------------------------------------------------------
(* Worktrees.  An agent has a slot only below the next index, the record of    *)
(* its worktree outlives the worktree, and no record says that a paused agent  *)
(* with uncommitted work has none.                                             *)
Dirs == {"none", "clean", "dirty"}
SlotStates == {"none", "Idle", "Active", "Paused", "Stopped"}
Records == [kind : Kinds, seen : Dirs] \cup {NoRecord, TornRecord}

TreeTypes ==
    /\ nextTree \in Nat
    /\ dir \in [Trees -> Dirs]
    /\ record \in [Trees -> Records]
    /\ wslot \in [Trees -> SlotStates]
    /\ slotTree \in [Trees -> BOOLEAN]

Seated == \A a \in Trees : wslot[a] # "none" => a < nextTree

PausedSeen ==
    \A a \in Trees : wslot[a] = "Paused" /\ dir[a] = "dirty" => record[a].seen # "clean"

TreeInv == TreeTypes /\ Seated /\ TreesRecorded /\ PausedSeen

LEMMA TreesFacts ==
    /\ MaxTrees \in Nat /\ Trees \subseteq Nat
    /\ NoRecord \in Records /\ TornRecord \in Records /\ TornRecord # NoRecord
    /\ NoRecord.seen = "none" /\ TornRecord.seen = "none"
    /\ \A r \in Records : r \notin {NoRecord, TornRecord} => r \in [kind : Kinds, seen : Dirs]
    /\ \A kind \in Kinds, d \in Dirs : /\ [kind |-> kind, seen |-> d] # NoRecord
                                       /\ [kind |-> kind, seen |-> d] \in Records
  <1>1. \A kind \in Kinds, d \in Dirs : [kind |-> kind, seen |-> d].kind = kind
    OBVIOUS
  <1>2. NoRecord.kind = "none" /\ TornRecord.kind = "torn" /\ "none" \notin Kinds
    BY DEF NoRecord, TornRecord, Kinds
  <1> QED BY <1>1, <1>2, MaxTreesAssumption DEF Trees, NoRecord, TornRecord, Dirs, Records

\* The highest index that is in use is a number.
LEMMA HighestFacts ==
    ASSUME NEW T \in SUBSET Trees
    PROVE  Highest(T) \in Nat
  <1>1. CASE T = {}
    BY <1>1 DEF Highest
  <1>2. CASE T # {}
    <2> DEFINE U == {n \in Nat : \E a \in T : n = MaxTrees - a}
    <2>1. MaxTrees \in Nat /\ \A a \in T : a \in Nat /\ a <= MaxTrees
      BY TreesFacts DEF Trees
    <2>2. U \in SUBSET Nat /\ U # {}
      <3>1. U \in SUBSET Nat
        OBVIOUS
      <3>2. PICK a \in T : TRUE
        BY <1>2
      <3>3. MaxTrees - a \in Nat
        BY <2>1, <3>2
      <3>4. MaxTrees - a \in U
        BY <3>2, <3>3
      <3> HIDE DEF U
      <3> QED BY <3>1, <3>4
    <2>3. PICK x \in U : \A y \in U : x <= y
      BY <2>2, LeastMember
    <2>4. PICK a \in T : x = MaxTrees - a
      BY <2>3
    <2>5. \A b \in T : MaxTrees - b \in U
      BY <2>1
    <2>6. \A b \in T : b <= a
      BY <2>1, <2>3, <2>4, <2>5
    <2>7. Highest(T) = CHOOSE c \in T : \A b \in T : b <= c
      BY <1>2 DEF Highest
    <2>8. Highest(T) \in T
      BY <2>6, <2>7
    <2> QED BY <2>1, <2>8
  <1> QED BY <1>1, <1>2

LEMMA TreeInvInit == TreeInit => TreeInv
  BY TreesFacts
  DEF TreeInit, TreeInv, TreeTypes, Seated, TreesRecorded, PausedSeen, Dirs, SlotStates

\* A save or a deletion that fails leaves the record or a torn one.
LEMMA RecordFailsFacts ==
    ASSUME TreeInv, NEW a \in Trees, RecordFails(a)
    PROVE  /\ record' \in [Trees -> Records]
           /\ \A b \in Trees : record'[b] = record[b] \/ record'[b] = TornRecord
  BY TreesFacts DEF RecordFails, TreeInv, TreeTypes

LEMMA CreatedFacts ==
    ASSUME TreeInv, NEW a \in Trees, NEW kind, Created(a, kind)
    PROVE  /\ dir' \in [Trees -> Dirs] /\ dir'[a] = "clean"
           /\ \A b \in Trees : b # a => dir'[b] = dir[b]
  BY DEF Created, TreeInv, TreeTypes, Dirs

LEMMA RemovedFacts ==
    ASSUME TreeInv, NEW S \in SUBSET Trees, Removed(S)
    PROVE  /\ dir' \in [Trees -> Dirs]
           /\ \A a \in Trees : dir'[a] = IF a \in S THEN "none" ELSE dir[a]
  BY DEF Removed, TreeInv, TreeTypes, Dirs

LEMMA DeletedFacts ==
    ASSUME TreeInv, NEW S \in SUBSET Trees
    PROVE  /\ Deleted(S) \in [Trees -> Records]
           /\ \A a \in Trees : \/ Deleted(S)[a] = record[a]
                               \/ a \in S /\ Deleted(S)[a] = NoRecord
  BY TreesFacts DEF Deleted, TreeInv, TreeTypes

LEMMA SpawnKeeps ==
    ASSUME TreeInv, NEW a \in Trees, NEW kind \in Kinds, SpawnTree(a, kind)
    PROVE  TreeInv'
  <1>1. /\ a = nextTree /\ nextTree' = nextTree + 1 /\ nextTree' \in Nat
        /\ \A b \in Trees : b < nextTree => b < nextTree'
        /\ a < nextTree' /\ wslot[a] = "none"
    BY TreesFacts DEF SpawnTree, TreeInv, TreeTypes, Seated
  <1>2. CASE /\ Created(a, kind)
             /\ record' = [record EXCEPT ![a] = [kind |-> kind, seen |-> "clean"]]
             /\ wslot' = [wslot EXCEPT ![a] = "Idle"]
             /\ slotTree' = [slotTree EXCEPT ![a] = TRUE]
    <2>1. "clean" \in Dirs
      BY DEF Dirs
    <2>2. /\ record' \in [Trees -> Records]
          /\ record'[a] # NoRecord /\ \A b \in Trees : b # a => record'[b] = record[b]
      BY <1>2, <2>1, TreesFacts DEF TreeInv, TreeTypes
    <2>3. /\ wslot' \in [Trees -> SlotStates] /\ slotTree' \in [Trees -> BOOLEAN]
          /\ wslot'[a] = "Idle"
          /\ \A b \in Trees : b # a => wslot'[b] = wslot[b] /\ slotTree'[b] = slotTree[b]
      BY <1>2 DEF TreeInv, TreeTypes, SlotStates
    <2> QED BY <1>1, <1>2, <2>2, <2>3, CreatedFacts
            DEF TreeInv, TreeTypes, Seated, TreesRecorded, PausedSeen
  <1>3. CASE /\ Created(a, kind)
             /\ record' = record \/ RecordFails(a)
             /\ UNCHANGED <<wslot, slotTree>>
    <2>1. /\ record' \in [Trees -> Records]
          /\ \A b \in Trees : record'[b] = record[b] \/ record'[b] = TornRecord
      BY <1>3, RecordFailsFacts DEF TreeInv, TreeTypes
    <2> QED BY <1>1, <1>3, <2>1, CreatedFacts, TreesFacts
            DEF TreeInv, TreeTypes, Seated, TreesRecorded, PausedSeen
  <1>4. CASE UNCHANGED <<wslot, slotTree, dir, record>>
    BY <1>1, <1>4 DEF TreeInv, TreeTypes, Seated, TreesRecorded, PausedSeen
  <1> QED BY <1>2, <1>3, <1>4 DEF SpawnTree

LEMMA WorksKeeps ==
    ASSUME TreeInv, NEW a \in Trees, Works(a)
    PROVE  TreeInv'
  <1>1. /\ wslot' \in [Trees -> SlotStates] /\ dir' \in [Trees -> Dirs]
    BY DEF Works, TreeInv, TreeTypes, SlotStates, Dirs
  <1>2. \A b \in Trees : /\ wslot'[b] = "Paused" => wslot[b] = "Paused" /\ dir'[b] = dir[b]
                         /\ wslot'[b] = "none" <=> wslot[b] = "none"
                         /\ wslot[b] = "Stopped" => wslot'[b] = "Stopped" /\ dir'[b] = dir[b]
    BY DEF Works, TreeInv, TreeTypes, Dirs
  <1>3. UNCHANGED <<nextTree, slotTree, record>>
    BY DEF Works
  <1> QED BY <1>1, <1>2, <1>3 DEF TreeInv, TreeTypes, Seated, TreesRecorded, PausedSeen

LEMMA PauseKeeps ==
    ASSUME TreeInv, NEW a \in Trees, PauseTree(a)
    PROVE  TreeInv'
  <1>1. /\ UNCHANGED <<nextTree, slotTree, dir>>
        /\ wslot[a] \in {"Idle", "Active", "Paused"}
        /\ record[a] \notin {NoRecord, TornRecord}
    BY DEF PauseTree, CanPause, HasRecord
  <1>2. CASE /\ record' = [record EXCEPT ![a].seen = dir[a]]
             /\ wslot' = [wslot EXCEPT ![a] = "Paused"]
    <2>1. /\ record \in [Trees -> Records] /\ record[a] \in [kind : Kinds, seen : Dirs]
          /\ dir \in [Trees -> Dirs] /\ dir[a] \in Dirs
      BY <1>1, TreesFacts DEF TreeInv, TreeTypes
    <2> DEFINE kind == record[a].kind
    <2>2. kind \in Kinds /\ record[a] = [kind |-> kind, seen |-> record[a].seen]
      BY <2>1
    <2>3. record' = [record EXCEPT ![a] = [kind |-> kind, seen |-> dir[a]]]
      <3>1. record' = [record EXCEPT ![a] = [record[a] EXCEPT !.seen = dir[a]]]
        BY <1>2
      <3>2. [record[a] EXCEPT !.seen = dir[a]] = [kind |-> kind, seen |-> dir[a]]
        BY <2>2
      <3> QED BY <3>1, <3>2
    <2>4. /\ record' \in [Trees -> Records] /\ record'[a] # NoRecord /\ record'[a].seen = dir[a]
          /\ \A b \in Trees : b # a => record'[b] = record[b]
      BY <2>1, <2>2, <2>3, TreesFacts
    <2>5. /\ wslot' \in [Trees -> SlotStates]
          /\ \A b \in Trees : b # a => wslot'[b] = wslot[b]
      BY <1>2 DEF TreeInv, TreeTypes, SlotStates
    <2>6. TreeTypes'
      BY <1>1, <2>4, <2>5 DEF TreeInv, TreeTypes
    <2>7. Seated' /\ TreesRecorded'
      BY <1>1, <2>4, <2>5 DEF TreeInv, Seated, TreesRecorded
    <2>8. PausedSeen'
      BY <1>1, <2>4, <2>5 DEF TreeInv, PausedSeen
    <2> QED BY <2>6, <2>7, <2>8 DEF TreeInv
  <1>3. CASE RecordFails(a) /\ UNCHANGED wslot
    BY <1>1, <1>3, RecordFailsFacts, TreesFacts
    DEF TreeInv, TreeTypes, Seated, TreesRecorded, PausedSeen
  <1> QED BY <1>2, <1>3 DEF PauseTree

LEMMA ResumeKeeps ==
    ASSUME TreeInv, NEW a \in Trees, ResumeTree(a)
    PROVE  TreeInv'
  <1>1. /\ wslot[a] = "Paused" /\ record[a] # NoRecord
        /\ nextTree' = nextTree
    BY DEF ResumeTree, HasRecord
  <1>2. /\ dir' \in [Trees -> Dirs]
        /\ dir'[a] = "dirty" => dir[a] = "dirty"
        /\ \A b \in Trees : b # a => dir'[b] = dir[b]
    <2>1. CASE UNCHANGED dir
      BY <2>1 DEF TreeInv, TreeTypes
    <2>2. CASE Created(a, record[a].kind)
      BY <2>2, CreatedFacts
    <2> QED BY <2>1, <2>2 DEF ResumeTree
  <1>3. CASE /\ slotTree' = [slotTree EXCEPT ![a] = TRUE]
             /\ wslot' = [wslot EXCEPT ![a] = "Idle"]
             /\ UNCHANGED record
    <2>1. /\ wslot' \in [Trees -> SlotStates] /\ slotTree' \in [Trees -> BOOLEAN]
          /\ wslot'[a] = "Idle"
          /\ \A b \in Trees : b # a => wslot'[b] = wslot[b] /\ slotTree'[b] = slotTree[b]
      BY <1>3 DEF TreeInv, TreeTypes, SlotStates
    <2> QED BY <1>1, <1>2, <1>3, <2>1
            DEF TreeInv, TreeTypes, Seated, TreesRecorded, PausedSeen
  <1>4. CASE RecordFails(a) /\ UNCHANGED <<slotTree, wslot>>
    <2>1. /\ record' \in [Trees -> Records]
          /\ \A b \in Trees : record'[b] = record[b] \/ record'[b] = TornRecord
      BY <1>4, RecordFailsFacts
    <2> QED BY <1>1, <1>2, <1>4, <2>1, TreesFacts
            DEF TreeInv, TreeTypes, Seated, TreesRecorded, PausedSeen
  <1> QED BY <1>3, <1>4 DEF ResumeTree

LEMMA StopKeeps ==
    ASSUME TreeInv, NEW a \in Trees, NEW cleanup \in BOOLEAN, StopTree(a, cleanup)
    PROVE  TreeInv'
  <1>1. /\ wslot[a] # "none" /\ wslot' \in [Trees -> SlotStates] /\ wslot'[a] = "Stopped"
        /\ \A b \in Trees : b # a => wslot'[b] = wslot[b]
        /\ UNCHANGED <<nextTree, slotTree>>
    BY DEF StopTree, TreeInv, TreeTypes, SlotStates
  <1>2. /\ record[a] # NoRecord \/ ~slotTree[a]
    BY DEF StopTree, TreeInv, TreesRecorded
  <1>3. CASE Removed({a}) /\ (record' = Deleted({a}) \/ RecordFails(a))
    <2>1. /\ dir' \in [Trees -> Dirs] /\ dir'[a] = "none"
          /\ \A b \in Trees : b # a => dir'[b] = dir[b]
      BY <1>3, RemovedFacts
    <2>2. /\ record' \in [Trees -> Records]
          /\ \A b \in Trees : b # a => record'[b] = record[b] \/ record'[b] = TornRecord
      BY <1>3, RecordFailsFacts, DeletedFacts
    <2> QED BY <1>1, <2>1, <2>2, TreesFacts
            DEF TreeInv, TreeTypes, Seated, TreesRecorded, PausedSeen
  <1>4. CASE UNCHANGED <<dir, record>>
    BY <1>1, <1>2, <1>4 DEF TreeInv, TreeTypes, Seated, TreesRecorded, PausedSeen
  <1> QED BY <1>3, <1>4 DEF StopTree

LEMMA DropKeeps ==
    ASSUME TreeInv, NEW a \in Trees, DropTree(a)
    PROVE  TreeInv'
  <1>1. /\ wslot' \in [Trees -> SlotStates] /\ slotTree' \in [Trees -> BOOLEAN]
        /\ wslot'[a] = "none"
        /\ \A b \in Trees : b # a => wslot'[b] = wslot[b] /\ slotTree'[b] = slotTree[b]
    BY DEF DropTree, TreeInv, TreeTypes, SlotStates
  <1>2. UNCHANGED <<nextTree, dir, record>>
    BY DEF DropTree
  <1> QED BY <1>1, <1>2 DEF TreeInv, TreeTypes, Seated, TreesRecorded, PausedSeen

\* The clean-up only takes worktrees whose record shows no work: none of an agent
\* that paused with work.  The slot forgets a worktree together with its record.
LEMMA CleanupSteps ==
    ASSUME TreeInv, NEW S \in SUBSET Trees, AutoCleanup(S)
    PROVE  TreeInv' /\ \A a \in Trees : a \in lostWork' \ lostWork => wslot[a] # "Paused"
  <1>1. TreeInv'
    <2>1. /\ Removed(S) /\ record' = Deleted(S) /\ UNCHANGED <<nextTree, wslot>>
          /\ slotTree' = [a \in Trees |-> slotTree[a] /\ a \notin S]
          /\ \A a \in S : wslot[a] # "Stopped"
      BY DEF AutoCleanup, Unused
    <2>2. /\ dir' \in [Trees -> Dirs]
          /\ \A a \in Trees : dir'[a] = dir[a] \/ (a \in S /\ dir'[a] = "none")
      BY <2>1, RemovedFacts
    <2>3. /\ record' \in [Trees -> Records]
          /\ \A a \in Trees : record'[a] = record[a] \/ (a \in S /\ record'[a] = NoRecord)
      BY <2>1, DeletedFacts
    <2>4. /\ slotTree' \in [Trees -> BOOLEAN]
          /\ \A a \in Trees : slotTree'[a] => slotTree[a] /\ a \notin S
      BY <2>1 DEF TreeInv, TreeTypes
    <2> QED BY <2>1, <2>2, <2>3, <2>4, TreesFacts
            DEF TreeInv, TreeTypes, Seated, TreesRecorded, PausedSeen
  <1>2. \A a \in Trees : a \in lostWork' \ lostWork => wslot[a] # "Paused"
    BY DEF AutoCleanup, Unused, TreeInv, PausedSeen
  <1> QED BY <1>1, <1>2

LEMMA CleanupFailsSteps ==
    ASSUME TreeInv, NEW a \in Trees, AutoCleanupFails(a)
    PROVE  TreeInv' /\ \A b \in Trees : b \in lostWork' \ lostWork => wslot[b] # "Paused"
  <1>1. TreeInv'
    <2>1. Removed({a}) /\ RecordFails(a) /\ UNCHANGED <<nextTree, wslot, slotTree>>
      BY DEF AutoCleanupFails
    <2>2. /\ dir' \in [Trees -> Dirs]
          /\ \A b \in Trees : dir'[b] = dir[b] \/ dir'[b] = "none"
      BY <2>1, RemovedFacts
    <2>3. /\ record' \in [Trees -> Records]
          /\ \A b \in Trees : record'[b] = record[b] \/ record'[b] = TornRecord
      BY <2>1, RecordFailsFacts
    <2> QED BY <2>1, <2>2, <2>3, TreesFacts
            DEF TreeInv, TreeTypes, Seated, TreesRecorded, PausedSeen
  <1>2. \A b \in Trees : b \in lostWork' \ lostWork => wslot[b] # "Paused"
    BY DEF AutoCleanupFails, Unused, TreeInv, PausedSeen
  <1> QED BY <1>1, <1>2

\* The recovery only touches what belongs to no agent of the pool.
LEMMA RecoverKeeps ==
    ASSUME TreeInv, NEW recreate \in BOOLEAN, RecoverOrphaned(recreate)
    PROVE  TreeInv'
  <1>1. PICK S \in SUBSET Orphans, again \in SUBSET Orphans :
           LET after == [a \in Trees |-> IF a \in S \ again THEN NoRecord ELSE record[a]]
           IN  /\ dir' = [a \in Trees |-> IF a \in again THEN "clean" ELSE dir[a]]
               /\ \/ record' = after
                  \/ \E a \in S \ again : record' \in {[after EXCEPT ![a] = record[a]],
                                                       [after EXCEPT ![a] = TornRecord]}
    BY DEF RecoverOrphaned
  <1>2. UNCHANGED <<nextTree, wslot, slotTree>>
    BY DEF RecoverOrphaned
  <1>3. Orphans \subseteq Trees /\ \A a \in Orphans : wslot[a] = "none"
    BY DEF Orphans, HasRecord
  <1>4. /\ dir' \in [Trees -> Dirs]
        /\ \A a \in Trees : wslot[a] # "none" => dir'[a] = dir[a]
    BY <1>1, <1>3 DEF TreeInv, TreeTypes, Dirs
  <1>5. /\ record' \in [Trees -> Records]
        /\ \A a \in Trees : wslot[a] # "none" => record'[a] = record[a]
    <2> DEFINE after == [a \in Trees |-> IF a \in S \ again THEN NoRecord ELSE record[a]]
    <2>1. /\ after \in [Trees -> Records]
          /\ \A a \in Trees : wslot[a] # "none" => after[a] = record[a]
      BY <1>3, TreesFacts DEF TreeInv, TreeTypes
    <2>2. \/ record' = after
          \/ \E a \in S \ again, r \in Records : record' = [after EXCEPT ![a] = r]
      BY <1>1, <1>3, TreesFacts DEF TreeInv, TreeTypes
    <2> HIDE DEF after
    <2>3. CASE record' = after
      BY <2>1, <2>3
    <2>4. ASSUME NEW a \in S \ again, NEW r \in Records, record' = [after EXCEPT ![a] = r]
          PROVE  /\ record' \in [Trees -> Records]
                 /\ \A b \in Trees : wslot[b] # "none" => record'[b] = record[b]
      BY <1>3, <2>1, <2>4
    <2> QED BY <2>2, <2>3, <2>4
  <1> QED BY <1>2, <1>4, <1>5 DEF TreeInv, TreeTypes, Seated, TreesRecorded, PausedSeen

LEMMA ReopenKeeps ==
    ASSUME TreeInv, Reopen
    PROVE  TreeInv'
  <1>1. nextTree' \in Nat
    <2>1. \A S \in SUBSET Trees : 1 + Highest(S) \in Nat
      BY HighestFacts
    <2> QED BY <2>1 DEF Reopen, NextIndex, HasRecord
  <1>2. UNCHANGED <<dir, record>>
    BY DEF Reopen
  <1>3. wslot' = [a \in Trees |-> "none"] /\ slotTree' = [a \in Trees |-> FALSE]
    BY DEF Reopen
  <1> QED BY <1>1, <1>2, <1>3
          DEF TreeInv, TreeTypes, Seated, TreesRecorded, PausedSeen, SlotStates

LEMMA OutsideKeeps ==
    ASSUME TreeInv, NEW a \in Trees, Outside(a)
    PROVE  TreeInv'
  <1>1. UNCHANGED <<nextTree, wslot, slotTree, record>>
    BY DEF Outside
  <1>2. /\ dir' \in [Trees -> Dirs]
        /\ \A b \in Trees : dir'[b] = dir[b] \/ dir'[b] = "none"
    BY DEF Outside, TreeInv, TreeTypes, Dirs
  <1> QED BY <1>1, <1>2 DEF TreeInv, TreeTypes, Seated, TreesRecorded, PausedSeen

LEMMA TreeInvStep == TreeInv /\ [TreeNext]_treeVars => TreeInv'
  <1> SUFFICES ASSUME TreeInv, [TreeNext]_treeVars PROVE TreeInv'
    OBVIOUS
  <1>1. CASE Prune
    BY <1>1 DEF Prune, TreeInv, TreeTypes, Seated, TreesRecorded, PausedSeen
  <1>2. CASE UNCHANGED treeVars
    BY <1>2 DEF treeVars, TreeInv, TreeTypes, Seated, TreesRecorded, PausedSeen
  <1> QED BY <1>1, <1>2, SpawnKeeps, WorksKeeps, PauseKeeps, ResumeKeeps, StopKeeps, DropKeeps,
             CleanupFailsSteps, OutsideKeeps, CleanupSteps, RecoverKeeps, ReopenKeeps DEF TreeNext

\* For every number of agents, mishaps and restarts, whatever was cleaned up, deleted
\* outside, refused by the store or cut short: the worktree a slot knows of has a record,
\* whole or torn, unless stop_with_worktree removed it.
THEOREM TreesAreRecorded == TreeSpec => []TreesRecorded
  <1>1. TreeInv => TreesRecorded
    BY DEF TreeInv
  <1> QED BY <1>1, TreeInvInit, TreeInvStep, PTL DEF TreeSpec

\* No step of auto_cleanup_idle destroys uncommitted work of a paused agent: the record is
\* brought up to date when the agent is paused, and the clean-up asks the record.
THEOREM PausedWorkIsKept == TreeSpec => PausedWorkKept
  <1>1. TreeInv /\ [TreeNext]_treeVars
        => [\A a \in Trees : a \in lostWork' \ lostWork => wslot[a] # "Paused"]_treeVars
    <2> SUFFICES ASSUME TreeInv, TreeNext
                 PROVE  \A a \in Trees : a \in lostWork' \ lostWork => wslot[a] # "Paused"
      OBVIOUS
    <2>1. \/ lostWork' = lostWork \/ \E S \in SUBSET Trees : AutoCleanup(S)
          \/ \E a \in Trees : AutoCleanupFails(a)
      BY DEF TreeNext, SpawnTree, Works, PauseTree, CanPause, ResumeTree, StopTree,
             DropTree, Outside, RecoverOrphaned, Prune, Reopen
    <2> QED BY <2>1, CleanupSteps, CleanupFailsSteps
  <1> QED BY <1>1, TreeInvInit, TreeInvStep, PTL DEF TreeSpec, PausedWorkKept

-----------------------------------------------------------------------------
(* Mail.  Queue, inbox and prompts are each in the order of sending, and every *)
(* mail in the queue was sent after those in an inbox, which were sent after *)
(* those that a prompt has shown.                                            *)
Mail == [n : Nat, id : Nat, to : MailAgents \cup {Everyone}]
Entry == [mail : Mail, read : BOOLEAN]

MailTypes ==
    /\ sentMails \in Nat /\ lastId \in Nat
    /\ outgoing \in Seq(Mail) /\ pendingMail \in Seq(Mail)
    /\ inbox \in [MailAgents -> Seq(Entry)]
    /\ shown \in [MailAgents -> Seq(Mail)]

Rises(s) == \A i, j \in 1..Len(s) : i < j => s[i].n < s[j].n
BoxRises(s) == \A i, j \in 1..Len(s) : i < j => s[i].mail.n < s[j].mail.n

\* Queue, inbox and prompts are in the order of sending, and behind each other.
QueueOrder(out) ==
    /\ Rises(out)
    /\ \A i \in 1..Len(out) : out[i].n <= sentMails
BoxOrder(out, box) ==
    /\ BoxRises(box)
    /\ \A i \in 1..Len(box) :
          /\ box[i].mail.n <= sentMails
          /\ \A j \in 1..Len(out) : box[i].mail.n < out[j].n
ShownOrder(out, box, seen) ==
    /\ Rises(seen)
    /\ \A i \in 1..Len(seen) :
          /\ seen[i].n <= sentMails
          /\ \A j \in 1..Len(out) : seen[i].n < out[j].n
          /\ \A j \in 1..Len(box) : ~box[j].read => seen[i].n < box[j].mail.n

\* What is mailSave is a mailbox in order.
Snapshots ==
    [kind : {"whole"}, outgoing : Seq(Mail), pendingMail : Seq(Mail),
     inbox : [MailAgents -> Seq(Entry)], seen : [MailAgents -> Seq(Mail)]]
SaveOrder ==
    /\ mailSave \in Snapshots \cup {NoSave, TornSave}
    /\ mailSave \in Snapshots =>
          /\ QueueOrder(mailSave.outgoing)
          /\ \A a \in MailAgents :
                /\ BoxOrder(mailSave.outgoing, mailSave.inbox[a])
                /\ ShownOrder(mailSave.outgoing, mailSave.inbox[a], mailSave.seen[a])
Somewhere ==
    \A n \in 1..sentMails : Waits(n) \/ Arrived(n) \/ n \in lostMail \/ Broadcast(n) \/ InSave(n)

\* A host that is down has no mailbox.
DownEmpty == ~up => outgoing = <<>> /\ pendingMail = <<>> /\ inbox = NoInbox

MailInv ==
    /\ MailTypes /\ QueueOrder(outgoing) /\ Somewhere /\ SaveOrder /\ DownEmpty
    /\ \A a \in MailAgents : /\ BoxOrder(outgoing, inbox[a])
                             /\ ShownOrder(outgoing, inbox[a], shown[a])

LEMMA MailFacts ==
    ASSUME NEW s \in Seq(Mail)
    PROVE  /\ DOMAIN s = 1..Len(s) /\ Len(s) \in Nat
           /\ \A i \in 1..Len(s) : /\ s[i] \in Mail /\ s[i].n \in Nat
                                   /\ s[i].to \in MailAgents \cup {Everyone}
  <1>1. /\ DOMAIN s = 1..Len(s) /\ Len(s) \in Nat
        /\ \A i \in 1..Len(s) : s[i] \in Mail
    OBVIOUS
  <1>2. \A m \in Mail : m.n \in Nat /\ m.to \in MailAgents \cup {Everyone}
    BY DEF Mail
  <1> QED BY <1>1, <1>2

LEMMA BoxFacts ==
    ASSUME NEW s \in Seq(Entry)
    PROVE  /\ DOMAIN s = 1..Len(s) /\ Len(s) \in Nat
           /\ \A i \in 1..Len(s) : s[i] \in Entry /\ s[i].mail \in Mail /\ s[i].mail.n \in Nat
  <1>1. /\ DOMAIN s = 1..Len(s) /\ Len(s) \in Nat
        /\ \A i \in 1..Len(s) : s[i] \in Entry
    OBVIOUS
  <1>2. \A e \in Entry : e.mail \in Mail
    BY DEF Entry
  <1>3. \A m \in Mail : m.n \in Nat
    BY DEF Mail
  <1> QED BY <1>1, <1>2, <1>3

\* Where the elements of a concatenation are from.
LEMMA ConcatPlaces ==
    ASSUME NEW S, NEW s \in Seq(S), NEW t \in Seq(S)
    PROVE  /\ s \o t \in Seq(S) /\ DOMAIN (s \o t) = 1..Len(s \o t) /\ Len(s \o t) \in Nat
           /\ \A i \in 1..Len(s) : i \in 1..Len(s \o t) /\ (s \o t)[i] = s[i]
           /\ \A k \in 1..Len(t) : Len(s) + k \in 1..Len(s \o t) /\ (s \o t)[Len(s) + k] = t[k]
           /\ \A i \in 1..Len(s \o t) : i \in 1..Len(s) \/ \E k \in 1..Len(t) : (s \o t)[i] = t[k]
  <1>1. /\ s \o t \in Seq(S) /\ Len(s \o t) = Len(s) + Len(t) /\ Len(s) \in Nat /\ Len(t) \in Nat
    OBVIOUS
  <1>2. \A i \in 1..(Len(s) + Len(t)) : (s \o t)[i] = IF i <= Len(s) THEN s[i] ELSE t[i - Len(s)]
    OBVIOUS
  <1>3. \A i \in 1..Len(s) : i \in 1..Len(s \o t) /\ (s \o t)[i] = s[i]
    BY <1>1, <1>2
  <1>4. ASSUME NEW k \in 1..Len(t)
        PROVE  Len(s) + k \in 1..Len(s \o t) /\ (s \o t)[Len(s) + k] = t[k]
    <2>1. Len(s) + k \in 1..(Len(s) + Len(t)) /\ ~(Len(s) + k <= Len(s)) /\ (Len(s) + k) - Len(s) = k
      BY <1>1
    <2> QED BY <1>1, <1>2, <2>1
  <1>5. ASSUME NEW i \in 1..Len(s \o t)
        PROVE  i \in 1..Len(s) \/ \E k \in 1..Len(t) : (s \o t)[i] = t[k]
    <2>1. i \in 1..(Len(s) + Len(t)) /\ (i \in 1..Len(s) \/ (~(i <= Len(s)) /\ i - Len(s) \in 1..Len(t)))
      BY <1>1
    <2> QED BY <1>2, <2>1
  <1>6. DOMAIN (s \o t) = 1..Len(s \o t) /\ Len(s \o t) \in Nat
    BY <1>1
  <1> QED BY <1>1, <1>3, <1>4, <1>5, <1>6

LEMMA ConcatRises ==
    ASSUME NEW s \in Seq(Mail), NEW t \in Seq(Mail), Rises(s), Rises(t),
           \A i \in 1..Len(s), j \in 1..Len(t) : s[i].n < t[j].n
    PROVE  s \o t \in Seq(Mail) /\ Rises(s \o t)
  <1>1. /\ s \o t \in Seq(Mail) /\ Len(s \o t) = Len(s) + Len(t) /\ Len(s) \in Nat /\ Len(t) \in Nat
        /\ \A i \in 1..Len(s) : (s \o t)[i] = s[i]
        /\ \A i \in 1..(Len(s) + Len(t)) : i > Len(s) => i - Len(s) \in 1..Len(t) /\ (s \o t)[i] = t[i - Len(s)]
    OBVIOUS
  <1>2. ASSUME NEW i \in 1..(Len(s) + Len(t)), NEW j \in 1..(Len(s) + Len(t)), i < j
        PROVE  (s \o t)[i].n < (s \o t)[j].n
    <2>1. CASE j <= Len(s)
      <3>1. i \in 1..Len(s) /\ j \in 1..Len(s)
        BY <1>1, <1>2, <2>1
      <3> QED BY <1>1, <1>2, <3>1 DEF Rises
    <2>2. CASE i > Len(s)
      <3>1. j > Len(s) /\ i - Len(s) < j - Len(s)
        BY <1>1, <1>2, <2>2
      <3> QED BY <1>1, <2>2, <3>1 DEF Rises
    <2>3. CASE i <= Len(s) /\ j > Len(s)
      <3>1. i \in 1..Len(s)
        BY <1>1, <2>3
      <3> QED BY <1>1, <2>3, <3>1
    <2> QED BY <1>1, <2>1, <2>2, <2>3
  <1> QED BY <1>1, <1>2 DEF Rises

LEMMA ConcatBoxRises ==
    ASSUME NEW s \in Seq(Entry), NEW t \in Seq(Entry), BoxRises(s), BoxRises(t),
           \A i \in 1..Len(s), j \in 1..Len(t) : s[i].mail.n < t[j].mail.n
    PROVE  s \o t \in Seq(Entry) /\ BoxRises(s \o t)
  <1>1. /\ s \o t \in Seq(Entry) /\ Len(s \o t) = Len(s) + Len(t) /\ Len(s) \in Nat /\ Len(t) \in Nat
        /\ \A i \in 1..Len(s) : (s \o t)[i] = s[i]
        /\ \A i \in 1..(Len(s) + Len(t)) : i > Len(s) => i - Len(s) \in 1..Len(t) /\ (s \o t)[i] = t[i - Len(s)]
    OBVIOUS
  <1>2. ASSUME NEW i \in 1..(Len(s) + Len(t)), NEW j \in 1..(Len(s) + Len(t)), i < j
        PROVE  (s \o t)[i].mail.n < (s \o t)[j].mail.n
    <2>1. CASE j <= Len(s)
      <3>1. i \in 1..Len(s) /\ j \in 1..Len(s)
        BY <1>1, <1>2, <2>1
      <3> QED BY <1>1, <1>2, <3>1 DEF BoxRises
    <2>2. CASE i > Len(s)
      <3>1. j > Len(s) /\ i - Len(s) < j - Len(s)
        BY <1>1, <1>2, <2>2
      <3> QED BY <1>1, <2>2, <3>1 DEF BoxRises
    <2>3. CASE i <= Len(s) /\ j > Len(s)
      <3>1. i \in 1..Len(s)
        BY <1>1, <2>3
      <3> QED BY <1>1, <2>3, <3>1
    <2> QED BY <1>1, <2>1, <2>2, <2>3
  <1> QED BY <1>1, <1>2 DEF BoxRises

LEMMA SaveKinds ==
    /\ NoSave \notin Snapshots /\ TornSave \notin Snapshots
    /\ \A x \in Snapshots \cup {NoSave, TornSave} : x.kind = "whole" => x \in Snapshots
  <1>1. NoSave.kind = "none" /\ TornSave.kind = "torn" /\ \A x \in Snapshots : x.kind = "whole"
    BY DEF NoSave, TornSave, Snapshots
  <1> QED BY <1>1

LEMMA SaveStays ==
    ASSUME MailInv, UNCHANGED mailSave, sentMails' \in Nat, sentMails <= sentMails'
    PROVE  SaveOrder'
  <1> SUFFICES ASSUME mailSave \in Snapshots
               PROVE  /\ QueueOrder(mailSave.outgoing)'
                      /\ \A a \in MailAgents :
                            /\ BoxOrder(mailSave.outgoing, mailSave.inbox[a])'
                            /\ ShownOrder(mailSave.outgoing, mailSave.inbox[a], mailSave.seen[a])'
    BY DEF MailInv, SaveOrder
  <1> DEFINE out == mailSave.outgoing
  <1>1. sentMails \in Nat /\ out \in Seq(Mail) /\ QueueOrder(out)
    BY DEF MailInv, MailTypes, SaveOrder, Snapshots
  <1>2. \A x \in Nat : x <= sentMails => x <= sentMails'
    BY <1>1
  <1>3. QueueOrder(out)'
    BY <1>1, <1>2, MailFacts DEF QueueOrder
  <1>4. ASSUME NEW a \in MailAgents
        PROVE  /\ BoxOrder(out, mailSave.inbox[a])'
               /\ ShownOrder(out, mailSave.inbox[a], mailSave.seen[a])'
    <2> DEFINE box == mailSave.inbox[a]
               seen == mailSave.seen[a]
    <2>1. /\ box \in Seq(Entry) /\ seen \in Seq(Mail)
          /\ BoxOrder(out, box) /\ ShownOrder(out, box, seen)
      BY DEF MailInv, SaveOrder, Snapshots
    <2>2. /\ \A i \in 1..Len(box) : box[i].mail.n <= sentMails'
          /\ \A i \in 1..Len(seen) : seen[i].n <= sentMails'
      BY <1>2, <2>1, MailFacts, BoxFacts DEF BoxOrder, ShownOrder
    <2> QED BY <2>1, <2>2 DEF BoxOrder, ShownOrder
  <1> QED BY <1>3, <1>4

\* While the host is down a mail that is not lost is on disk.
LEMMA OnDisk ==
    ASSUME MailInv, ~up, NEW n \in 1..sentMails
    PROVE  InSave(n) \/ n \in lostMail
  <1>1. outgoing = <<>> /\ pendingMail = <<>> /\ inbox = NoInbox
    BY DEF MailInv, DownEmpty
  <1>2. ~Waits(n) /\ ~Broadcast(n) /\ ~Arrived(n)
    BY <1>1 DEF Waits, Broadcast, Arrived, NoInbox
  <1> QED BY <1>2 DEF MailInv, Somewhere

LEMMA MailInvInit == MailInit => MailInv
  <1> SUFFICES ASSUME MailInit PROVE MailInv
    OBVIOUS
  <1>1. /\ MailTypes /\ outgoing = <<>> /\ sentMails = 0
        /\ \A a \in MailAgents : inbox[a] = <<>> /\ shown[a] = <<>>
    BY DEF MailInit, MailTypes, NoInbox
  <1>2. \A i \in 1..Len(<<>>) : FALSE
    OBVIOUS
  <1>3. QueueOrder(outgoing) /\ \A a \in MailAgents : BoxOrder(outgoing, inbox[a]) /\ ShownOrder(outgoing, inbox[a], shown[a])
    BY <1>1, <1>2 DEF QueueOrder, BoxOrder, ShownOrder, Rises, BoxRises
  <1>4. Somewhere
    BY <1>1 DEF Somewhere
  <1>5. SaveOrder /\ DownEmpty
    BY SaveKinds DEF MailInit, SaveOrder, DownEmpty
  <1> QED BY <1>1, <1>3, <1>4, <1>5 DEF MailInv

\* What is queued for a, in order and behind the inbox of a.
Incoming(a) == [i \in DOMAIN Delivered(a) |-> Unread(Delivered(a)[i])]

LEMMA DeliveredFacts ==
    ASSUME MailInv, NEW a
    PROVE  /\ Delivered(a) \in Seq(Mail) /\ Rises(Delivered(a))
           /\ \A k \in 1..Len(Delivered(a)) : \E i \in 1..Len(outgoing) : Delivered(a)[k] = outgoing[i]
           /\ \A i \in 1..Len(outgoing) : outgoing[i].to = a =>
                 \E k \in 1..Len(Delivered(a)) : Delivered(a)[k] = outgoing[i]
  <1> DEFINE P == {i \in DOMAIN outgoing : outgoing[i].to = a}
             r == Delivered(a)
  <1>1. outgoing \in Seq(Mail) /\ DOMAIN outgoing = 1..Len(outgoing) /\ Rises(outgoing)
    BY DEF MailInv, MailTypes, QueueOrder
  <1>2. r \in Seq(Mail) /\ PartOf(r, outgoing, P)
    BY <1>1, SelectIsPart DEF Delivered
  <1> HIDE DEF r
  <1>3. \A i \in 1..Len(outgoing) : outgoing[i].to = a => i \in P
    BY <1>1
  <1> HIDE DEF P
  <1>4. Rises(r)
    <2> SUFFICES ASSUME NEW j \in 1..Len(r), NEW k \in 1..Len(r), j < k
                 PROVE  r[j].n < r[k].n
      BY DEF Rises
    <2>1. PICK i \in 1..Len(outgoing), l \in 1..Len(outgoing) :
              i < l /\ r[j] = outgoing[i] /\ r[k] = outgoing[l]
      BY <1>2 DEF PartOf
    <2> QED BY <1>1, <2>1 DEF Rises
  <1>5. /\ \A k \in 1..Len(r) : \E i \in 1..Len(outgoing) : r[k] = outgoing[i]
        /\ \A i \in 1..Len(outgoing) : outgoing[i].to = a => \E k \in 1..Len(r) : r[k] = outgoing[i]
    BY <1>2, <1>3 DEF PartOf
  <1> QED BY <1>2, <1>4, <1>5 DEF r

LEMMA IncomingFacts ==
    ASSUME MailInv, NEW a \in MailAgents
    PROVE  /\ Incoming(a) \in Seq(Entry) /\ Len(Incoming(a)) = Len(Delivered(a))
           /\ \A k \in 1..Len(Incoming(a)) : Incoming(a)[k].mail = Delivered(a)[k]
           /\ inbox[a] \o Incoming(a) \in Seq(Entry) /\ BoxRises(inbox[a] \o Incoming(a))
  <1> DEFINE r == Delivered(a)
             t == Incoming(a)
  <1>1. /\ r \in Seq(Mail) /\ Rises(r) /\ DOMAIN r = 1..Len(r) /\ Len(r) \in Nat
        /\ \A k \in 1..Len(r) : \E i \in 1..Len(outgoing) : r[k] = outgoing[i]
    BY DeliveredFacts
  <1>2. t = [i \in 1..Len(r) |-> Unread(r[i])]
    BY <1>1 DEF Incoming
  <1> HIDE DEF r, t
  <1>3. \A i \in 1..Len(r) : Unread(r[i]) \in Entry /\ Unread(r[i]).mail = r[i]
    BY <1>1 DEF Unread, Entry
  <1>4. t \in Seq(Entry) /\ Len(t) = Len(r) /\ \A i \in 1..Len(r) : t[i] = Unread(r[i])
    BY <1>1, <1>2, <1>3
  <1>5. BoxRises(t)
    BY <1>1, <1>3, <1>4 DEF Rises, BoxRises
  <1>6. inbox[a] \in Seq(Entry) /\ BoxRises(inbox[a])
    BY DEF MailInv, MailTypes, BoxOrder
  <1>7. \A i \in 1..Len(inbox[a]), j \in 1..Len(t) : inbox[a][i].mail.n < t[j].mail.n
    BY <1>1, <1>3, <1>4 DEF MailInv, BoxOrder
  <1>8. inbox[a] \o t \in Seq(Entry) /\ BoxRises(inbox[a] \o t)
    BY <1>4, <1>5, <1>6, <1>7, ConcatBoxRises
  <1> QED BY <1>3, <1>4, <1>8 DEF r, t

LEMMA SendMailKeeps ==
    ASSUME MailInv, NEW to \in MailAgents \cup {Everyone}, NEW id \in {lastId, lastId + 1}, SendMail(to, id)
    PROVE  MailInv'
  <1> DEFINE m == [n |-> sentMails + 1, id |-> id, to |-> to]
  <1>1. /\ sentMails \in Nat /\ lastId \in Nat /\ outgoing \in Seq(Mail) /\ Len(outgoing) \in Nat
        /\ m \in Mail /\ m.n = sentMails + 1
    BY DEF MailInv, MailTypes, Mail
  <1>2. /\ sentMails' = sentMails + 1 /\ lastId' = id /\ outgoing' = Append(outgoing, m)
        /\ UNCHANGED <<pendingMail, inbox, mailSave, shown, lostMail>> /\ up'
    BY DEF SendMail
  <1> HIDE DEF m
  <1>3. /\ outgoing' \in Seq(Mail) /\ Len(outgoing') = Len(outgoing) + 1
        /\ \A i \in 1..Len(outgoing) : outgoing'[i] = outgoing[i]
        /\ outgoing'[Len(outgoing) + 1] = m
        /\ \A i \in 1..Len(outgoing') : i \in 1..Len(outgoing) \/ i = Len(outgoing) + 1
    BY <1>1, <1>2
  <1>4. MailTypes'
    BY <1>1, <1>2, <1>3 DEF MailInv, MailTypes
  <1>5. \A i \in 1..Len(outgoing) : outgoing[i].n <= sentMails /\ outgoing[i].n \in Nat
    BY <1>1, MailFacts DEF MailInv, QueueOrder
  <1>6. QueueOrder(outgoing)'
    <2>1. \A i \in 1..Len(outgoing') : outgoing'[i].n <= sentMails'
      BY <1>1, <1>2, <1>3, <1>5
    <2>2. ASSUME NEW i \in 1..Len(outgoing'), NEW j \in 1..Len(outgoing'), i < j
          PROVE  outgoing'[i].n < outgoing'[j].n
      <3>1. i \in 1..Len(outgoing)
        BY <1>1, <1>3, <2>2
      <3>2. CASE j \in 1..Len(outgoing)
        BY <1>3, <2>2, <3>1, <3>2 DEF MailInv, QueueOrder, Rises
      <3>3. CASE j = Len(outgoing) + 1
        BY <1>1, <1>3, <1>5, <3>1, <3>3
      <3> QED BY <1>3, <3>2, <3>3
    <2> QED BY <2>1, <2>2 DEF QueueOrder, Rises
  <1>7. ASSUME NEW x \in Nat, x <= sentMails, \A j \in 1..Len(outgoing) : x < outgoing[j].n
        PROVE  x <= sentMails' /\ \A j \in 1..Len(outgoing') : x < outgoing'[j].n
    BY <1>1, <1>2, <1>3, <1>7
  <1>8. ASSUME NEW a \in MailAgents PROVE BoxOrder(outgoing, inbox[a])' /\ ShownOrder(outgoing, inbox[a], shown[a])'
    <2>1. /\ \A i \in 1..Len(inbox[a]) : inbox[a][i].mail.n \in Nat
          /\ \A i \in 1..Len(shown[a]) : shown[a][i].n \in Nat
      <3>1. inbox[a] \in Seq(Entry) /\ shown[a] \in Seq(Mail)
        BY DEF MailInv, MailTypes
      <3> QED BY <3>1, MailFacts, BoxFacts
    <2>2. BoxOrder(outgoing, inbox[a]) /\ ShownOrder(outgoing, inbox[a], shown[a])
      BY DEF MailInv
    <2>3. BoxOrder(outgoing, inbox[a])'
      BY <1>2, <1>7, <2>1, <2>2 DEF BoxOrder
    <2>4. ShownOrder(outgoing, inbox[a], shown[a])'
      BY <1>2, <1>7, <2>1, <2>2 DEF ShownOrder
    <2> QED BY <2>3, <2>4
  <1>9. Somewhere'
    <2> SUFFICES ASSUME NEW n \in 1..sentMails'
                 PROVE  Waits(n)' \/ Arrived(n)' \/ n \in lostMail' \/ Broadcast(n)' \/ InSave(n)'
      BY DEF Somewhere
    <2>1. CASE n = sentMails + 1
      <3>1. Len(outgoing) + 1 \in DOMAIN outgoing' /\ outgoing'[Len(outgoing) + 1].n = n
        BY <1>1, <1>3, <2>1
      <3> QED BY <3>1 DEF Waits
    <2>2. CASE n \in 1..sentMails
      <3>1. Waits(n) \/ Arrived(n) \/ n \in lostMail \/ Broadcast(n) \/ InSave(n)
        BY <2>2 DEF MailInv, Somewhere
      <3>2. Waits(n) => Waits(n)'
        BY <1>1, <1>3 DEF Waits
      <3> QED BY <1>2, <3>1, <3>2 DEF Arrived, Broadcast, InSave
    <2> QED BY <1>1, <1>2, <2>1, <2>2
  <1>10. SaveOrder'
    BY <1>1, <1>2, SaveStays
  <1> QED BY <1>2, <1>4, <1>6, <1>8, <1>9, <1>10 DEF MailInv, DownEmpty

\* Inbox w has what inbox s had, and the mails to a of the queue out.
Took(s, w, out, a) ==
    /\ \A i \in 1..Len(s) : i \in DOMAIN w /\ w[i] = s[i]
    /\ \A i \in 1..Len(out) : out[i].to = a => \E k \in DOMAIN w : w[k].mail = out[i]
    /\ \A i \in 1..Len(w) : \/ \E k \in 1..Len(s) : w[i] = s[k]
                            \/ \E k \in 1..Len(out) : w[i].mail = out[k]

\* Sequence w has what s has, and then what t has.
Joined(w, s, t) ==
    /\ DOMAIN w = 1..Len(w)
    /\ \A i \in 1..Len(s) : i \in 1..Len(w) /\ w[i] = s[i]
    /\ \A k \in 1..Len(t) : Len(s) + k \in 1..Len(w) /\ w[Len(s) + k] = t[k]
    /\ \A i \in 1..Len(w) : i \in 1..Len(s) \/ \E k \in 1..Len(t) : w[i] = t[k]

LEMMA BoxTakes ==
    ASSUME NEW s \in Seq(Entry), NEW t \in Seq(Entry), NEW w, w = s \o t, NEW out, NEW a,
           \A k \in 1..Len(t) : \E i \in 1..Len(out) : t[k].mail = out[i],
           \A i \in 1..Len(out) : out[i].to = a => \E k \in 1..Len(t) : t[k].mail = out[i]
    PROVE  Took(s, w, out, a)
  <1>1. /\ DOMAIN w = 1..Len(w)
        /\ \A i \in 1..Len(s) : i \in 1..Len(w) /\ w[i] = s[i]
        /\ \A k \in 1..Len(t) : Len(s) + k \in 1..Len(w) /\ w[Len(s) + k] = t[k]
        /\ \A i \in 1..Len(w) : i \in 1..Len(s) \/ \E k \in 1..Len(t) : w[i] = t[k]
    <2>1. \A x \in Seq(Entry), y \in Seq(Entry) : Joined(x \o y, x, y)
      BY ConcatPlaces DEF Joined
    <2>2. Joined(w, s, t)
      BY <2>1
    <2> QED BY <2>2 DEF Joined
  <1>2. ASSUME NEW i \in 1..Len(out), out[i].to = a PROVE \E k \in DOMAIN w : w[k].mail = out[i]
    <2>1. PICK k \in 1..Len(t) : t[k].mail = out[i]
      BY <1>2
    <2>2. Len(s) + k \in DOMAIN w /\ w[Len(s) + k].mail = out[i]
      BY <1>1, <2>1
    <2> QED BY <2>2
  <1>3. ASSUME NEW i \in 1..Len(w)
        PROVE  (\E k \in 1..Len(s) : w[i] = s[k]) \/ \E k \in 1..Len(out) : w[i].mail = out[k]
    <2>1. CASE i \in 1..Len(s)
      BY <1>1, <2>1
    <2>2. CASE \E k \in 1..Len(t) : w[i] = t[k]
      BY <2>2
    <2> QED BY <1>1, <2>1, <2>2
  <1> QED BY <1>1, <1>2, <1>3 DEF Took

LEMMA ProcessKeeps ==
    ASSUME MailInv, ProcessPending
    PROVE  MailInv'
  <1>1. /\ outgoing' = <<>> /\ UNCHANGED <<mailSave, shown, lostMail, sentMails, lastId>> /\ up'
        /\ pendingMail' = pendingMail \o Delivered(Everyone)
    BY DEF ProcessPending
  <1>2. /\ pendingMail \in Seq(Mail) /\ Delivered(Everyone) \in Seq(Mail)
        /\ outgoing \in Seq(Mail) /\ sentMails \in Nat
        /\ inbox \in [MailAgents -> Seq(Entry)]
    BY DeliveredFacts DEF MailInv, MailTypes
  <1>3. \A a \in MailAgents : inbox'[a] = inbox[a] \o Incoming(a)
    <2>1. \A a \in MailAgents : DOMAIN Delivered(a) = 1..Len(Delivered(a))
      BY DeliveredFacts
    <2>2. \A a \in MailAgents :
             inbox'[a] = inbox[a] \o [i \in 1..Len(Delivered(a)) |-> Unread(Delivered(a)[i])]
      BY DEF ProcessPending
    <2> QED BY <2>1, <2>2 DEF Incoming
  <1>4. inbox' \in [MailAgents -> Seq(Entry)]
    <2>1. DOMAIN inbox' = MailAgents /\ inbox' = [a \in MailAgents |-> inbox'[a]]
      BY DEF ProcessPending
    <2>2. \A a \in MailAgents : inbox'[a] \in Seq(Entry)
      BY <1>3, IncomingFacts
    <2> QED BY <2>1, <2>2
  <1>5. pendingMail' \in Seq(Mail)
    BY <1>1, <1>2
  <1>6. MailTypes'
    <2>1. outgoing' \in Seq(Mail)
      BY <1>1
    <2> QED BY <1>1, <1>4, <1>5, <2>1 DEF MailInv, MailTypes
  <1>7. \A i \in 1..Len(outgoing') : FALSE
    BY <1>1
  <1>8. QueueOrder(outgoing)'
    BY <1>7 DEF QueueOrder, Rises
  <1>9. ASSUME NEW a \in MailAgents
        PROVE  /\ BoxOrder(outgoing, inbox[a])' /\ ShownOrder(outgoing, inbox[a], shown[a])'
               /\ \A i \in 1..Len(inbox[a]) : i \in DOMAIN inbox'[a] /\ inbox'[a][i] = inbox[a][i]
               /\ \A i \in 1..Len(outgoing) : outgoing[i].to = a =>
                     \E k \in DOMAIN inbox'[a] : inbox'[a][k].mail = outgoing[i]
    <2> DEFINE s == inbox[a]
               t == Incoming(a)
               w == inbox'[a]
    <2>1. /\ s \in Seq(Entry) /\ t \in Seq(Entry) /\ w = s \o t /\ Len(t) = Len(Delivered(a))
          /\ \A k \in 1..Len(t) : t[k].mail = Delivered(a)[k]
          /\ BoxRises(w)
      BY <1>2, <1>3, IncomingFacts
    <2>2. /\ BoxOrder(outgoing, inbox[a]) /\ ShownOrder(outgoing, inbox[a], shown[a])
          /\ \A i \in 1..Len(outgoing) : outgoing[i].n <= sentMails
      BY DEF MailInv, QueueOrder
    <2>3. /\ \A k \in 1..Len(t) : \E i \in 1..Len(outgoing) : t[k].mail = outgoing[i]
          /\ \A i \in 1..Len(outgoing) : outgoing[i].to = a => \E k \in 1..Len(t) : t[k].mail = outgoing[i]
      <3>1. /\ \A k \in 1..Len(Delivered(a)) :
                  \E i \in 1..Len(outgoing) : Delivered(a)[k] = outgoing[i]
            /\ \A i \in 1..Len(outgoing) : outgoing[i].to = a =>
                  \E k \in 1..Len(Delivered(a)) : Delivered(a)[k] = outgoing[i]
        BY DeliveredFacts
      <3> HIDE DEF t
      <3>2. \A k \in 1..Len(t) : k \in 1..Len(Delivered(a)) /\ t[k].mail = Delivered(a)[k]
        BY <2>1
      <3>3. \A k \in 1..Len(Delivered(a)) : k \in 1..Len(t)
        BY <2>1
      <3> QED BY SMTT(40), <3>1, <3>2, <3>3
    <2> HIDE DEF t
    <2>5. Took(s, w, outgoing, a)
      BY <2>1, <2>3, BoxTakes
    <2>4. /\ \A i \in 1..Len(s) : i \in DOMAIN w /\ w[i] = s[i]
          /\ \A i \in 1..Len(outgoing) : outgoing[i].to = a => \E k \in DOMAIN w : w[k].mail = outgoing[i]
          /\ \A i \in 1..Len(w) : \/ \E k \in 1..Len(s) : w[i] = s[k]
                                  \/ \E k \in 1..Len(outgoing) : w[i].mail = outgoing[k]
      BY <2>5 DEF Took
    <2>7. \A i \in 1..Len(w) : w[i].mail.n <= sentMails
      <3> TAKE i \in 1..Len(w)
      <3>1. CASE \E k \in 1..Len(s) : w[i] = s[k]
        BY <2>2, <3>1 DEF BoxOrder
      <3>2. CASE \E k \in 1..Len(outgoing) : w[i].mail = outgoing[k]
        BY <2>2, <3>2
      <3> QED BY <2>4, <3>1, <3>2
    <2>8. BoxOrder(outgoing, inbox[a])'
      BY <1>1, <1>7, <2>1, <2>7 DEF BoxOrder
    <2>9. ShownOrder(outgoing, inbox[a], shown[a])'
      <3>1. \A i \in 1..Len(shown[a]), j \in 1..Len(w) : ~w[j].read => shown[a][i].n < w[j].mail.n
        <4> TAKE i \in 1..Len(shown[a]), j \in 1..Len(w)
        <4>1. CASE \E k \in 1..Len(s) : w[j] = s[k]
          BY <2>2, <4>1 DEF ShownOrder
        <4>2. CASE \E k \in 1..Len(outgoing) : w[j].mail = outgoing[k]
          BY <2>2, <4>2 DEF ShownOrder
        <4> QED BY <2>4, <4>1, <4>2
      <3> QED BY <1>1, <1>7, <2>2, <3>1 DEF ShownOrder
    <2> QED BY <2>4, <2>8, <2>9
  <1>10. Somewhere'
    <2> SUFFICES ASSUME NEW n \in 1..sentMails
                 PROVE  Waits(n)' \/ Arrived(n)' \/ n \in lostMail' \/ Broadcast(n)' \/ InSave(n)'
      BY <1>1 DEF Somewhere
    <2>1. Waits(n) \/ Arrived(n) \/ n \in lostMail \/ Broadcast(n) \/ InSave(n)
      BY DEF MailInv, Somewhere
    <2>2. CASE Arrived(n)
      <3>1. PICK a \in MailAgents : \E i \in DOMAIN inbox[a] : inbox[a][i].mail.n = n
        BY <2>2 DEF Arrived
      <3>2. PICK i \in 1..Len(inbox[a]) : inbox[a][i].mail.n = n
        BY <1>2, <3>1
      <3>3. i \in DOMAIN inbox'[a] /\ inbox'[a][i].mail.n = n
        BY <1>9, <3>2
      <3> QED BY <3>3 DEF Arrived
    <2>3. CASE Waits(n)
      <3>1. PICK i \in 1..Len(outgoing) : outgoing[i].n = n
        BY <1>2, <2>3 DEF Waits
      <3>2. outgoing[i].to \in MailAgents \cup {Everyone}
        BY <1>2, MailFacts
      <3>3. CASE outgoing[i].to \in MailAgents
        <4>1. PICK a \in MailAgents : outgoing[i].to = a
          BY <3>3
        <4>2. \E k \in DOMAIN inbox'[a] : inbox'[a][k].mail = outgoing[i]
          BY <1>9, <4>1
        <4> QED BY <3>1, <4>2 DEF Arrived
      <3>4. CASE outgoing[i].to = Everyone
        <4>1. PICK k \in 1..Len(Delivered(Everyone)) : Delivered(Everyone)[k] = outgoing[i]
          BY <3>4, DeliveredFacts
        <4>2. /\ Len(pendingMail) + k \in DOMAIN pendingMail'
              /\ pendingMail'[Len(pendingMail) + k] = Delivered(Everyone)[k]
          BY <1>1, <1>2
        <4> QED BY <3>1, <4>1, <4>2 DEF Broadcast
      <3> QED BY <3>2, <3>3, <3>4
    <2>4. CASE n \in lostMail
      BY <1>1, <2>4
    <2>5. CASE Broadcast(n)
      <3>1. PICK i \in 1..Len(pendingMail) : pendingMail[i].n = n
        BY <1>2, <2>5 DEF Broadcast
      <3>2. i \in DOMAIN pendingMail' /\ pendingMail'[i] = pendingMail[i]
        BY <1>1, <1>2
      <3> QED BY <3>1, <3>2 DEF Broadcast
    <2> QED BY <1>1, <2>1, <2>2, <2>3, <2>4, <2>5 DEF InSave
  <1>11. SaveOrder'
    BY <1>1, <1>2, SaveStays
  <1> QED BY <1>1, <1>6, <1>8, <1>9, <1>10, <1>11 DEF MailInv, DownEmpty

\* Some entries of the inboxes are marked as read; a may be shown the unread.
LEMMA ReadingKeeps ==
    ASSUME MailInv, UNCHANGED <<outgoing, pendingMail, mailSave, lostMail, sentMails, lastId>>,
           DownEmpty',
           inbox' \in [MailAgents -> Seq(Entry)],
           \A a \in MailAgents :
              /\ Len(inbox'[a]) = Len(inbox[a])
              /\ \A i \in 1..Len(inbox[a]) : /\ inbox'[a][i].mail = inbox[a][i].mail
                                             /\ inbox[a][i].read => inbox'[a][i].read,
           shown' \in [MailAgents -> Seq(Mail)],
           \A a \in MailAgents : shown'[a] = shown[a] \/ ShownOrder(outgoing, inbox[a], shown[a])'
    PROVE  MailInv'
  <1>1. MailTypes'
    <2>1. outgoing' \in Seq(Mail) /\ pendingMail' \in Seq(Mail) /\ sentMails' \in Nat /\ lastId' \in Nat
      BY DEF MailInv, MailTypes
    <2> QED BY <2>1 DEF MailTypes
  <1>2. QueueOrder(outgoing)'
    BY DEF MailInv, QueueOrder
  <1>3. ASSUME NEW a \in MailAgents PROVE BoxOrder(outgoing, inbox[a])' /\ ShownOrder(outgoing, inbox[a], shown[a])'
    <2>1. BoxOrder(outgoing, inbox[a]) /\ ShownOrder(outgoing, inbox[a], shown[a])
      BY DEF MailInv
    <2>2. BoxOrder(outgoing, inbox[a])'
      BY <2>1 DEF BoxOrder, BoxRises
    <2>3. CASE shown'[a] = shown[a]
      BY <2>1, <2>2, <2>3 DEF ShownOrder
    <2> QED BY <2>2, <2>3
  <1>4. Somewhere'
    <2> SUFFICES ASSUME NEW n \in 1..sentMails
                 PROVE  Waits(n)' \/ Arrived(n)' \/ n \in lostMail' \/ Broadcast(n)' \/ InSave(n)'
      BY DEF Somewhere
    <2>1. Waits(n) \/ Arrived(n) \/ n \in lostMail \/ Broadcast(n) \/ InSave(n)
      BY DEF MailInv, Somewhere
    <2>2. CASE Arrived(n)
      <3>1. PICK a \in MailAgents : \E i \in DOMAIN inbox[a] : inbox[a][i].mail.n = n
        BY <2>2 DEF Arrived
      <3>2. inbox[a] \in Seq(Entry) /\ inbox'[a] \in Seq(Entry)
        BY DEF MailInv, MailTypes
      <3>3. PICK i \in 1..Len(inbox[a]) : inbox[a][i].mail.n = n
        BY <3>1, <3>2
      <3>4. i \in DOMAIN inbox'[a] /\ inbox'[a][i].mail.n = n
        BY <3>2, <3>3
      <3> QED BY <3>4 DEF Arrived
    <2> QED BY <2>1, <2>2 DEF Waits, Broadcast, InSave
  <1>5. SaveOrder'
    BY SaveStays DEF MailInv, MailTypes
  <1> QED BY <1>1, <1>2, <1>3, <1>4, <1>5 DEF MailInv

LEMMA MarkReadKeeps ==
    ASSUME MailInv, NEW a \in MailAgents, NEW p \in DOMAIN inbox[a], MarkRead(a, p)
    PROVE  MailInv'
  <1>1. PICK first : inbox' = [inbox EXCEPT ![a][first].read = TRUE]
    BY DEF MarkRead
  <1>2. /\ UNCHANGED <<outgoing, pendingMail, mailSave, lostMail, sentMails, lastId>>
        /\ shown' = shown /\ DownEmpty'
    BY DEF MarkRead, DownEmpty
  <1>3. /\ inbox \in [MailAgents -> Seq(Entry)] /\ shown \in [MailAgents -> Seq(Mail)]
        /\ inbox[a] \in Seq(Entry) /\ DOMAIN inbox[a] = 1..Len(inbox[a]) /\ Len(inbox[a]) \in Nat
        /\ \A i \in 1..Len(inbox[a]) : inbox[a][i] \in Entry
    BY DEF MailInv, MailTypes
  <1> DEFINE w == [inbox[a] EXCEPT ![first] = [inbox[a][first] EXCEPT !.read = TRUE]]
  <1>4. inbox' = [inbox EXCEPT ![a] = w]
    BY <1>1
  <1>5. \A e \in Entry : /\ [e EXCEPT !.read = TRUE] \in Entry
                         /\ [e EXCEPT !.read = TRUE].mail = e.mail
                         /\ [e EXCEPT !.read = TRUE].read
    BY DEF Entry
  <1>6. /\ w = [i \in 1..Len(inbox[a]) |-> w[i]]
        /\ \A i \in 1..Len(inbox[a]) : w[i] = IF i = first THEN [inbox[a][i] EXCEPT !.read = TRUE]
                                              ELSE inbox[a][i]
    BY <1>3
  <1> HIDE DEF w
  <1>7. \A i \in 1..Len(inbox[a]) : /\ w[i] \in Entry /\ w[i].mail = inbox[a][i].mail
                                    /\ inbox[a][i].read => w[i].read
    BY <1>3, <1>5, <1>6
  <1>8. w \in Seq(Entry) /\ Len(w) = Len(inbox[a])
    BY <1>3, <1>6, <1>7
  <1>9. inbox' \in [MailAgents -> Seq(Entry)] /\ inbox'[a] = w
        /\ \A b \in MailAgents : b # a => inbox'[b] = inbox[b]
    BY <1>3, <1>4, <1>8
  <1>10. \A b \in MailAgents :
            /\ Len(inbox'[b]) = Len(inbox[b])
            /\ \A i \in 1..Len(inbox[b]) : /\ inbox'[b][i].mail = inbox[b][i].mail
                                           /\ inbox[b][i].read => inbox'[b][i].read
    BY <1>7, <1>8, <1>9
  <1> QED BY <1>2, <1>3, <1>9, <1>10, ReadingKeeps

\* The mails a prompt shows: those that are unread, in order.
LEMMA UnreadFacts ==
    ASSUME MailInv, NEW a \in MailAgents
    PROVE  LET U == [i \in DOMAIN UnreadOf(a) |-> UnreadOf(a)[i].mail]
           IN  /\ U \in Seq(Mail) /\ Rises(U)
               /\ \A k \in 1..Len(U) : \E i \in 1..Len(inbox[a]) :
                     ~inbox[a][i].read /\ U[k] = inbox[a][i].mail
  <1> DEFINE P == {i \in DOMAIN inbox[a] : ~inbox[a][i].read}
             r == UnreadOf(a)
             U == [i \in DOMAIN r |-> r[i].mail]
  <1>1. inbox[a] \in Seq(Entry) /\ DOMAIN inbox[a] = 1..Len(inbox[a]) /\ BoxRises(inbox[a])
    BY DEF MailInv, MailTypes, BoxOrder
  <1>2. r \in Seq(Entry) /\ PartOf(r, inbox[a], P)
    BY <1>1, SelectIsPart DEF UnreadOf
  <1>3. \A i \in P : ~inbox[a][i].read
    OBVIOUS
  <1> HIDE DEF r, P
  <1>4. /\ DOMAIN r = 1..Len(r) /\ Len(r) \in Nat
        /\ \A i \in 1..Len(r) : r[i].mail \in Mail
    BY <1>2, BoxFacts
  <1>5. U \in Seq(Mail) /\ Len(U) = Len(r) /\ \A i \in 1..Len(r) : U[i] = r[i].mail
    BY <1>4
  <1> HIDE DEF U
  <1>6. Rises(U)
    <2> SUFFICES ASSUME NEW j \in 1..Len(r), NEW k \in 1..Len(r), j < k
                 PROVE  r[j].mail.n < r[k].mail.n
      BY <1>5 DEF Rises
    <2>1. PICK i \in 1..Len(inbox[a]), l \in 1..Len(inbox[a]) :
              i < l /\ r[j] = inbox[a][i] /\ r[k] = inbox[a][l]
      BY <1>2 DEF PartOf
    <2> QED BY <1>1, <2>1 DEF BoxRises
  <1>7. ASSUME NEW k \in 1..Len(U)
        PROVE  \E i \in 1..Len(inbox[a]) : ~inbox[a][i].read /\ U[k] = inbox[a][i].mail
    <2>1. PICK i \in 1..Len(inbox[a]) : i \in P /\ r[k] = inbox[a][i]
      BY <1>2, <1>5 DEF PartOf
    <2> QED BY <1>3, <1>5, <2>1
  <1> QED BY <1>5, <1>6, <1>7 DEF U, r

LEMMA PromptKeeps ==
    ASSUME MailInv, NEW a \in MailAgents, Prompt(a)
    PROVE  MailInv'
  <1> DEFINE U == [i \in DOMAIN UnreadOf(a) |-> UnreadOf(a)[i].mail]
             w == [i \in DOMAIN inbox[a] |-> [inbox[a][i] EXCEPT !.read = TRUE]]
  <1>1. /\ UNCHANGED <<outgoing, pendingMail, mailSave, lostMail, sentMails, lastId>>
        /\ DownEmpty'
        /\ inbox' = [inbox EXCEPT ![a] = w]
        /\ shown' = shown \/ shown' = [shown EXCEPT ![a] = shown[a] \o U]
    BY DEF Prompt, AllRead, DownEmpty
  <1>2. /\ inbox \in [MailAgents -> Seq(Entry)] /\ shown \in [MailAgents -> Seq(Mail)]
        /\ inbox[a] \in Seq(Entry) /\ DOMAIN inbox[a] = 1..Len(inbox[a]) /\ Len(inbox[a]) \in Nat
        /\ \A i \in 1..Len(inbox[a]) : inbox[a][i] \in Entry
    BY DEF MailInv, MailTypes
  <1>3. \A e \in Entry : /\ [e EXCEPT !.read = TRUE] \in Entry
                         /\ [e EXCEPT !.read = TRUE].mail = e.mail
                         /\ [e EXCEPT !.read = TRUE].read
    BY DEF Entry
  <1>4. /\ w \in Seq(Entry) /\ Len(w) = Len(inbox[a])
        /\ \A i \in 1..Len(inbox[a]) : w[i] = [inbox[a][i] EXCEPT !.read = TRUE]
    BY <1>2, <1>3
  <1> HIDE DEF w
  <1>5. \A i \in 1..Len(inbox[a]) : w[i].mail = inbox[a][i].mail /\ w[i].read
    <2> TAKE i \in 1..Len(inbox[a])
    <2>1. PICK e \in Entry : e = inbox[a][i]
      BY <1>2
    <2>2. w[i] = [e EXCEPT !.read = TRUE]
      BY <1>4, <2>1
    <2> QED BY <1>3, <2>1, <2>2
  <1>6. inbox' \in [MailAgents -> Seq(Entry)] /\ inbox'[a] = w
        /\ \A b \in MailAgents : b # a => inbox'[b] = inbox[b]
    BY <1>1, <1>2, <1>4
  <1>7. \A b \in MailAgents :
            /\ Len(inbox'[b]) = Len(inbox[b])
            /\ \A i \in 1..Len(inbox[b]) : /\ inbox'[b][i].mail = inbox[b][i].mail
                                           /\ inbox[b][i].read => inbox'[b][i].read
    BY <1>4, <1>5, <1>6
  <1>8. /\ U \in Seq(Mail) /\ Rises(U)
        /\ \A k \in 1..Len(U) : \E i \in 1..Len(inbox[a]) :
              ~inbox[a][i].read /\ U[k] = inbox[a][i].mail
    BY UnreadFacts
  <1> HIDE DEF U
  <1>9. BoxOrder(outgoing, inbox[a]) /\ ShownOrder(outgoing, inbox[a], shown[a]) /\ shown[a] \in Seq(Mail)
    BY <1>2 DEF MailInv
  <1>10. shown[a] \o U \in Seq(Mail) /\ Rises(shown[a] \o U)
    <2>1. ASSUME NEW i \in 1..Len(shown[a]), NEW k \in 1..Len(U) PROVE shown[a][i].n < U[k].n
      BY <1>8, <1>9 DEF ShownOrder
    <2>2. Rises(shown[a])
      BY <1>9 DEF ShownOrder
    <2> QED BY <1>8, <1>9, <2>1, <2>2, ConcatRises
  <1>11. ASSUME NEW i \in 1..Len(shown[a] \o U)
         PROVE  /\ (shown[a] \o U)[i].n <= sentMails
                /\ \A j \in 1..Len(outgoing) : (shown[a] \o U)[i].n < outgoing[j].n
    <2>1. (i \in 1..Len(shown[a]) /\ (shown[a] \o U)[i] = shown[a][i])
            \/ \E k \in 1..Len(U) : (shown[a] \o U)[i] = U[k]
      <3>1. shown[a] \in Seq(Mail) /\ U \in Seq(Mail)
        BY <1>8, <1>9
      <3>2. \A x \in Seq(Mail), y \in Seq(Mail) :
              /\ \A l \in 1..Len(x) : (x \o y)[l] = x[l]
              /\ \A l \in 1..Len(x \o y) : l \in 1..Len(x) \/ \E k \in 1..Len(y) : (x \o y)[l] = y[k]
        BY ConcatPlaces
      <3>3. /\ \A l \in 1..Len(shown[a]) : (shown[a] \o U)[l] = shown[a][l]
            /\ \A l \in 1..Len(shown[a] \o U) :
                  l \in 1..Len(shown[a]) \/ \E k \in 1..Len(U) : (shown[a] \o U)[l] = U[k]
        BY <3>1, <3>2
      <3> QED BY <3>3
    <2>2. CASE i \in 1..Len(shown[a]) /\ (shown[a] \o U)[i] = shown[a][i]
      BY <1>9, <2>2 DEF ShownOrder
    <2>3. CASE \E k \in 1..Len(U) : (shown[a] \o U)[i] = U[k]
      <3>1. PICK k \in 1..Len(U) : (shown[a] \o U)[i] = U[k]
        BY <2>3
      <3>2. PICK l \in 1..Len(inbox[a]) : U[k] = inbox[a][l].mail
        BY <1>8
      <3> QED BY <1>9, <3>1, <3>2 DEF BoxOrder
    <2> QED BY <2>1, <2>2, <2>3
  <1>12. CASE shown' = shown
    BY <1>1, <1>2, <1>6, <1>7, <1>12, ReadingKeeps
  <1>13. CASE shown' = [shown EXCEPT ![a] = shown[a] \o U]
    <2>1. /\ shown' \in [MailAgents -> Seq(Mail)] /\ shown'[a] = shown[a] \o U
          /\ \A b \in MailAgents : b # a => shown'[b] = shown[b]
      BY <1>2, <1>10, <1>13
    <2>2. \A j \in 1..Len(inbox'[a]) : inbox'[a][j].read
      BY <1>4, <1>5, <1>6
    <2>3. ShownOrder(outgoing, inbox[a], shown[a])'
      BY <1>1, <1>10, <1>11, <2>1, <2>2 DEF ShownOrder
    <2>4. \A b \in MailAgents : shown'[b] = shown[b] \/ ShownOrder(outgoing, inbox[b], shown[b])'
      BY <2>1, <2>3
    <2> QED BY <1>1, <1>6, <1>7, <2>1, <2>4, ReadingKeeps
  <1> QED BY <1>1, <1>12, <1>13

\* Shutdown and crash: nothing is in memory any more, and what is saved is in order.
LEMMA DownKeeps ==
    ASSUME MailInv, GoesDown, SaveOrder',
           \A n \in 1..sentMails : n \in lostMail' \/ InSave(n)'
    PROVE  MailInv'
  <1>1. /\ outgoing' = <<>> /\ pendingMail' = <<>> /\ UNCHANGED <<shown, sentMails, lastId>>
        /\ inbox' = [a \in MailAgents |-> <<>>]
    BY DEF GoesDown, NoInbox
  <1>2. /\ \A i \in 1..Len(outgoing') : FALSE
        /\ \A a \in MailAgents : \A i \in 1..Len(inbox'[a]) : FALSE
    BY <1>1
  <1>3. MailTypes'
    BY <1>1 DEF MailInv, MailTypes
  <1>4. QueueOrder(outgoing)'
    BY <1>2 DEF QueueOrder, Rises
  <1>5. ASSUME NEW a \in MailAgents
        PROVE  BoxOrder(outgoing, inbox[a])' /\ ShownOrder(outgoing, inbox[a], shown[a])'
    <2>1. ShownOrder(outgoing, inbox[a], shown[a])
      BY DEF MailInv
    <2>2. BoxOrder(outgoing, inbox[a])'
      BY <1>2 DEF BoxOrder, BoxRises
    <2>3. ShownOrder(outgoing, inbox[a], shown[a])'
      BY <1>1, <1>2, <2>1 DEF ShownOrder
    <2> QED BY <2>2, <2>3
  <1>6. Somewhere'
    BY <1>1 DEF Somewhere
  <1>7. DownEmpty'
    BY <1>1 DEF DownEmpty, NoInbox
  <1> QED BY <1>3, <1>4, <1>5, <1>6, <1>7 DEF MailInv

\* A shutdown saves the mailbox, or of the daemon's the broadcasts.
LEMMA ShutDownKeeps ==
    ASSUME MailInv, ShutDownHost
    PROVE  MailInv'
  <1> DEFINE out == IF host = "daemon" THEN <<>> ELSE outgoing
             box == IF host = "daemon" THEN NoInbox ELSE inbox
  <1>1. /\ mailSave' = [kind |-> "whole", outgoing |-> out, pendingMail |-> pendingMail,
                       inbox |-> box, seen |-> shown]
        /\ UNCHANGED sentMails /\ GoesDown
        /\ lostMail' = lostMail \cup {n \in 1..sentMails : InSave(n)}
                \cup {n \in 1..sentMails : host = "daemon" /\ (Waits(n) \/ Arrived(n))}
    BY DEF ShutDownHost, GoesDown, Snapshot
  <1>2. /\ out \in Seq(Mail) /\ box \in [MailAgents -> Seq(Entry)]
        /\ pendingMail \in Seq(Mail) /\ shown \in [MailAgents -> Seq(Mail)]
    BY DEF MailInv, MailTypes, NoInbox
  <1>3. QueueOrder(out)
    <2>1. CASE host = "daemon"
      <3>1. \A i \in 1..Len(out) : FALSE
        BY <2>1
      <3> QED BY <3>1 DEF QueueOrder, Rises
    <2>2. CASE host # "daemon"
      BY <2>2 DEF MailInv
    <2> QED BY <2>1, <2>2
  <1>4. ASSUME NEW a \in MailAgents
        PROVE  BoxOrder(out, box[a]) /\ ShownOrder(out, box[a], shown[a])
    <2>1. BoxOrder(outgoing, inbox[a]) /\ ShownOrder(outgoing, inbox[a], shown[a])
      BY DEF MailInv
    <2>2. CASE host = "daemon"
      <3>1. (\A i \in 1..Len(out) : FALSE) /\ (\A i \in 1..Len(box[a]) : FALSE)
        BY <2>2 DEF NoInbox
      <3> QED BY <2>1, <3>1 DEF BoxOrder, BoxRises, ShownOrder
    <2>3. CASE host # "daemon"
      BY <2>1, <2>3
    <2> QED BY <2>2, <2>3
  <1> HIDE DEF out, box
  <1>5. /\ mailSave' \in Snapshots
        /\ mailSave'.outgoing = out /\ mailSave'.inbox = box /\ mailSave'.seen = shown
        /\ mailSave'.pendingMail = pendingMail /\ mailSave'.kind = "whole"
    BY <1>1, <1>2 DEF Snapshots
  <1>6. SaveOrder'
    BY <1>1, <1>3, <1>4, <1>5 DEF SaveOrder, QueueOrder, BoxOrder, ShownOrder
  <1>7. ASSUME NEW n \in 1..sentMails PROVE n \in lostMail' \/ InSave(n)'
    <2>1. Waits(n) \/ Arrived(n) \/ n \in lostMail \/ Broadcast(n) \/ InSave(n)
      BY DEF MailInv, Somewhere
    <2>2. CASE Broadcast(n)
      BY <1>5, <2>2 DEF InSave, Broadcast
    <2>3. CASE host = "daemon"
      BY <1>1, <2>1, <2>2, <2>3
    <2>4. CASE host # "daemon" /\ (Waits(n) \/ Arrived(n))
      BY <1>5, <2>4 DEF InSave, Waits, Arrived, out, box
    <2> QED BY <1>1, <2>1, <2>2, <2>3, <2>4
  <1> QED BY <1>1, <1>6, <1>7, DownKeeps

LEMMA CrashKeeps ==
    ASSUME MailInv, CrashHost
    PROVE  MailInv'
  <1>1. GoesDown /\ UNCHANGED sentMails
    BY DEF CrashHost, GoesDown
  <1>2. SaveOrder'
    <2>1. CASE mailSave' = mailSave
      BY <1>1, <2>1 DEF MailInv, SaveOrder, QueueOrder, BoxOrder, ShownOrder
    <2>2. CASE mailSave' = TornSave
      BY <2>2, SaveKinds DEF SaveOrder
    <2> QED BY <2>1, <2>2 DEF CrashHost
  <1>3. \A n \in 1..sentMails : n \in lostMail' \/ InSave(n)'
    <2> TAKE n \in 1..sentMails
    <2>1. Waits(n) \/ Arrived(n) \/ n \in lostMail \/ Broadcast(n) \/ InSave(n)
      BY DEF MailInv, Somewhere
    <2>2. CASE mailSave' = mailSave /\ lostMail' = lostMail \cup {m \in 1..sentMails : StillHeld(m)}
      BY <2>1, <2>2 DEF StillHeld, InSave
    <2>3. CASE lostMail' = lostMail \cup {m \in 1..sentMails : StillHeld(m) \/ InSave(m)}
      BY <2>1, <2>3 DEF StillHeld
    <2> QED BY <2>2, <2>3 DEF CrashHost
  <1> QED BY <1>1, <1>2, <1>3, DownKeeps

LEMMA ResumeHostKeeps ==
    ASSUME MailInv, ResumeHost
    PROVE  MailInv'
  <1>1. /\ outgoing' = mailSave.outgoing /\ pendingMail' = mailSave.pendingMail
        /\ inbox' = mailSave.inbox /\ shown' = mailSave.seen /\ mailSave' = NoSave
        /\ UNCHANGED <<lostMail, sentMails, lastId>> /\ mailSave.kind = "whole" /\ up'
    BY DEF ResumeHost
  <1>2. mailSave \in Snapshots
    BY <1>1, SaveKinds DEF MailInv, SaveOrder
  <1>3. MailTypes'
    BY <1>1, <1>2 DEF MailInv, MailTypes, Snapshots
  <1>4. QueueOrder(outgoing)'
    BY <1>1, <1>2 DEF MailInv, SaveOrder, QueueOrder
  <1>5. ASSUME NEW a \in MailAgents
        PROVE  BoxOrder(outgoing, inbox[a])' /\ ShownOrder(outgoing, inbox[a], shown[a])'
    BY <1>1, <1>2 DEF MailInv, SaveOrder, BoxOrder, ShownOrder
  <1>6. SaveOrder'
    BY <1>1, SaveKinds DEF SaveOrder
  <1>7. Somewhere'
    <2> SUFFICES ASSUME NEW n \in 1..sentMails
                 PROVE  Waits(n)' \/ Arrived(n)' \/ n \in lostMail' \/ Broadcast(n)'
      BY <1>1 DEF Somewhere
    <2>1. InSave(n) \/ n \in lostMail
      BY OnDisk DEF ResumeHost
    <2> QED BY <1>1, <2>1 DEF InSave, Waits, Arrived, Broadcast
  <1> QED BY <1>1, <1>3, <1>4, <1>5, <1>6, <1>7 DEF MailInv, DownEmpty

LEMMA StartHostKeeps ==
    ASSUME MailInv, StartHost
    PROVE  MailInv'
  <1>1. UNCHANGED <<outgoing, pendingMail, inbox, shown, sentMails, lastId>> /\ up'
    BY DEF StartHost, mailBox
  <1>2. MailTypes' /\ QueueOrder(outgoing)'
    BY <1>1 DEF MailInv, MailTypes, QueueOrder
  <1>3. ASSUME NEW a \in MailAgents
        PROVE  BoxOrder(outgoing, inbox[a])' /\ ShownOrder(outgoing, inbox[a], shown[a])'
    BY <1>1 DEF MailInv, BoxOrder, ShownOrder
  <1>4. SaveOrder'
    <2>1. CASE mailSave' = mailSave
      BY <1>1, <2>1, SaveStays DEF MailInv, MailTypes
    <2>2. CASE mailSave' = NoSave
      BY <2>2, SaveKinds DEF SaveOrder
    <2> QED BY <2>1, <2>2 DEF StartHost
  <1>5. Somewhere'
    <2> SUFFICES ASSUME NEW n \in 1..sentMails
                 PROVE  n \in lostMail' \/ InSave(n)'
      BY <1>1 DEF Somewhere
    <2>1. InSave(n) \/ n \in lostMail
      BY OnDisk DEF StartHost
    <2>2. CASE UNCHANGED <<mailSave, lostMail>>
      BY <2>1, <2>2 DEF InSave
    <2>3. CASE lostMail' = lostMail \cup {m \in 1..sentMails : InSave(m)}
      BY <2>1, <2>3
    <2> QED BY <2>2, <2>3 DEF StartHost
  <1> QED BY <1>1, <1>2, <1>3, <1>4, <1>5 DEF MailInv, DownEmpty

LEMMA MailInvStep == MailInv /\ [MailNext]_mailVars => MailInv'
  <1> SUFFICES ASSUME MailInv, [MailNext]_mailVars PROVE MailInv'
    OBVIOUS
  <1>1. CASE UNCHANGED mailVars
    <2>1. /\ UNCHANGED <<outgoing, pendingMail, inbox, mailSave, shown, lostMail, sentMails, lastId>>
          /\ DownEmpty'
      BY <1>1 DEF mailVars, mailBox, MailInv, DownEmpty
    <2>2. inbox' \in [MailAgents -> Seq(Entry)] /\ shown' \in [MailAgents -> Seq(Mail)]
      BY <2>1 DEF MailInv, MailTypes
    <2> QED BY <2>1, <2>2, ReadingKeeps
  <1> QED BY <1>1, SendMailKeeps, ProcessKeeps, PromptKeeps, MarkReadKeeps,
             ShutDownKeeps, CrashKeeps, ResumeHostKeeps, StartHostKeeps DEF MailNext

\* For every host and every set of agents: mail comes to the inbox in the order in which it
\* was sent, no prompt shows one twice or out of order in a run and in those it was resumed
\* from, and a mail that was sent is in the mailbox or in the snapshot unless a crash, a
\* save or a start gave it up (process_pending, unread_mail_for_agent, mark_read,
\* create_resume_snapshot, restore_from_resume_snapshot).
THEOREM MailStaysInOrder == MailSpec => []MailInOrder
  <1>1. MailInv => MailInOrder
    <2> SUFFICES ASSUME MailInv PROVE MailInOrder
      OBVIOUS
    <2>1. ASSUME NEW a \in MailAgents
          PROVE  /\ Ascending(inbox[a] \o Incoming(a), LAMBDA e : e.mail.n)
                 /\ Ascending(shown[a], LAMBDA m : m.n)
      <3>1. inbox[a] \o Incoming(a) \in Seq(Entry) /\ BoxRises(inbox[a] \o Incoming(a))
        BY IncomingFacts
      <3>2. shown[a] \in Seq(Mail) /\ Rises(shown[a])
        BY DEF MailInv, MailTypes, ShownOrder
      <3>3. Ascending(inbox[a] \o Incoming(a), LAMBDA e : e.mail.n)
        BY <3>1, BoxFacts DEF Ascending, BoxRises
      <3>4. Ascending(shown[a], LAMBDA m : m.n)
        BY <3>2, MailFacts DEF Ascending, Rises
      <3> QED BY <3>3, <3>4
    <2>2. \A n \in 1..sentMails : Waits(n) \/ Arrived(n) \/ n \in lostMail \/ Broadcast(n) \/ InSave(n)
      BY DEF MailInv, Somewhere
    <2> QED BY <2>1, <2>2 DEF MailInOrder, Incoming, StillHeld
  <1> QED BY <1>1, MailInvInit, MailInvStep, PTL DEF MailSpec

-----------------------------------------------------------------------------
(* The loop of a single agent.  What is done stays done because the active task *)
(* of a run, and the one that the state file names for a run to come, are not: *)
(* of the run's own tasks and of those the backlog file holds.               *)
WorkStatuses == {"Ready", "InProgress", "Running", "Done", "Failed", "Blocked"}
Phases == {"Idle", "Planning", "Executing", "Escalating"}
Points == {"down", "top", "turn", "start provider", "events", "resolve", "stop",
           "save", "save session", "save bundle"}
WorkItem == [todo : Todos, status : WorkStatuses]
AgentState == [active : Nat, hadError : BOOLEAN, attempts : Nat, phase : Phases]

\* A list of todos and the tasks made of them.
Work(ts, is) == ts \in [Todos -> WorkStatuses] /\ is \in Seq(WorkItem)

LoopTypes ==
    /\ pc \in Points
    /\ source \in {"backlog", "session", "mixed"}
    /\ Work(todos, items)
    /\ agent \in AgentState
    /\ stateFile \in AgentState \cup {Torn}
    /\ Parses(backlogFile) => Work(backlogFile.todos, backlogFile.items)
    /\ Parses(sessionFile) => /\ Work(sessionFile.todos, sessionFile.items)
                              /\ sessionFile.phase \in Phases

\* A task is done only if its todo is.
DoneTogether(ts, is) ==
    \A i \in DOMAIN is : is[i].status = "Done" => ts[is[i].todo] = "Done"

\* The n-th task, if there is one, still has something to do.
Undone(ts, is, n) == n \in DOMAIN is => ts[is[n].todo] # "Done"

\* The tasks of the run continue those of the saved backlog, and what is done
\* there is done here.
Continues(saved, ts, is) ==
    /\ \A i \in DOMAIN saved.items :
          /\ i \in DOMAIN is
          /\ is[i].todo = saved.items[i].todo
          /\ saved.items[i].status = "Done" => is[i].status = "Done"
    /\ \A t \in Todos : saved.todos[t] = "Done" => ts[t] = "Done"

\* What a run has in memory.
MemoryInv ==
    source # "mixed" =>
        /\ DoneTogether(todos, items)
        /\ pc # "down" => Undone(todos, items, agent.active)
        /\ pc # "down" /\ source = "backlog" /\ Parses(backlogFile) =>
               Continues(backlogFile, todos, items)

\* What the files hold, and what the state file says of the run's own tasks.
FileInv ==
    source # "mixed" =>
        /\ stateSource \in {"backlog", "session"}
        /\ Parses(backlogFile) => DoneTogether(backlogFile.todos, backlogFile.items)
        /\ Parses(sessionFile) => DoneTogether(sessionFile.todos, sessionFile.items)
        /\ Parses(backlogFile) /\ Parses(stateFile) /\ stateSource = "backlog" =>
               Undone(backlogFile.todos, backlogFile.items, stateFile.active)
        /\ pc # "down" /\ Parses(stateFile) /\ source = "session" => stateSource = "session"
        /\ pc # "down" /\ Parses(stateFile) /\ stateSource = source =>
               Undone(todos, items, stateFile.active)

\* In a turn there is an active task, and the metadata show the agent at work.
TurnInv ==
    /\ pc \in {"turn", "start provider", "events", "resolve"} => HasActiveTask
    /\ pc \in {"start provider", "events", "resolve"} => agent.phase = "Executing"
    /\ pc \in {"top", "turn", "start provider", "events", "resolve", "stop"} =>
           metaFile = StatusOf(agent.phase)

LoopInv == LoopTypes /\ MemoryInv /\ FileInv /\ TurnInv

(* The same of the next state, as far as a write of the agent's files needs  *)
(* it; it does not matter whether the run dies in that write.                *)
MemoryNext ==
    source' # "mixed" =>
        /\ DoneTogether(todos', items')
        /\ Undone(todos', items', agent'.active)
        /\ source' = "backlog" /\ Parses(backlogFile') => Continues(backlogFile', todos', items')

FilesNext ==
    source' # "mixed" =>
        /\ stateSource \in {"backlog", "session"}
        /\ Parses(backlogFile) => DoneTogether(backlogFile.todos, backlogFile.items)
        /\ Parses(sessionFile) => DoneTogether(sessionFile.todos, sessionFile.items)
        /\ Parses(backlogFile) /\ Parses(stateFile) /\ stateSource = "backlog" =>
               Undone(backlogFile.todos, backlogFile.items, stateFile.active)

\* The state file as it is fits the run.
StateFits ==
    source' # "mixed" /\ Parses(stateFile) =>
        /\ source' = "session" => stateSource = "session"
        /\ stateSource = source' => Undone(todos', items', stateFile.active)

\* What the hook leaves behind.
Hooked(next) ==
    /\ pc' \in {next, "down"}
    /\ pc' # "down" => metaFile' = StatusOf(agent'.phase)
    /\ stateFile' \in AgentState \cup {Torn}
    /\ MemoryInv' /\ FileInv'

\* A task of the saved backlog that the agent may resume is not done there.
LEMMA SavedUndone ==
    ASSUME NEW b, NEW ts, NEW is, NEW n,
           Work(b.todos, b.items), Continues(b, ts, is), Undone(ts, is, n)
    PROVE  Undone(b.todos, b.items, n)
<1> SUFFICES ASSUME n \in DOMAIN b.items PROVE b.todos[b.items[n].todo] # "Done"
  BY DEF Undone
<1>1. b.items[n] \in WorkItem
  BY DEF Work
<1>2. b.items[n].todo \in Todos
  BY <1>1 DEF WorkItem
<1>3. n \in DOMAIN is /\ is[n].todo = b.items[n].todo
  BY DEF Continues
<1> QED
  BY <1>2, <1>3 DEF Continues, Undone

\* Writing the state: what it says of the active task is true of the backlog.
LEMMA WriteStateFits ==
    ASSUME WriteState, MemoryNext, FilesNext, UNCHANGED <<backlogFile, sessionFile>>,
           Parses(backlogFile) => Work(backlogFile.todos, backlogFile.items),
           source' \in {"backlog", "session", "mixed"}
    PROVE  FileInv'
<1> SUFFICES ASSUME source' # "mixed" PROVE FileInv'
  BY DEF FileInv
<1>1. stateFile' = agent' /\ stateSource' = source'
  BY DEF WriteState
<1>2. stateSource' = source' => Undone(todos', items', stateFile'.active)
  BY <1>1 DEF MemoryNext
<1>3. ASSUME Parses(backlogFile'), stateSource' = "backlog"
      PROVE  Undone(backlogFile'.todos, backlogFile'.items, stateFile'.active)
  <2>1. Continues(backlogFile', todos', items')
    BY <1>1, <1>3 DEF MemoryNext
  <2>2. Work(backlogFile'.todos, backlogFile'.items)
    BY <1>3
  <2> QED
    BY <2>1, <2>2, <1>2, <1>1, SavedUndone
<1>4. /\ Parses(backlogFile') => DoneTogether(backlogFile'.todos, backlogFile'.items)
      /\ Parses(sessionFile') => DoneTogether(sessionFile'.todos, sessionFile'.items)
  BY DEF FilesNext
<1> QED
  BY <1>1, <1>2, <1>3, <1>4 DEF FileInv

LEMMA BundleKeeps ==
    ASSUME NEW status, NEW next, Bundle(status, next),
           MemoryNext, FilesNext, UNCHANGED <<backlogFile, sessionFile>>,
           Parses(backlogFile) => Work(backlogFile.todos, backlogFile.items),
           source' \in {"backlog", "session", "mixed"},
           stateFile \in AgentState \cup {Torn}, agent' \in AgentState
    PROVE  /\ pc' \in {next, "down"}
           /\ pc' # "down" => metaFile' = status
           /\ stateFile' \in AgentState \cup {Torn}
           /\ MemoryInv' /\ FileInv'
<1>1. MemoryInv'
  BY DEF MemoryInv, MemoryNext
<1>2. CASE WriteState
  <2>1. FileInv'
    BY <1>2, WriteStateFits
  <2> QED
    BY <1>1, <1>2, <2>1 DEF Bundle, WriteState, Dies
<1>3. CASE ~WriteState
  <2>1. pc' = "down" /\ stateFile' \in {stateFile, Torn} /\ stateSource' = stateSource
    BY <1>3 DEF Bundle, Dies
  <2>2. FileInv'
    <3>1. Parses(stateFile') => Parses(stateFile) /\ stateFile' = stateFile
      BY <2>1 DEF Parses
    <3> QED
      BY <2>1, <3>1 DEF FileInv, FilesNext
  <2> QED
    BY <1>1, <2>1, <2>2
<1> QED
  BY <1>2, <1>3

LEMMA HookKeeps ==
    ASSUME NEW changed, NEW next, Hook(changed, next),
           MemoryNext, FilesNext, UNCHANGED <<backlogFile, sessionFile>>,
           Parses(backlogFile) => Work(backlogFile.todos, backlogFile.items),
           source' \in {"backlog", "session", "mixed"},
           stateFile \in AgentState \cup {Torn}, agent' \in AgentState,
           ~changed /\ metaFile = StatusOf(agent'.phase) => StateFits
    PROVE  Hooked(next)
<1>1. CASE changed \/ metaFile # StatusOf(agent'.phase)
  <2>1. Bundle(StatusOf(agent'.phase), next)
    BY <1>1 DEF Hook
  <2> QED
    BY <2>1, BundleKeeps DEF Hooked
<1>2. CASE ~(changed \/ metaFile # StatusOf(agent'.phase))
  <2>1. pc' = next /\ UNCHANGED <<metaFile, stateFile, stateSource>>
    BY <1>2 DEF Hook
  <2>2. MemoryInv'
    BY DEF MemoryInv, MemoryNext
  <2>3. StateFits
    BY <1>2
  <2>4. FileInv'
    BY <2>1, <2>3 DEF FileInv, FilesNext, StateFits
  <2> QED
    BY <1>2, <2>1, <2>2, <2>4 DEF Hooked
<1> QED
  BY <1>1, <1>2

-----------------------------------------------------------------------------
(* The steps of the loop.                                                    *)
\* What a run that goes on knows of the files.
LEMMA RunFacts ==
    ASSUME LoopInv, pc # "down", source' = source
    PROVE  /\ FilesNext
           /\ source' \in {"backlog", "session", "mixed"}
           /\ stateFile \in AgentState \cup {Torn}
           /\ Parses(backlogFile) => Work(backlogFile.todos, backlogFile.items)
  BY DEF LoopInv, LoopTypes, FileInv, FilesNext

\* What is left of the types when a hook has run.
LEMMA TypesKept ==
    ASSUME NEW next \in Points, LoopInv, Hooked(next),
           UNCHANGED <<backlogFile, sessionFile>>,
           source' \in {"backlog", "session", "mixed"},
           Work(todos', items'), agent' \in AgentState
    PROVE  LoopTypes'
<1>1. pc' \in Points
  BY DEF Hooked, Points
<1> QED
  BY <1>1 DEF LoopInv, LoopTypes, Hooked

\* A step of the agent alone: the tasks and the todos stay.
LEMMA AgentStepKeeps ==
    ASSUME NEW changed, NEW next \in Points, LoopInv, pc # "down",
           agent' \in AgentState, agent'.active = agent.active,
           UNCHANGED <<todos, items>>, Keep, Hook(changed, next)
    PROVE  LoopTypes' /\ Hooked(next)
<1>1. source' = source /\ UNCHANGED <<backlogFile, sessionFile>>
  BY DEF Keep
<1>2. MemoryNext
  BY <1>1 DEF LoopInv, MemoryInv, MemoryNext
<1>3. StateFits
  BY <1>1 DEF LoopInv, FileInv, StateFits
<1>4. Hooked(next)
  BY <1>1, <1>2, <1>3, RunFacts, HookKeeps
<1>5. Work(todos', items')
  BY DEF LoopInv, LoopTypes
<1> QED
  BY <1>1, <1>4, <1>5, RunFacts, TypesKept

\* A step that neither writes a file nor changes the tasks.
LEMMA QuietStepKeeps ==
    ASSUME LoopInv, pc # "down", pc' \in Points, UNCHANGED <<todos, items, files, source>>,
           agent' \in AgentState, agent'.active = agent.active
    PROVE  LoopTypes' /\ MemoryInv' /\ FileInv'
<1>1. UNCHANGED <<metaFile, stateFile, stateSource, backlogFile, sessionFile>>
  BY DEF files
<1>2. LoopTypes'
  BY <1>1 DEF LoopInv, LoopTypes
<1>3. MemoryInv'
  BY <1>1 DEF LoopInv, MemoryInv
<1>4. FileInv'
  BY <1>1 DEF LoopInv, FileInv
<1> QED
  BY <1>2, <1>3, <1>4

\* The status of the active task changes, and with it at most its own todo.
ActiveChanges(status, todo) ==
    /\ items' = [items EXCEPT ![agent.active].status = status]
    /\ todos' = [todos EXCEPT ![items[agent.active].todo] = todo]

LEMMA ActiveFacts ==
    ASSUME NEW status \in WorkStatuses, NEW todo \in WorkStatuses, LoopInv, HasActiveTask,
           ActiveChanges(status, todo)
    PROVE  /\ Work(todos', items')
           /\ items[agent.active].todo \in Todos
           /\ DOMAIN items' = DOMAIN items
           /\ \A i \in DOMAIN items :
                 /\ items'[i].todo = items[i].todo /\ items[i].todo \in Todos
                 /\ items'[i].status = IF i = agent.active THEN status ELSE items[i].status
           /\ \A t \in Todos :
                 todos'[t] = IF t = items[agent.active].todo THEN todo ELSE todos[t]
<1>1. items \in Seq(WorkItem) /\ todos \in [Todos -> WorkStatuses] /\ agent.active \in DOMAIN items
  BY DEF LoopInv, LoopTypes, Work, HasActiveTask
<1>2. items[agent.active] \in WorkItem
  BY <1>1
<1>3. [items[agent.active] EXCEPT !.status = status] \in WorkItem
  BY <1>2 DEF WorkItem
<1>4. items' = [items EXCEPT ![agent.active] = [items[agent.active] EXCEPT !.status = status]]
  BY DEF ActiveChanges
<1>5. items' \in Seq(WorkItem)
  BY <1>1, <1>3, <1>4
<1>6. items[agent.active].todo \in Todos
  BY <1>2 DEF WorkItem
<1>7. todos' \in [Todos -> WorkStatuses]
  BY <1>1, <1>6 DEF ActiveChanges
<1>8. \A t \in Todos : todos'[t] = IF t = items[agent.active].todo THEN todo ELSE todos[t]
  BY <1>1, <1>6 DEF ActiveChanges
<1>9. DOMAIN items' = DOMAIN items
  BY <1>1, <1>4
<1>10. ASSUME NEW i \in DOMAIN items
       PROVE  /\ items'[i].todo = items[i].todo /\ items[i].todo \in Todos
              /\ items'[i].status = IF i = agent.active THEN status ELSE items[i].status
  <2>1. items[i] \in WorkItem
    BY <1>1
  <2>2. items'[i] = IF i = agent.active THEN [items[agent.active] EXCEPT !.status = status]
                    ELSE items[i]
    BY <1>1, <1>4
  <2> QED
    BY <2>1, <2>2 DEF WorkItem
<1> QED
  BY <1>5, <1>6, <1>7, <1>8, <1>9, <1>10 DEF Work

\* Done work stays done, since the active task is not done before.
LEMMA ActiveChangeKeeps ==
    ASSUME NEW status \in WorkStatuses, NEW todo \in WorkStatuses, LoopInv, HasActiveTask,
           pc # "down", source' = source, source # "mixed", backlogFile' = backlogFile,
           ActiveChanges(status, todo), status = "Done" => todo = "Done"
    PROVE  /\ DoneTogether(todos', items')
           /\ source' = "backlog" /\ Parses(backlogFile') => Continues(backlogFile', todos', items')
           /\ todo # "Done" => \A n : Undone(todos, items, n) => Undone(todos', items', n)
<1> DEFINE active == agent.active
<1>1. /\ DoneTogether(todos, items)
      /\ todos[items[active].todo] # "Done"
  BY DEF LoopInv, MemoryInv, Undone, HasActiveTask
<1>2. /\ items[active].todo \in Todos
      /\ DOMAIN items' = DOMAIN items
      /\ \A i \in DOMAIN items :
            /\ items'[i].todo = items[i].todo /\ items[i].todo \in Todos
            /\ items'[i].status = IF i = active THEN status ELSE items[i].status
      /\ \A t \in Todos : todos'[t] = IF t = items[active].todo THEN todo ELSE todos[t]
  BY ActiveFacts
<1>3. active \in DOMAIN items
  BY DEF HasActiveTask
<1> HIDE DEF active
<1>4. DoneTogether(todos', items')
  BY <1>1, <1>2, <1>3 DEF DoneTogether
<1>5. ASSUME source' = "backlog", Parses(backlogFile')
      PROVE  Continues(backlogFile', todos', items')
  <2>1. Continues(backlogFile, todos, items)
    BY <1>5 DEF LoopInv, MemoryInv
  <2>2. \A t \in Todos : backlogFile.todos[t] = "Done" => todos'[t] = "Done"
    BY <2>1, <1>1, <1>2 DEF Continues
  <2>3. ASSUME NEW i \in DOMAIN backlogFile.items
        PROVE  /\ i \in DOMAIN items'
               /\ items'[i].todo = backlogFile.items[i].todo
               /\ backlogFile.items[i].status = "Done" => items'[i].status = "Done"
    <3>1. /\ i \in DOMAIN items
          /\ items[i].todo = backlogFile.items[i].todo
          /\ backlogFile.items[i].status = "Done" => items[i].status = "Done"
      BY <2>1, <2>3 DEF Continues
    <3>2. items[active].status # "Done"
      BY <1>1, <1>3 DEF DoneTogether
    <3> QED
      BY <3>1, <3>2, <1>2
  <2> QED
    BY <2>2, <2>3 DEF Continues
<1>6. ASSUME todo # "Done", NEW n, Undone(todos, items, n)
      PROVE  Undone(todos', items', n)
  BY <1>2, <1>6 DEF Undone
<1> QED
  BY <1>4, <1>5, <1>6

\* An agent with no task has nothing to do.
LEMMA NoTask ==
    ASSUME NEW ts, NEW is, Work(ts, is)
    PROVE  0 \notin DOMAIN is /\ Undone(ts, is, 0)
<1>1. is \in Seq(WorkItem)
  BY DEF Work
<1> QED
  BY <1>1 DEF Undone

LEMMA FreshTyped ==
    ASSUME NEW n \in Nat, NEW phase \in Phases
    PROVE  /\ FreshAgent \in AgentState
           /\ [FreshAgent EXCEPT !.phase = phase] \in AgentState
           /\ [FreshAgent EXCEPT !.phase = phase].active = 0
           /\ [FreshAgent EXCEPT !.phase = phase].phase = phase
           /\ [FreshAgent EXCEPT !.active = n, !.phase = phase] \in AgentState
           /\ [FreshAgent EXCEPT !.active = n, !.phase = phase].active = n
           /\ [FreshAgent EXCEPT !.active = n, !.phase = phase].phase = phase
  BY DEF FreshAgent, AgentState, Phases

\* The end of a task.  When it is completed, the metadata change from Running to
\* Idle, so that the state file no longer names the task.
LEMMA ResolveKeeps ==
    ASSUME NEW status \in WorkStatuses, NEW todo \in WorkStatuses, NEW phase \in Phases,
           NEW next \in {"top", "stop"},
           LoopInv, pc \in {"start provider", "resolve"}, Keep,
           Resolve(status, todo, phase), Hook(FALSE, next),
           status = "Done" => todo = "Done",
           todo = "Done" => phase = "Idle" \/ source = "mixed"
    PROVE  LoopInv'
<1>1. pc # "down" /\ HasActiveTask /\ metaFile = "Running"
  BY DEF LoopInv, TurnInv, StatusOf
<1>2. source' = source /\ UNCHANGED <<backlogFile, sessionFile>>
  BY DEF Keep
<1>3. ActiveChanges(status, todo) /\ agent' = [FreshAgent EXCEPT !.phase = phase]
  BY DEF Resolve, ActiveChanges
<1>4. Work(todos', items')
  BY <1>1, <1>3, ActiveFacts
<1>5. agent' \in AgentState /\ agent'.active = 0 /\ agent'.phase = phase
  BY <1>3, FreshTyped
<1>6. MemoryNext
  <2>1. SUFFICES ASSUME source # "mixed" PROVE MemoryNext
    BY <1>2 DEF MemoryNext
  <2>2. /\ DoneTogether(todos', items')
        /\ source' = "backlog" /\ Parses(backlogFile') => Continues(backlogFile', todos', items')
    BY <2>1, <1>1, <1>2, <1>3, ActiveChangeKeeps
  <2>3. Undone(todos', items', agent'.active)
    BY <1>4, <1>5, NoTask
  <2> QED
    BY <2>2, <2>3 DEF MemoryNext
<1>7. ASSUME metaFile = StatusOf(agent'.phase) PROVE StateFits
  <2>1. SUFFICES ASSUME source # "mixed" PROVE StateFits
    BY <1>2 DEF StateFits
  <2>2. todo # "Done"
    BY <2>1, <1>1, <1>5, <1>7 DEF StatusOf
  <2>3. \A n : Undone(todos, items, n) => Undone(todos', items', n)
    BY <2>1, <2>2, <1>1, <1>2, <1>3, ActiveChangeKeeps
  <2> QED
    BY <2>1, <2>3, <1>1, <1>2 DEF StateFits, LoopInv, FileInv
<1>8. Hooked(next)
  BY <1>1, <1>2, <1>5, <1>6, <1>7, RunFacts, HookKeeps
<1>9. LoopTypes'
  <2>1. next \in Points
    BY DEF Points
  <2> QED
    BY <2>1, <1>1, <1>2, <1>4, <1>5, <1>8, RunFacts, TypesKept
<1>10. TurnInv'
  BY <1>8 DEF TurnInv, Hooked
<1> QED
  BY <1>8, <1>9, <1>10 DEF LoopInv, Hooked

LEMMA ActiveTyped ==
    ASSUME LoopInv, HasActiveTask
    PROVE  items[agent.active] \in WorkItem
<1>1. items \in Seq(WorkItem) /\ agent.active \in DOMAIN items
  BY DEF LoopInv, LoopTypes, Work, HasActiveTask
<1> QED
  BY <1>1

LEMMA FailTaskKeeps ==
    ASSUME NEW next \in {"top", "stop"},
           LoopInv, pc \in {"start provider", "resolve"}, Keep, FailTask, Hook(FALSE, next)
    PROVE  LoopInv'
<1> DEFINE before == todos[items[agent.active].todo]
           after == IF before = "InProgress" THEN "Ready" ELSE before
<1>1. HasActiveTask /\ pc # "down"
  BY DEF LoopInv, TurnInv
<1>2. items[agent.active] \in WorkItem
  BY <1>1, ActiveTyped
<1>3. before \in WorkStatuses
  BY <1>2 DEF LoopInv, LoopTypes, Work, WorkItem
<1>4. source # "mixed" => before # "Done"
  BY <1>1 DEF LoopInv, MemoryInv, Undone, HasActiveTask
<1>5. Resolve("Failed", after, "Idle")
  BY DEF FailTask
<1> HIDE DEF before
<1>6. after \in WorkStatuses /\ (source # "mixed" => after # "Done")
  BY <1>3, <1>4 DEF WorkStatuses
<1> HIDE DEF after
<1>7. "Failed" \in WorkStatuses /\ "Idle" \in Phases
  BY DEF WorkStatuses, Phases
<1> QED
  BY <1>5, <1>6, <1>7, ResolveKeeps

LEMMA EscalateTaskKeeps ==
    ASSUME LoopInv, pc \in {"start provider", "resolve"}, Keep, EscalateTask, Hook(FALSE, "top")
    PROVE  LoopInv'
<1>1. "Blocked" \in WorkStatuses /\ "Escalating" \in Phases
  BY DEF WorkStatuses, Phases
<1> QED
  BY <1>1, ResolveKeeps DEF EscalateTask

LEMMA CompleteTaskKeeps ==
    ASSUME LoopInv, pc = "resolve", Keep, CompleteTask, Hook(FALSE, "top")
    PROVE  LoopInv'
<1>1. "Done" \in WorkStatuses /\ "Idle" \in Phases
  BY DEF WorkStatuses, Phases
<1> QED
  BY <1>1, ResolveKeeps DEF CompleteTask

\* The next todo becomes a task at the end of the list.
LEMMA BeginTaskKeeps ==
    ASSUME NEW t \in Todos, LoopInv, BeginTask(t)
    PROVE  LoopInv'
<1>1. /\ pc = "top" /\ todos[t] = "Ready"
      /\ todos' = [todos EXCEPT ![t] = "InProgress"]
      /\ items' = Append(items, [todo |-> t, status |-> "Ready"])
      /\ agent' = [FreshAgent EXCEPT !.active = Len(items) + 1, !.phase = "Planning"]
      /\ Keep /\ Hook(FALSE, "turn")
  BY DEF BeginTask
<1>2. source' = source /\ UNCHANGED <<backlogFile, sessionFile>>
  BY <1>1 DEF Keep
<1>3. items \in Seq(WorkItem) /\ todos \in [Todos -> WorkStatuses]
  BY DEF LoopInv, LoopTypes, Work
<1>4. [todo |-> t, status |-> "Ready"] \in WorkItem
  BY DEF WorkItem, WorkStatuses
<1>5. /\ items' \in Seq(WorkItem)
      /\ DOMAIN items' = 1..(Len(items) + 1)
      /\ DOMAIN items = 1..Len(items)
      /\ \A i \in DOMAIN items : items'[i] = items[i] /\ items[i] \in WorkItem
      /\ items'[Len(items) + 1] = [todo |-> t, status |-> "Ready"]
  BY <1>1, <1>3, <1>4
<1>6. /\ todos' \in [Todos -> WorkStatuses]
      /\ todos'[t] = "InProgress"
      /\ \A u \in Todos \ {t} : todos'[u] = todos[u]
  BY <1>1, <1>3 DEF WorkStatuses
<1>7. Work(todos', items')
  BY <1>5, <1>6 DEF Work
<1>8. /\ Len(items) + 1 \in Nat
      /\ agent' \in AgentState /\ agent'.active = Len(items) + 1 /\ agent'.phase = "Planning"
  <2>1. Len(items) + 1 \in Nat
    BY <1>3
  <2>2. "Planning" \in Phases
    BY DEF Phases
  <2> QED
    BY <2>1, <2>2, <1>1, FreshTyped
<1>9. \A i \in DOMAIN items' :
         \/ i = Len(items) + 1 /\ items'[i].todo = t /\ items'[i].status = "Ready"
         \/ /\ i \in DOMAIN items /\ i # Len(items) + 1
            /\ items'[i] = items[i] /\ items[i].todo \in Todos
  <2>1. Len(items) \in Nat
    BY <1>3
  <2> SUFFICES ASSUME NEW i \in DOMAIN items'
               PROVE  \/ i = Len(items) + 1 /\ items'[i].todo = t /\ items'[i].status = "Ready"
                      \/ /\ i \in DOMAIN items /\ i # Len(items) + 1
                         /\ items'[i] = items[i] /\ items[i].todo \in Todos
    OBVIOUS
  <2>2. CASE i = Len(items) + 1
    BY <2>2, <1>5
  <2>3. CASE i # Len(items) + 1
    <3>1. i \in DOMAIN items
      BY <2>1, <2>3, <1>5
    <3> QED
      BY <3>1, <2>3, <1>5 DEF WorkItem
  <2> QED
    BY <2>2, <2>3
<1>10. Undone(todos', items', agent'.active)
  BY <1>5, <1>6, <1>8 DEF Undone
<1>11. ASSUME source # "mixed" PROVE MemoryNext
  <2>1. DoneTogether(todos, items)
    BY <1>11 DEF LoopInv, MemoryInv
  <2>2. DoneTogether(todos', items')
    BY <2>1, <1>1, <1>6, <1>9 DEF DoneTogether
  <2>3. ASSUME source' = "backlog", Parses(backlogFile')
        PROVE  Continues(backlogFile', todos', items')
    <3>1. Continues(backlogFile, todos, items)
      BY <2>3, <1>1, <1>2 DEF LoopInv, MemoryInv
    <3>2. \A u \in Todos : backlogFile.todos[u] = "Done" => todos'[u] = "Done"
      BY <3>1, <1>1, <1>6 DEF Continues
    <3>3. DOMAIN items \subseteq DOMAIN items' /\ \A i \in DOMAIN items : items'[i] = items[i]
      <4>1. Len(items) \in Nat
        BY <1>3
      <4> QED
        BY <4>1, <1>5
    <3> QED
      BY <3>1, <3>2, <3>3, <1>2 DEF Continues
  <2> QED
    BY <2>2, <2>3, <1>10 DEF MemoryNext
<1>12. MemoryNext
  BY <1>2, <1>11 DEF MemoryNext
<1>13. StateFits
  <2>1. \A n : Undone(todos, items, n) => Undone(todos', items', n)
    BY <1>1, <1>6, <1>9 DEF Undone
  <2> QED
    BY <2>1, <1>1, <1>2 DEF StateFits, LoopInv, FileInv
<1>14. Hooked("turn")
  BY <1>1, <1>2, <1>8, <1>12, <1>13, RunFacts, HookKeeps
<1>15. LoopTypes'
  <2>1. "turn" \in Points
    BY DEF Points
  <2> QED
    BY <2>1, <1>1, <1>2, <1>7, <1>8, <1>14, RunFacts, TypesKept
<1>16. TurnInv'
  <2>1. HasActiveTask'
    <3>1. Len(items) \in Nat
      BY <1>3
    <3> QED
      BY <3>1, <1>5, <1>8 DEF HasActiveTask
  <2> QED
    BY <2>1, <1>14 DEF TurnInv, Hooked
<1> QED
  BY <1>14, <1>15, <1>16 DEF LoopInv, Hooked

LEMMA StartTurnKeeps ==
    ASSUME LoopInv, StartTurn
    PROVE  LoopInv'
<1>1. /\ pc = "turn"
      /\ agent' = [agent EXCEPT !.phase = "Executing"]
      /\ items' = [items EXCEPT ![agent.active].status = "Running"]
      /\ todos' = todos
      /\ Keep /\ Hook(FALSE, "start provider")
  BY DEF StartTurn
<1>2. source' = source /\ UNCHANGED <<backlogFile, sessionFile>>
  BY <1>1 DEF Keep
<1>3. HasActiveTask
  BY <1>1 DEF LoopInv, TurnInv
<1>4. agent \in AgentState /\ todos \in [Todos -> WorkStatuses]
  BY DEF LoopInv, LoopTypes, Work
<1>5. agent' \in AgentState /\ agent'.active = agent.active /\ agent'.phase = "Executing"
  BY <1>1, <1>4 DEF AgentState, Phases
<1>6. PICK todo : todo = todos[items[agent.active].todo]
  OBVIOUS
<1>7. todo \in WorkStatuses /\ ActiveChanges("Running", todo) /\ "Running" \in WorkStatuses
  <2>1. items[agent.active] \in WorkItem
    BY <1>3, ActiveTyped
  <2>2. items[agent.active].todo \in Todos
    BY <2>1 DEF WorkItem
  <2>3. todos' = [todos EXCEPT ![items[agent.active].todo] = todo]
    BY <2>2, <1>1, <1>4, <1>6
  <2> QED
    BY <2>2, <2>3, <1>1, <1>4, <1>6 DEF ActiveChanges, WorkStatuses
<1>8. /\ Work(todos', items') /\ DOMAIN items' = DOMAIN items
  BY <1>3, <1>7, ActiveFacts
<1>9. ASSUME source # "mixed"
      PROVE  /\ MemoryNext
             /\ \A n : Undone(todos, items, n) => Undone(todos', items', n)
  <2>1. Undone(todos, items, agent.active)
    BY <1>1, <1>9 DEF LoopInv, MemoryInv
  <2>2. todo # "Done"
    BY <2>1, <1>3, <1>6 DEF Undone, HasActiveTask
  <2>3. /\ DoneTogether(todos', items')
        /\ source' = "backlog" /\ Parses(backlogFile') => Continues(backlogFile', todos', items')
        /\ \A n : Undone(todos, items, n) => Undone(todos', items', n)
    BY <2>2, <1>1, <1>2, <1>3, <1>7, <1>9, ActiveChangeKeeps
  <2> QED
    BY <2>1, <2>3, <1>5 DEF MemoryNext
<1>10. MemoryNext
  BY <1>2, <1>9 DEF MemoryNext
<1>11. StateFits
  BY <1>1, <1>2, <1>9 DEF StateFits, LoopInv, FileInv
<1>12. Hooked("start provider")
  BY <1>1, <1>2, <1>5, <1>10, <1>11, RunFacts, HookKeeps
<1>13. LoopTypes'
  <2>1. "start provider" \in Points
    BY DEF Points
  <2> QED
    BY <2>1, <1>1, <1>2, <1>5, <1>8, <1>12, RunFacts, TypesKept
<1>14. TurnInv'
  <2>1. HasActiveTask'
    BY <1>3, <1>5, <1>8 DEF HasActiveTask
  <2> QED
    BY <2>1, <1>5, <1>12 DEF TurnInv, Hooked
<1> QED
  BY <1>12, <1>13, <1>14 DEF LoopInv, Hooked

\* The events of a turn.
LEMMA EventKeeps ==
    ASSUME LoopInv, pc = "events",
           NEW changed, NEW next \in {"events", "resolve"}, Hook(changed, next), Keep,
           UNCHANGED <<todos, items>>,
           agent' \in AgentState, agent'.active = agent.active, agent'.phase = agent.phase
    PROVE  LoopInv'
<1>1. next \in Points
  BY DEF Points
<1>2. LoopTypes' /\ Hooked(next)
  BY <1>1, AgentStepKeeps
<1>3. HasActiveTask' /\ agent'.phase = "Executing"
  BY DEF LoopInv, TurnInv, HasActiveTask
<1> QED
  BY <1>2, <1>3 DEF LoopInv, Hooked, TurnInv

LEMMA EventsKeep ==
    ASSUME LoopInv,
           \/ SessionHandle \/ \E expired \in BOOLEAN : ErrorEvent(expired)
           \/ Finished \/ Disconnected
    PROVE  LoopInv'
<1>1. agent \in AgentState
  BY DEF LoopInv, LoopTypes
<1>2. CASE SessionHandle
  BY <1>1, <1>2, EventKeeps DEF SessionHandle, memory
<1>3. CASE \E expired \in BOOLEAN : ErrorEvent(expired)
  <2>1. PICK expired \in BOOLEAN : ErrorEvent(expired)
    BY <1>3
  <2>2. agent' \in AgentState /\ agent'.active = agent.active /\ agent'.phase = agent.phase
    BY <1>1, <2>1 DEF ErrorEvent, AgentState
  <2> QED
    BY <2>1, <2>2, EventKeeps DEF ErrorEvent
<1>4. CASE Finished
  BY <1>1, <1>4, EventKeeps DEF Finished, memory
<1>5. CASE Disconnected
  <2>1. agent' \in AgentState /\ agent'.active = agent.active /\ agent'.phase = agent.phase
    BY <1>1, <1>5 DEF Disconnected, AgentState
  <2> QED
    BY <2>1, <1>5, EventKeeps DEF Disconnected
<1> QED
  BY <1>2, <1>3, <1>4, <1>5

LEMMA ContinueKeeps ==
    ASSUME LoopInv, Continue
    PROVE  LoopInv'
<1>1. /\ pc = "resolve" /\ agent' = [agent EXCEPT !.attempts = @ + 1, !.phase = "Executing"]
      /\ UNCHANGED <<todos, items>> /\ Keep /\ Hook(FALSE, "turn")
  BY DEF Continue, AfterTurn
<1>2. agent \in AgentState
  BY DEF LoopInv, LoopTypes
<1>3. agent' \in AgentState /\ agent'.active = agent.active
  <2>1. /\ agent.active \in Nat /\ agent.hadError \in BOOLEAN /\ agent.attempts + 1 \in Nat
        /\ "Executing" \in Phases
    BY <1>2 DEF AgentState, Phases
  <2>2. agent' = [active |-> agent.active, hadError |-> agent.hadError,
                  attempts |-> agent.attempts + 1, phase |-> "Executing"]
    BY <1>1, <1>2 DEF AgentState
  <2> QED
    BY <2>1, <2>2 DEF AgentState
<1>4. "turn" \in Points
  BY DEF Points
<1>5. LoopTypes' /\ Hooked("turn")
  BY <1>1, <1>3, <1>4, AgentStepKeeps
<1>6. HasActiveTask'
  BY <1>1, <1>3 DEF LoopInv, TurnInv, HasActiveTask
<1> QED
  BY <1>5, <1>6 DEF LoopInv, Hooked, TurnInv

\* How a turn is resolved, and a provider that does not start.
LEMMA ResolutionsKeep ==
    ASSUME LoopInv,
           \/ ProviderStartFails \/ TurnFailed \/ ContinuationLimit
           \/ VerificationPassed \/ VerificationFailed
    PROVE  LoopInv'
<1>1. CASE ProviderStartFails
  BY <1>1, EscalateTaskKeeps DEF ProviderStartFails
<1>2. CASE TurnFailed
  BY <1>2, FailTaskKeeps DEF TurnFailed, AfterTurn
<1>3. CASE ContinuationLimit
  BY <1>3, EscalateTaskKeeps DEF ContinuationLimit, AfterTurn
<1>4. CASE VerificationPassed
  BY <1>4, CompleteTaskKeeps DEF VerificationPassed, AfterTurn
<1>5. CASE VerificationFailed
  BY <1>5, FailTaskKeeps DEF VerificationFailed, AfterTurn
<1> QED
  BY <1>1, <1>2, <1>3, <1>4, <1>5

\* The steps that write nothing.
LEMMA QuietStepsKeep ==
    ASSUME LoopInv,
           \/ ReachMaxIterations \/ NoReadyTodo \/ StopAfterFailure
           \/ ResumeTask \/ ProviderStarts
           \/ \E text \in {"open", "final"} : AssistantChunk(text)
           \/ Crash
    PROVE  LoopInv'
<1>1. agent \in AgentState
  BY DEF LoopInv, LoopTypes
<1>2. ASSUME NEW phase \in Phases, pc # "down", Stop(phase) PROVE LoopInv'
  <2>1. /\ pc' = "save" /\ UNCHANGED <<todos, items, files, source>>
        /\ agent' = [agent EXCEPT !.phase = phase]
    BY <1>2 DEF Stop, Keep, files
  <2>2. agent' \in AgentState /\ agent'.active = agent.active /\ pc' \in Points
    BY <1>1, <2>1 DEF AgentState, Points
  <2>3. LoopTypes' /\ MemoryInv' /\ FileInv'
    BY <2>1, <2>2, <1>2, QuietStepKeeps
  <2> QED
    BY <2>1, <2>3 DEF LoopInv, TurnInv
<1>3. CASE ReachMaxIterations \/ NoReadyTodo \/ StopAfterFailure
  <2>1. "Escalating" \in Phases /\ "Idle" \in Phases
    BY DEF Phases
  <2> QED
    BY <2>1, <1>2, <1>3 DEF ReachMaxIterations, NoReadyTodo, StopAfterFailure
<1>4. CASE ResumeTask \/ ProviderStarts \/ Crash \/ \E text \in {"open", "final"} : AssistantChunk(text)
  <2>1. pc # "down" /\ UNCHANGED <<todos, items, agent, files, source>>
    BY <1>4 DEF ResumeTask, ProviderStarts, AssistantChunk, Crash, memory
  <2>2. pc' \in Points
    BY <1>4 DEF ResumeTask, ProviderStarts, AssistantChunk, Crash, Dies, LoopInv, LoopTypes, Points
  <2>3. LoopTypes' /\ MemoryInv' /\ FileInv'
    BY <2>1, <2>2, <1>1, QuietStepKeeps
  <2>4. UNCHANGED metaFile
    BY <2>1 DEF files
  <2>5. TurnInv'
    <3>1. CASE ResumeTask
      BY <3>1, <2>1, <2>4 DEF ResumeTask, LoopInv, TurnInv, HasActiveTask
    <3>2. CASE ProviderStarts
      BY <3>2, <2>1, <2>4 DEF ProviderStarts, LoopInv, TurnInv, HasActiveTask
    <3>3. CASE Crash
      BY <3>3, <2>1, <2>4 DEF Crash, Dies, TurnInv
    <3>4. CASE \E text \in {"open", "final"} : AssistantChunk(text)
      BY <3>4, <2>1, <2>4 DEF AssistantChunk, LoopInv, TurnInv, HasActiveTask
    <3> QED
      BY <1>4, <3>1, <3>2, <3>3, <3>4
  <2> QED
    BY <2>3, <2>5 DEF LoopInv
<1> QED
  BY <1>3, <1>4

-----------------------------------------------------------------------------
(* The ends of a run.                                                        *)
LEMMA SaveBacklogKeeps ==
    ASSUME LoopInv, SaveBacklog
    PROVE  LoopInv'
<1>1. /\ pc = "save" /\ UNCHANGED <<todos, items, agent, stateFile, sessionFile>>
      /\ pc' \in {"save session", "down"}
  BY DEF SaveBacklog, Dies, memory
<1>2. TurnInv'
  BY <1>1 DEF TurnInv
<1>3. CASE /\ backlogFile' = [todos |-> todos, items |-> items]
           /\ pc' = "save session"
           /\ IF source = "session" THEN source' = "backlog" /\ stateSource' = "backlog"
              ELSE UNCHANGED <<source, stateSource>>
  <2>1. backlogFile'.todos = todos /\ backlogFile'.items = items
    BY <1>3
  <2>2. source' \in {"backlog", "session", "mixed"} /\ (source' = "mixed" <=> source = "mixed")
    BY <1>3 DEF LoopInv, LoopTypes
  <2>3. LoopTypes'
    BY <1>1, <1>3, <2>1, <2>2 DEF LoopInv, LoopTypes, Points
  <2>4. Continues(backlogFile', todos', items')
    BY <1>1, <2>1 DEF Continues
  <2>5. MemoryInv'
    BY <1>1, <2>2, <2>4 DEF LoopInv, MemoryInv
  <2>6. ASSUME source # "mixed" PROVE FileInv'
    <3>1. DoneTogether(todos, items)
      BY <2>6 DEF LoopInv, MemoryInv
    <3>2. source' = "backlog"
      BY <2>6, <1>3 DEF LoopInv, LoopTypes
    <3>3. stateSource' \in {"backlog", "session"}
      BY <2>6, <1>3 DEF LoopInv, FileInv
    <3>4. ASSUME Parses(stateFile), stateSource' = "backlog"
          PROVE  Undone(todos, items, stateFile.active)
      <4>1. stateSource = source
        <5>1. source = "session" => stateSource = "session"
          BY <1>1, <2>6, <3>4 DEF LoopInv, FileInv
        <5>2. source \in {"backlog", "session"}
          BY <2>6 DEF LoopInv, LoopTypes
        <5>3. source = "backlog" => stateSource = "backlog"
          BY <1>3, <3>4
        <5> QED
          BY <5>1, <5>2, <5>3
      <4> QED
        BY <4>1, <1>1, <2>6, <3>4 DEF LoopInv, FileInv
    <3>5. Parses(sessionFile') => DoneTogether(sessionFile'.todos, sessionFile'.items)
      BY <1>1, <2>6 DEF LoopInv, FileInv
    <3> QED
      BY <3>1, <3>2, <3>3, <3>4, <3>5, <1>1, <2>1 DEF FileInv
  <2>7. FileInv'
    BY <2>2, <2>6 DEF FileInv
  <2> QED
    BY <1>2, <2>3, <2>5, <2>7 DEF LoopInv
<1>4. CASE backlogFile' = Torn /\ Dies /\ UNCHANGED <<source, stateSource>>
  <2>1. ~Parses(backlogFile') /\ pc' = "down"
    BY <1>4 DEF Parses, Dies
  <2>2. LoopTypes'
    BY <1>1, <1>4, <2>1 DEF LoopInv, LoopTypes, Points
  <2>3. MemoryInv'
    BY <1>1, <1>4, <2>1 DEF LoopInv, MemoryInv
  <2>4. FileInv'
    BY <1>1, <1>4, <2>1 DEF LoopInv, FileInv
  <2> QED
    BY <1>2, <2>2, <2>3, <2>4 DEF LoopInv
<1> QED
  BY <1>3, <1>4 DEF SaveBacklog

LEMMA SaveSessionKeeps ==
    ASSUME LoopInv, SaveSession
    PROVE  LoopInv'
<1>1. /\ pc = "save session" /\ pc' = "save bundle"
      /\ UNCHANGED <<todos, items, agent, source, stateFile, stateSource, backlogFile>>
      /\ sessionFile' = [todos |-> todos, items |-> items, phase |-> agent.phase,
                         summary |-> summary]
  BY DEF SaveSession, memory
<1>2. /\ sessionFile'.todos = todos /\ sessionFile'.items = items
      /\ sessionFile'.phase = agent.phase
  BY <1>1
<1>3. agent.phase \in Phases
  BY DEF LoopInv, LoopTypes, AgentState
<1>4. LoopTypes'
  BY <1>1, <1>2, <1>3 DEF LoopInv, LoopTypes, Points
<1>5. MemoryInv'
  BY <1>1 DEF LoopInv, MemoryInv
<1>6. FileInv'
  <2>1. source # "mixed" => DoneTogether(todos, items)
    BY DEF LoopInv, MemoryInv
  <2> QED
    BY <2>1, <1>1, <1>2 DEF LoopInv, FileInv
<1>7. TurnInv'
  BY <1>1 DEF TurnInv
<1> QED
  BY <1>4, <1>5, <1>6, <1>7 DEF LoopInv

LEMMA SaveBundleKeeps ==
    ASSUME LoopInv, SaveBundle
    PROVE  LoopInv'
<1>1. /\ pc = "save bundle" /\ UNCHANGED <<todos, items, agent>>
      /\ source' = source /\ UNCHANGED <<backlogFile, sessionFile>>
      /\ Bundle("Stopped", "down")
  BY DEF SaveBundle, Keep, memory
<1>2. agent' \in AgentState
  BY <1>1 DEF LoopInv, LoopTypes
<1>3. MemoryNext
  BY <1>1 DEF LoopInv, MemoryInv, MemoryNext
<1>4. pc' = "down" /\ stateFile' \in AgentState \cup {Torn} /\ MemoryInv' /\ FileInv'
  BY <1>1, <1>2, <1>3, RunFacts, BundleKeeps
<1>5. LoopTypes'
  BY <1>1, <1>2, <1>4 DEF LoopInv, LoopTypes, Points
<1>6. TurnInv'
  BY <1>4 DEF TurnInv
<1> QED
  BY <1>4, <1>5, <1>6 DEF LoopInv

(* A run starts from the files alone.                                        *)
LEMMA StartKeeps ==
    ASSUME LoopInv, NEW resume \in BOOLEAN, Start(resume)
    PROVE  LoopInv'
<1> DEFINE fromState == resume /\ Parses(stateFile)
           fromSession == resume /\ ~Parses(stateFile) /\ Parses(sessionFile)
           backlog == IF fromSession THEN sessionFile ELSE backlogFile
<1>1. /\ pc = "down" /\ Parses(backlogFile) /\ UNCHANGED <<backlogFile, sessionFile>>
      /\ source' = IF source = "mixed" \/ (fromState /\ stateSource = "session")
                   THEN "mixed" ELSE IF fromSession THEN "session" ELSE "backlog"
      /\ todos' = backlog.todos /\ items' = backlog.items
      /\ agent' = IF fromState THEN stateFile
                  ELSE IF fromSession THEN [FreshAgent EXCEPT !.phase = sessionFile.phase]
                  ELSE FreshAgent
  BY DEF Start
<1>2. PICK changed \in BOOLEAN : Hook(changed, "top")
  BY DEF Start
<1>3. Work(backlog.todos, backlog.items)
  BY <1>1 DEF LoopInv, LoopTypes
<1>4. Work(todos', items')
  BY <1>1, <1>3
<1>5. /\ agent' \in AgentState
      /\ ~fromState => agent'.active = 0
  <2>1. CASE fromState
    BY <2>1, <1>1 DEF LoopInv, LoopTypes, Parses
  <2>2. CASE ~fromState /\ fromSession
    <3>1. sessionFile.phase \in Phases
      BY <2>2 DEF LoopInv, LoopTypes
    <3>2. /\ [FreshAgent EXCEPT !.phase = sessionFile.phase] \in AgentState
          /\ [FreshAgent EXCEPT !.phase = sessionFile.phase].active = 0
      BY <3>1, FreshTyped
    <3> QED
      BY <2>2, <3>2, <1>1
  <2>3. CASE ~fromState /\ ~fromSession
    BY <2>3, <1>1 DEF FreshAgent, AgentState, Phases
  <2> QED
    BY <2>1, <2>2, <2>3
<1>6. source' \in {"backlog", "session", "mixed"}
  BY <1>1
<1>7. ASSUME source' # "mixed"
      PROVE  /\ source # "mixed" /\ ~(fromState /\ stateSource = "session")
             /\ source' = IF fromSession THEN "session" ELSE "backlog"
  BY <1>1, <1>7
<1>8. FilesNext
  <2>1. SUFFICES ASSUME source' # "mixed" PROVE FilesNext
    BY DEF FilesNext
  <2>2. source # "mixed"
    BY <1>7, <2>1
  <2> QED
    BY <2>2 DEF LoopInv, FileInv, FilesNext
<1>9. MemoryNext
  <2>1. SUFFICES ASSUME source' # "mixed" PROVE MemoryNext
    BY DEF MemoryNext
  <2>2. DoneTogether(todos', items')
    BY <2>1, <1>1, <1>8 DEF FilesNext
  <2>3. source' = "backlog" => todos' = backlogFile.todos /\ items' = backlogFile.items
    BY <2>1, <1>1, <1>7
  <2>4. source' = "backlog" => Continues(backlogFile', todos', items')
    <3>1. SUFFICES ASSUME source' = "backlog" PROVE Continues(backlogFile', todos', items')
      OBVIOUS
    <3> QED
      BY <3>1, <2>3, <1>1 DEF Continues
  <2>5. Undone(todos', items', agent'.active)
    <3>1. CASE fromState
      <4>1. stateSource = "backlog" /\ source' = "backlog" /\ agent' = stateFile
        BY <3>1, <2>1, <1>1, <1>7, <1>8 DEF FilesNext
      <4>2. Undone(backlogFile.todos, backlogFile.items, stateFile.active)
        BY <4>1, <3>1, <2>1, <1>1, <1>8 DEF FilesNext
      <4> QED
        BY <4>1, <4>2, <2>3
    <3>2. CASE ~fromState
      BY <3>2, <1>4, <1>5, NoTask
    <3> QED
      BY <3>1, <3>2
  <2> QED
    BY <2>2, <2>4, <2>5 DEF MemoryNext
<1>10. StateFits
  <2>1. SUFFICES ASSUME source' # "mixed", Parses(stateFile) PROVE StateFits
    BY DEF StateFits
  <2>2. source' = "backlog" /\ todos' = backlogFile.todos /\ items' = backlogFile.items
    BY <2>1, <1>1, <1>7
  <2>3. stateSource = "backlog" => Undone(backlogFile.todos, backlogFile.items, stateFile.active)
    BY <2>1, <1>1, <1>8 DEF FilesNext
  <2> QED
    BY <2>2, <2>3 DEF StateFits
<1>11. Hooked("top")
  <2>1. /\ Parses(backlogFile) => Work(backlogFile.todos, backlogFile.items)
        /\ stateFile \in AgentState \cup {Torn}
    BY DEF LoopInv, LoopTypes
  <2> HIDE DEF fromState, fromSession, backlog
  <2> QED
    BY <2>1, <1>1, <1>2, <1>5, <1>6, <1>8, <1>9, <1>10, HookKeeps
<1>12. LoopTypes'
  <2>1. "top" \in Points
    BY DEF Points
  <2> HIDE DEF fromState, fromSession, backlog
  <2> QED
    BY <2>1, <1>1, <1>4, <1>5, <1>6, <1>11, TypesKept
<1>13. TurnInv'
  BY <1>11 DEF TurnInv, Hooked
<1> QED
  BY <1>11, <1>12, <1>13 DEF LoopInv, Hooked

LEMMA LoopInvInit == LoopInit => LoopInv
<1> SUFFICES ASSUME LoopInit PROVE LoopInv
  OBVIOUS
<1>1. todos \in [Todos -> WorkStatuses] /\ items = <<>>
  BY DEF LoopInit, WorkStatuses
<1>2. items \in Seq(WorkItem) /\ DOMAIN items = {}
  BY <1>1
<1>3. Work(todos, items)
  BY <1>1, <1>2 DEF Work
<1>4. /\ backlogFile.todos = todos /\ backlogFile.items = items
      /\ ~Parses(sessionFile) /\ ~Parses(stateFile)
  BY DEF LoopInit, Parses
<1>5. agent \in AgentState
  BY DEF LoopInit, FreshAgent, AgentState, Phases
<1>6. LoopTypes
  BY <1>3, <1>4, <1>5 DEF LoopInit, LoopTypes, Points
<1>7. DoneTogether(todos, items)
  BY <1>2 DEF DoneTogether
<1> QED
  BY <1>4, <1>6, <1>7 DEF LoopInit, LoopInv, MemoryInv, FileInv, TurnInv

LEMMA LoopInvStep == LoopInv /\ [LoopNext]_loopVars => LoopInv'
<1> SUFFICES ASSUME LoopInv, [LoopNext]_loopVars PROVE LoopInv'
  OBVIOUS
<1>1. CASE \E resume \in BOOLEAN : Start(resume)
  BY <1>1, StartKeeps
<1>2. CASE RunStep
  <2>1. CASE \E t \in Todos : BeginTask(t)
    BY <2>1, BeginTaskKeeps
  <2>2. CASE ReachMaxIterations \/ NoReadyTodo \/ ResumeTask \/ ProviderStarts \/ StopAfterFailure
    BY <2>2, QuietStepsKeep
  <2>3. CASE \/ ProviderStartFails \/ TurnFailed \/ ContinuationLimit
             \/ VerificationPassed \/ VerificationFailed
    BY <2>3, ResolutionsKeep
  <2>4. CASE StartTurn \/ Continue
    BY <2>4, StartTurnKeeps, ContinueKeeps
  <2>5. CASE SaveBacklog \/ SaveSession \/ SaveBundle
    BY <2>5, SaveBacklogKeeps, SaveSessionKeeps, SaveBundleKeeps
  <2> QED
    BY <1>2, <2>1, <2>2, <2>3, <2>4, <2>5 DEF RunStep
<1>3. CASE Crash \/ \E text \in {"open", "final"} : AssistantChunk(text)
  BY <1>3, QuietStepsKeep
<1>4. CASE SessionHandle \/ TurnEnds \/ \E expired \in BOOLEAN : ErrorEvent(expired)
  BY <1>4, EventsKeep DEF TurnEnds
<1>5. CASE UNCHANGED loopVars
  <2>1. UNCHANGED <<pc, todos, items, agent, source, metaFile, stateFile, stateSource,
                    backlogFile, sessionFile>>
    BY <1>5 DEF loopVars, memory, files
  <2>2. LoopTypes'
    BY <2>1 DEF LoopInv, LoopTypes
  <2>3. MemoryInv'
    BY <2>1 DEF LoopInv, MemoryInv
  <2>4. FileInv'
    BY <2>1 DEF LoopInv, FileInv
  <2>5. TurnInv'
    BY <2>1 DEF LoopInv, TurnInv, HasActiveTask
  <2> QED
    BY <2>2, <2>3, <2>4, <2>5 DEF LoopInv
<1> QED
  BY <1>1, <1>2, <1>3, <1>4, <1>5 DEF LoopNext

\* For every number of todos, runs and crashes: work that the backlog file holds as done is
\* never taken up again, by the run that saved it or by one that resumes after a crash at
\* any of the writes (run_loop_headless_single_agent).  complete_active_task changes the
\* status in the metadata, so that the hook rewrites the state file before the loop goes
\* on and no state file names a task that is done.
THEOREM DoneIsFinal == LoopSpec => []SavedDoneIsFinal
<1>1. LoopInv => SavedDoneIsFinal
  <2> SUFFICES ASSUME LoopInv, pc # "down", source = "backlog", Parses(backlogFile),
                      NEW i \in DOMAIN backlogFile.items, backlogFile.items[i].status = "Done"
               PROVE  items[i].status = "Done" /\ todos[items[i].todo] = "Done"
    BY DEF SavedDoneIsFinal
  <2>1. Continues(backlogFile, todos, items) /\ DoneTogether(todos, items)
    BY DEF LoopInv, MemoryInv
  <2> QED
    BY <2>1 DEF Continues, DoneTogether
<1> QED
  BY <1>1, LoopInvInit, LoopInvStep, PTL DEF LoopSpec
=============================================================================
