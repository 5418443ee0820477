------------------------------ MODULE Worktrees ------------------------------
(* The git worktrees of a pool: for each agent a directory with a branch, a  *)
(* record in the state store, and the slot that works in it.  The four can   *)
(* come apart: a step of a spawn fails, a process dies, somebody deletes a   *)
(* directory, and the record knows of uncommitted work only what the last    *)
(* pause wrote into it.  A record is rewritten in place: a write that is cut *)
(* short leaves one that cannot be parsed, and then the list of all records  *)
(* cannot be read either.  (A process that dies in a write is one whose      *)
(* write fails, followed by Reopen.)                                         *)
(*                                                                           *)
(* git is external: adding a worktree fails when its path is registered or   *)
(* its new branch exists, removing a directory by hand leaves it registered  *)
(* until a prune, and the listing of branches marks those that are checked   *)
(* out in a registered worktree with a plus sign.                            *)
EXTENDS Naturals, FiniteSets

CONSTANTS
    MaxTrees,       \* bound: highest index of an agent
    MaxWorktrees,   \* max_worktrees of the manager
    MaxMishaps,     \* bound: failures of git or the store, and deletions by others
    MaxRestarts     \* bound: new processes

ASSUME MaxTreesAssumption == MaxTrees \in Nat \ {0} /\ MaxWorktrees \in Nat
ASSUME WorktreeBoundsAssumption == MaxMishaps \in Nat /\ MaxRestarts \in Nat

VARIABLES
    nextTree,    \* next_agent_index of the pool
    wslot,       \* status of the slot of each agent; Active stands for all working ones
    slotTree,    \* whether the slot knows its worktree
    dir,         \* the directory: "none", "clean" or "dirty" (uncommitted changes)
    branches,    \* branches of agents: <<a, "agent">> is agent/<id>, <<a, "custom">> another name
    registered,  \* worktrees git knows, each by the branch that is checked out in it
    record,      \* the stored state: the kind of the branch, and the directory as last seen
    lostWork,    \* agents whose uncommitted work the automatic clean-up deleted
    mishaps, restarts

treeVars == <<nextTree, wslot, slotTree, dir, branches, registered, record, lostWork, mishaps, restarts>>

Trees == 1..MaxTrees
Kinds == {"agent", "custom"}
NoRecord == [kind |-> "none", seen |-> "none"]
TornRecord == [kind |-> "torn", seen |-> "none"]

Mishap == mishaps < MaxMishaps /\ mishaps' = mishaps + 1

-----------------------------------------------------------------------------
(* The worktree manager.                                                     *)
Known(a) == \E kind \in Kinds : <<a, kind>> \in registered

\* create refuses at the limit and when the directory exists; git when the
\* worktree is registered, when a branch to create exists, or one to use does
\* not.
CanCreate(a, kind, newBranch) ==
    /\ Cardinality(registered) < MaxWorktrees
    /\ dir[a] = "none"
    /\ ~Known(a)
    /\ newBranch <=> <<a, kind>> \notin branches

Created(a, kind) ==
    /\ dir' = [dir EXCEPT ![a] = "clean"]
    /\ branches' = branches \cup {<<a, kind>>}
    /\ registered' = registered \cup {<<a, kind>>}

\* remove, uncommitted changes or not (--force); what does not exist is skipped.
Removed(S) ==
    /\ dir' = [a \in Trees |-> IF a \in S THEN "none" ELSE dir[a]]
    /\ registered' = {w \in registered : w[1] \notin S \/ dir[w[1]] = "none"}

-----------------------------------------------------------------------------
(* The state store.                                                          *)
HasRecord == {a \in Trees : record[a] \notin {NoRecord, TornRecord}}

\* A save or a deletion that fails leaves the record or cuts it short.  Both
\* parse the old record first, so a torn one stays.
RecordFails(a) == record' \in {record, [record EXCEPT ![a] = TornRecord]}
Deleted(S) == [a \in Trees |-> IF a \in S /\ record[a] # TornRecord THEN NoRecord ELSE record[a]]

\* list_all gives up at the first record that it cannot parse.
Legible == \A a \in Trees : record[a] # TornRecord

Highest(S) == IF S = {} THEN 0 ELSE CHOOSE a \in S : \A b \in S : b <= a

\* find_max_agent_index: a list of records that cannot be read counts as empty,
\* and of the branches agent/<id> those with a plus sign are not recognised.
NextIndex ==
    1 + Highest((IF Legible THEN HasRecord ELSE {})
                   \cup {a \in Trees : <<a, "agent">> \in branches \ registered})

-----------------------------------------------------------------------------
(* The pool.                                                                 *)
\* spawn_agent_with_worktree_internal: the worktree, the head, the record and
\* the slot; when one of them fails the ones before it stay.
SpawnTree(a, kind) ==
    /\ a = nextTree
    /\ nextTree' = nextTree + 1
    /\ \/ /\ CanCreate(a, kind, TRUE)
          /\ Created(a, kind)
          /\ \/ /\ record[a] # TornRecord
                /\ record' = [record EXCEPT ![a] = [kind |-> kind, seen |-> "clean"]]
                /\ wslot' = [wslot EXCEPT ![a] = "Idle"]
                /\ slotTree' = [slotTree EXCEPT ![a] = TRUE]
                /\ UNCHANGED mishaps
             \/ /\ \/ record[a] = TornRecord /\ UNCHANGED <<record, mishaps>>
                   \/ Mishap /\ RecordFails(a)
                /\ UNCHANGED <<wslot, slotTree>>
       \/ /\ \/ ~CanCreate(a, kind, TRUE) /\ UNCHANGED mishaps
             \/ Mishap
          /\ UNCHANGED <<wslot, slotTree, dir, branches, registered, record>>
    /\ UNCHANGED <<lostWork, restarts>>

\* An agent starts to work, changes files, commits them, and is done.
Works(a) ==
    /\ \/ /\ wslot[a] = "Idle"
          /\ wslot' = [wslot EXCEPT ![a] = "Active"]
          /\ UNCHANGED dir
       \/ /\ wslot[a] = "Active"
          /\ wslot' = [wslot EXCEPT ![a] = "Idle"]
          /\ UNCHANGED dir
       \/ /\ wslot[a] = "Active" /\ slotTree[a] /\ dir[a] # "none"
          /\ dir' = [dir EXCEPT ![a] = IF @ = "clean" THEN "dirty" ELSE "clean"]
          /\ UNCHANGED wslot
    /\ UNCHANGED <<nextTree, slotTree, branches, registered, record, lostWork, mishaps, restarts>>

CanPause(a) ==
    /\ wslot[a] \in {"Idle", "Active", "Paused"}
    /\ slotTree[a] /\ dir[a] # "none" /\ a \in HasRecord
    /\ UNCHANGED <<nextTree, slotTree, dir, branches, registered, lostWork, restarts>>
\* Mutant of PauseTree: the record is not told of uncommitted changes.
PauseTreeUnrecorded(a) ==
    /\ CanPause(a)
    /\ wslot' = [wslot EXCEPT ![a] = "Paused"]
    /\ UNCHANGED <<record, mishaps>>
\* pause_agent_with_worktree: the record is brought up to date, then the slot
\* pauses; it does not when the record fails.
PauseTree(a) ==
    /\ CanPause(a)
    /\ \/ /\ record' = [record EXCEPT ![a].seen = dir[a]]
          /\ wslot' = [wslot EXCEPT ![a] = "Paused"]
          /\ UNCHANGED mishaps
       \/ RecordFails(a) /\ Mishap /\ UNCHANGED wslot

\* resume_agent_with_worktree: a directory that is gone is created again, on
\* its branch when that exists.  The agent stays paused when that or the
\* record fails.
ResumeTree(a) ==
    LET kind == record[a].kind
    IN  /\ wslot[a] = "Paused"
        /\ a \in HasRecord
        /\ \/ dir[a] # "none" /\ UNCHANGED <<dir, branches, registered>>
           \/ CanCreate(a, kind, <<a, kind>> \notin branches) /\ Created(a, kind)
        /\ \/ /\ slotTree' = [slotTree EXCEPT ![a] = TRUE]
              /\ wslot' = [wslot EXCEPT ![a] = "Idle"]
              /\ UNCHANGED <<record, mishaps>>
           \/ dir[a] = "none" /\ Mishap /\ RecordFails(a) /\ UNCHANGED <<slotTree, wslot>>
        /\ UNCHANGED <<nextTree, lostWork, restarts>>

\* stop_with_worktree: with clean-up the worktree goes, and then the record; a
\* failure is logged and the record kept.
StopTree(a, cleanup) ==
    /\ wslot[a] \in {"Idle", "Active", "Paused"}
    /\ wslot' = [wslot EXCEPT ![a] = "Stopped"]
    /\ \/ /\ cleanup /\ slotTree[a] /\ dir[a] # "none"
          /\ \/ Removed({a}) /\ record' = Deleted({a}) /\ UNCHANGED mishaps
             \/ Removed({a}) /\ RecordFails(a) /\ Mishap
             \/ Mishap /\ UNCHANGED <<dir, registered, record>>
       \/ /\ ~(cleanup /\ slotTree[a] /\ dir[a] # "none")
          /\ UNCHANGED <<dir, registered, record, mishaps>>
    /\ UNCHANGED <<nextTree, slotTree, branches, lostWork, restarts>>

\* remove_agent.
DropTree(a) ==
    /\ wslot[a] = "Stopped"
    /\ wslot' = [wslot EXCEPT ![a] = "none"]
    /\ slotTree' = [slotTree EXCEPT ![a] = FALSE]
    /\ UNCHANGED <<nextTree, dir, branches, registered, record, lostWork, mishaps, restarts>>

\* auto_cleanup_idle: of the agents that do not work, those whose record says
\* that there is nothing in the worktree and that have been idle for long
\* (any of them).  Worktree, record and the slot's knowledge go.
Unused(a) == record[a].seen = "clean" /\ wslot[a] \in {"none", "Idle", "Paused"}
AutoCleanup(S) ==
    /\ Legible
    /\ S # {}
    /\ \A a \in S : Unused(a)
    /\ Removed(S)
    /\ record' = Deleted(S)
    /\ slotTree' = [a \in Trees |-> slotTree[a] /\ a \notin S]
    /\ lostWork' = lostWork \cup {a \in S : dir[a] = "dirty"}
    /\ UNCHANGED <<nextTree, wslot, branches, mishaps, restarts>>

\* The first deletion of a record fails: the rest of the clean-up is given up.
AutoCleanupFails(a) ==
    /\ Legible
    /\ Unused(a)
    /\ Removed({a})
    /\ lostWork' = lostWork \cup (IF dir[a] = "dirty" THEN {a} ELSE {})
    /\ RecordFails(a)
    /\ Mishap
    /\ UNCHANGED <<nextTree, wslot, slotTree, branches, restarts>>

\* Mutant of Orphans: agents of the pool are not passed over.
OrphansOfAll == {a \in HasRecord : dir[a] = "none"}
\* Records of agents that are not in the pool and whose directory is gone.
Orphans == {a \in HasRecord : wslot[a] = "none" /\ dir[a] = "none"}

\* recover_orphaned, for those of the orphans it gets to.  A new directory
\* always comes with a new branch, so it can only be created when the branch is
\* gone too; else the record goes.  The first deletion that fails ends it.
RecoverOrphaned(recreate) ==
    LET able == {a \in Orphans : recreate /\ CanCreate(a, record[a].kind, TRUE)}
        room == MaxWorktrees - Cardinality(registered)
    IN  /\ Legible
        /\ \E S \in SUBSET Orphans : \E again \in SUBSET (able \cap S) :
              LET full == Cardinality(again) = room
                  after == [a \in Trees |-> IF a \in S \ again THEN NoRecord ELSE record[a]]
              IN  /\ S # {}
                  /\ again = able \cap S \/ full
                  /\ Cardinality(again) <= room
                  /\ dir' = [a \in Trees |-> IF a \in again THEN "clean" ELSE dir[a]]
                  /\ branches' = branches \cup {<<a, record[a].kind>> : a \in again}
                  /\ registered' = registered \cup {<<a, record[a].kind>> : a \in again}
                  /\ \/ S = Orphans /\ record' = after /\ UNCHANGED mishaps
                     \/ /\ Mishap
                        /\ \E a \in S \ again :
                              /\ a \notin able \/ full
                              /\ record' \in {[after EXCEPT ![a] = record[a]],
                                             [after EXCEPT ![a] = TornRecord]}
        /\ UNCHANGED <<nextTree, wslot, slotTree, lostWork, restarts>>

\* new_with_worktrees: another process starts with an empty pool.
Reopen ==
    /\ restarts < MaxRestarts
    /\ restarts' = restarts + 1
    /\ wslot' = [a \in Trees |-> "none"]
    /\ slotTree' = [a \in Trees |-> FALSE]
    /\ nextTree' = NextIndex
    /\ UNCHANGED <<dir, branches, registered, record, lostWork, mishaps>>

\* Somebody deletes a directory, or a branch no worktree has; or prune.
Outside(a) ==
    /\ \/ dir[a] # "none" /\ dir' = [dir EXCEPT ![a] = "none"] /\ UNCHANGED <<branches, registered>>
       \/ /\ \E kind \in Kinds : /\ <<a, kind>> \in branches \ registered
                                  /\ branches' = branches \ {<<a, kind>>}
          /\ UNCHANGED <<dir, registered>>
    /\ Mishap
    /\ UNCHANGED <<nextTree, wslot, slotTree, record, lostWork, restarts>>

Prune ==
    /\ \E w \in registered : dir[w[1]] = "none"
    /\ registered' = {w \in registered : dir[w[1]] # "none"}
    /\ UNCHANGED <<nextTree, wslot, slotTree, dir, branches, record, lostWork, mishaps, restarts>>

TreeInit ==
    /\ nextTree = 1
    /\ wslot = [a \in Trees |-> "none"]
    /\ slotTree = [a \in Trees |-> FALSE]
    /\ dir = [a \in Trees |-> "none"]
    /\ branches = {}
    /\ registered = {}
    /\ record = [a \in Trees |-> NoRecord]
    /\ lostWork = {}
    /\ mishaps = 0
    /\ restarts = 0

TreeNext ==
    \/ \E a \in Trees :
          \/ \E kind \in Kinds : SpawnTree(a, kind)
          \/ Works(a)
          \/ PauseTree(a)
          \/ ResumeTree(a)
          \/ \E cleanup \in BOOLEAN : StopTree(a, cleanup)
          \/ DropTree(a)
          \/ AutoCleanupFails(a)
          \/ Outside(a)
    \/ \E S \in SUBSET Trees : AutoCleanup(S)
    \/ \E recreate \in BOOLEAN : RecoverOrphaned(recreate)
    \/ Prune
    \/ Reopen

TreeSpec == TreeInit /\ [][TreeNext]_treeVars

-----------------------------------------------------------------------------
(* Properties.                                                               *)
\* "Sync next_agent_index with existing worktree states AND git branches to
\* avoid collision when user cancels restore but previous artifacts exist": the
\* branch of the next agent is new.
FreshIndex == nextTree \in Trees => <<nextTree, "agent">> \notin branches

\* The worktree an agent of the pool works in has a record, from which a later
\* process can tell whose it is: through refused saves and deletions, clean-ups
\* and recoveries, the record goes only after the worktree, and for an agent
\* that goes on only together with what its slot knows of the worktree.
TreesRecorded ==
    \A a \in Trees :
        wslot[a] # "none" /\ slotTree[a] =>
            record[a] # NoRecord \/ (wslot[a] = "Stopped" /\ dir[a] = "none")

\* Uncommitted work a pause has seen survives while the agent is paused: the
\* clean-up of idle worktrees leaves it alone.
PausedWorkKept ==
    [][\A a \in Trees : a \in lostWork' \ lostWork => wslot[a] # "Paused"]_treeVars

\* The automatic clean-up only removes worktrees that "have no
\* commits/uncommitted changes".
CleanupKeepsWork == lostWork = {}
=============================================================================
