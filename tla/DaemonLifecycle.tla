--------------------------- MODULE DaemonLifecycle ---------------------------
(***************************************************************************)
(* Daemons of one workplace and the clients that look for them             *)
(* (agent/daemon: main.rs, lifecycle.rs, server.rs; agent/protocol:        *)
(* config.rs, client/auto_link.rs; cli: app_runner.rs).  A daemon binds    *)
(* its server, writes daemon.json and refreshes it with a heartbeat; a     *)
(* client reads daemon.json, or spawns a daemon and waits for the file.    *)
(*                                                                         *)
(* A writer keeps the file it opened, whatever name that file has          *)
(* meanwhile: renamed, it is daemon.json, and replaced or removed it is    *)
(* nobody's.  A daemon stands for its process id and for its address.      *)
(***************************************************************************)
EXTENDS Naturals, FiniteSets

CONSTANTS
    Daemons,        \* daemon processes; each runs once
    Clients,        \* clients that look where the daemon writes (the TUI)
    CliClients,     \* `daemon start` of the command line
    None, Empty, Torn,
    AwaitsServer    \* main waits for the accept loop before it shuts down

ASSUME LifecycleAssumption ==
    /\ {None, Empty, Torn} \cap Daemons = {}
    /\ None # Empty /\ None # Torn /\ Empty # Torn
    /\ AwaitsServer \in BOOLEAN

VARIABLES
    stage,      \* [Daemons -> stage of the process]
    accepting,  \* [Daemons -> BOOLEAN]: the accept loop runs
    beating,    \* [Daemons -> BOOLEAN]: the heartbeat task runs
    writer,     \* [Daemons -> step of DaemonConfig::write]
    copy,       \* [Daemons -> daemon named by the config that is written]
    fd,         \* [Daemons -> name of the file that is open for writing]
    tmp, json,  \* contents of daemon.tmp and daemon.json, None without a file
    pc,         \* [client -> step of auto_link]
    link,       \* [client -> daemon it has linked to]
    bound,      \* daemons that have bound their server, a history
    overlap     \* two daemons have written daemon.tmp at once, a history

procVars == <<stage, accepting, beating>>
writeVars == <<writer, copy, fd>>
fileVars == <<tmp, json>>
clientVars == <<pc, link>>
lifecycleVars == <<procVars, writeVars, fileVars, clientVars, bound, overlap>>

AllClients == Clients \cup CliClients

Notified == {"draining", "removed"}
Running == {"starting", "writing", "serving", "signalled"} \cup Notified
DaemonStages == Running \cup {"none", "gone"}

Alive(d) == stage[d] \in Running

\* The daemon has opened daemon.tmp and not renamed it yet.
Holds(d) == writer[d] \in {"open", "wrote"}

\* DaemonConfig::read: no file, an empty one and one that does not parse are
\* all errors.
Read(file) == IF file \in Daemons THEN file ELSE None

\* The command line looks for daemon.json below <workplace>/workplaces/<id>,
\* where no daemon writes.
ReadBy(c) == IF c \in CliClients THEN None ELSE Read(json)

LifecycleInit ==
    /\ stage = [d \in Daemons |-> "none"]
    /\ accepting = [d \in Daemons |-> FALSE]
    /\ beating = [d \in Daemons |-> FALSE]
    /\ writer = [d \in Daemons |-> "idle"]
    /\ copy = [d \in Daemons |-> None] /\ fd = [d \in Daemons |-> "none"]
    /\ tmp = None /\ json = None
    /\ pc = [c \in AllClients |-> "idle"] /\ link = [c \in AllClients |-> None]
    /\ bound = {} /\ overlap = FALSE
-----------------------------------------------------------------------------
(* DaemonConfig::write: open and truncate daemon.tmp, write it, rename it,   *)
(* set the permissions of daemon.json.                                       *)

Release(d) ==
    /\ writer' = [writer EXCEPT ![d] = "idle"]
    /\ copy' = [copy EXCEPT ![d] = None]
    /\ fd' = [fd EXCEPT ![d] = "none"]

Stops(d) ==
    /\ stage' = [stage EXCEPT ![d] = "gone"]
    /\ accepting' = [accepting EXCEPT ![d] = FALSE]
    /\ beating' = [beating EXCEPT ![d] = FALSE]
    /\ Release(d)

\* The end of a write: it ends the start of the daemon or one heartbeat.
Written(d) ==
    /\ Release(d)
    /\ IF stage[d] = "writing"
       THEN /\ stage' = [stage EXCEPT ![d] = "serving"]
            /\ accepting' = [accepting EXCEPT ![d] = TRUE]
            /\ beating' = [beating EXCEPT ![d] = TRUE]
       ELSE UNCHANGED procVars

\* A failed write ends a starting daemon; a heartbeat only warns.
WriteFails(d) ==
    \/ stage[d] = "writing" /\ Stops(d)
    \/ stage[d] # "writing" /\ Release(d) /\ UNCHANGED procVars

\* Mutant of OpenTemp: daemon.json itself is opened and truncated.
OpenInPlace(d) ==
    /\ Alive(d) /\ writer[d] = "ready"
    /\ json' = Empty /\ tmp' = Empty
    /\ fd' = [fd EXCEPT ![d] = "json"]
    /\ writer' = [writer EXCEPT ![d] = "open"]
    /\ overlap' = (overlap \/ \E e \in Daemons \ {d} : Holds(e))
    /\ UNCHANGED <<procVars, copy, clientVars, bound>>

OpenTemp(d) ==
    /\ Alive(d) /\ writer[d] = "ready"
    /\ tmp' = Empty
    /\ fd' = [fd EXCEPT ![d] = "tmp"]
    /\ writer' = [writer EXCEPT ![d] = "open"]
    /\ overlap' = (overlap \/ \E e \in Daemons \ {d} : Holds(e))
    /\ UNCHANGED <<procVars, copy, json, clientVars, bound>>

\* What a file holds after d has written to it: a write over the bytes of
\* another writer may leave a tail of them.
Overwritten(file, d) ==
    IF file = Empty THEN {copy[d]} ELSE {copy[d], Torn}

\* The file is written and closed.
WriteTemp(d) ==
    /\ Alive(d) /\ writer[d] = "open"
    /\ IF fd[d] = "tmp" THEN tmp' \in Overwritten(tmp, d) ELSE tmp' = tmp
    /\ IF fd[d] = "json" THEN json' \in Overwritten(json, d) ELSE json' = json
    /\ writer' = [writer EXCEPT ![d] = "wrote"]
    /\ copy' = [copy EXCEPT ![d] = None] /\ fd' = [fd EXCEPT ![d] = "none"]
    /\ UNCHANGED <<procVars, clientVars, bound, overlap>>

\* The name that an open file has after daemon.tmp is renamed.
AfterRename(name) ==
    CASE name = "tmp"  -> "json"
      [] name = "json" -> "nobody's"
      [] OTHER         -> name

\* The name that an open file has after daemon.json is removed.
AfterRemove(name) == IF name = "json" THEN "nobody's" ELSE name

Rename(d) ==
    /\ Alive(d) /\ writer[d] = "wrote"
    /\ \/ /\ tmp # None
          /\ json' = tmp /\ tmp' = None
          /\ writer' = [writer EXCEPT ![d] = "renamed"]
          /\ fd' = [e \in Daemons |-> AfterRename(fd[e])]
          /\ UNCHANGED <<procVars, copy>>
       \/ tmp = None /\ WriteFails(d) /\ UNCHANGED fileVars
    /\ UNCHANGED <<clientVars, bound, overlap>>

SetPermissions(d) ==
    /\ Alive(d) /\ writer[d] = "renamed"
    /\ \/ json # None /\ Written(d)
       \/ json = None /\ WriteFails(d)
    /\ UNCHANGED <<fileVars, clientVars, bound, overlap>>
\* daemon.tmp cannot be opened or written, the disk being full for example.
IoError(d) ==
    /\ Alive(d) /\ writer[d] \in {"ready", "open"}
    /\ WriteFails(d)
    /\ UNCHANGED <<fileVars, clientVars, bound, overlap>>
-----------------------------------------------------------------------------
(* The daemon *)

\* Mutant of Bind: daemon.json is prepared before the server is bound.
BindLater(d) ==
    /\ stage[d] = "starting"
    /\ stage' = [stage EXCEPT ![d] = "writing"]
    /\ writer' = [writer EXCEPT ![d] = "ready"]
    /\ copy' = [copy EXCEPT ![d] = d]
    /\ UNCHANGED <<accepting, beating, fd, fileVars, clientVars, bound, overlap>>

Bind(d) ==
    /\ stage[d] = "starting"
    /\ bound' = bound \cup {d}
    /\ stage' = [stage EXCEPT ![d] = "writing"]
    /\ writer' = [writer EXCEPT ![d] = "ready"]
    /\ copy' = [copy EXCEPT ![d] = d]
    /\ UNCHANGED <<accepting, beating, fd, fileVars, clientVars, overlap>>

\* The workplace cannot be restored, or the address is taken.
BindFails(d) ==
    /\ stage[d] = "starting"
    /\ Stops(d)
    /\ UNCHANGED <<fileVars, clientVars, bound, overlap>>


\* A heartbeat reads daemon.json, whoever it names, and writes it back.
HeartbeatRead(d) ==
    /\ Alive(d) /\ beating[d] /\ writer[d] = "idle"
    /\ Read(json) # None
    /\ copy' = [copy EXCEPT ![d] = Read(json)]
    /\ writer' = [writer EXCEPT ![d] = "ready"]
    /\ UNCHANGED <<procVars, fd, fileVars, clientVars, bound, overlap>>

\* The heartbeat task sees the notification between two heartbeats.
HeartbeatStops(d) ==
    /\ stage[d] \in Notified /\ beating[d] /\ writer[d] = "idle"
    /\ beating' = [beating EXCEPT ![d] = FALSE]
    /\ UNCHANGED <<stage, accepting, writeVars, fileVars, clientVars, bound, overlap>>

\* The accept loop sees the flag or the notification.
ServerStops(d) ==
    /\ stage[d] \in Notified /\ accepting[d]
    /\ accepting' = [accepting EXCEPT ![d] = FALSE]
    /\ UNCHANGED <<stage, beating, writeVars, fileVars, clientVars, bound, overlap>>

\* SIGTERM or SIGINT, once the handlers are installed.
Signal(d) ==
    /\ stage[d] = "serving"
    /\ stage' = [stage EXCEPT ![d] = "signalled"]
    /\ UNCHANGED <<accepting, beating, writeVars, fileVars, clientVars, bound, overlap>>

\* shutdown sets the server's flag and notifies the tasks.  main owns the
\* lifecycle again, and can call it, only after the server task has ended
\* (AwaitsServer); without that the daemon may do more, never less.
BeginShutdown(d) ==
    /\ stage[d] = "signalled"
    /\ AwaitsServer => ~accepting[d]
    /\ stage' = [stage EXCEPT ![d] = "draining"]
    /\ UNCHANGED <<accepting, beating, writeVars, fileVars, clientVars, bound, overlap>>

RemoveFile ==
    /\ json' = None /\ tmp' = tmp
    /\ fd' = [e \in Daemons |-> AfterRemove(fd[e])]

\* Connections have drained, provider processes were terminated, snapshots
\* and backups written, a failure of any of these being only a warning; then
\* daemon.json is removed, whichever daemon it names.
RemoveConfig(d) ==
    /\ stage[d] = "draining"
    /\ stage' = [stage EXCEPT ![d] = "removed"]
    /\ RemoveFile
    /\ UNCHANGED <<accepting, beating, writer, copy, clientVars, bound, overlap>>

Exit(d) ==
    /\ stage[d] = "removed"
    /\ Stops(d)
    /\ UNCHANGED <<fileVars, clientVars, bound, overlap>>

\* A crash, SIGKILL, or SIGTERM before the handlers are installed.
Kill(d) ==
    /\ Alive(d)
    /\ Stops(d)
    /\ UNCHANGED <<fileVars, clientVars, bound, overlap>>

Shutdown(d) ==
    ServerStops(d) \/ BeginShutdown(d) \/ RemoveConfig(d) \/ Exit(d)

Write(d) ==
    OpenTemp(d) \/ WriteTemp(d) \/ Rename(d) \/ SetPermissions(d) \/ IoError(d)

DaemonStep(d) ==
    \/ Write(d) \/ Shutdown(d)
    \/ Bind(d) \/ BindFails(d) \/ HeartbeatRead(d) \/ HeartbeatStops(d)
    \/ Signal(d) \/ Kill(d)
-----------------------------------------------------------------------------
(* auto_link *)

GoesTo(c, step) ==
    /\ pc' = [pc EXCEPT ![c] = step]
    /\ UNCHANGED <<procVars, writeVars, fileVars, link, bound, overlap>>

LinksTo(c, d) ==
    /\ pc' = [pc EXCEPT ![c] = "linked"]
    /\ link' = [link EXCEPT ![c] = d]
    /\ UNCHANGED <<procVars, writeVars, fileVars, bound, overlap>>

\* try_existing up to the look at the process.
TryExisting(c) ==
    /\ pc[c] = "idle"
    /\ \/ ReadBy(c) = None /\ GoesTo(c, "spawn")
       \/ \E d \in Daemons : ReadBy(c) = d /\ Alive(d) /\ LinksTo(c, d)
       \/ \E d \in Daemons : /\ ReadBy(c) = d /\ ~Alive(d)
                             /\ GoesTo(c, "stale")

\* The file that was found stale is removed by its name.
RemoveStale(c) ==
    /\ pc[c] = "stale"
    /\ RemoveFile
    /\ pc' = [pc EXCEPT ![c] = "spawn"]
    /\ UNCHANGED <<procVars, writer, copy, link, bound, overlap>>

SpawnDaemon(c) ==
    /\ pc[c] = "spawn"
    /\ \E d \in Daemons :
          /\ stage[d] = "none"
          /\ stage' = [stage EXCEPT ![d] = "starting"]
    /\ pc' = [pc EXCEPT ![c] = "waiting"]
    /\ UNCHANGED <<accepting, beating, writeVars, fileVars, link, bound, overlap>>

\* There is no daemon binary, or it cannot be run.
SpawnFails(c) ==
    /\ pc[c] = "spawn" /\ GoesTo(c, "idle")

\* wait_for_daemon_json takes the first config it can read.
Poll(c) ==
    /\ pc[c] = "waiting"
    /\ \E d \in Daemons : ReadBy(c) = d /\ LinksTo(c, d)

TimeOut(c) ==
    /\ pc[c] = "waiting" /\ GoesTo(c, "idle")

\* A client that has linked ends, and its user starts another one; one that
\* has failed ends by itself.
Again(c) ==
    /\ pc[c] = "linked"
    /\ pc' = [pc EXCEPT ![c] = "idle"]
    /\ link' = [link EXCEPT ![c] = None]
    /\ UNCHANGED <<procVars, writeVars, fileVars, bound, overlap>>

ClientStep(c) ==
    \/ TryExisting(c) \/ RemoveStale(c) \/ SpawnDaemon(c) \/ SpawnFails(c)
    \/ Poll(c) \/ TimeOut(c) \/ Again(c)
-----------------------------------------------------------------------------
LifecycleNext ==
    \/ \E d \in Daemons : DaemonStep(d)
    \/ \E c \in AllClients : ClientStep(c)

LifecycleSpec == LifecycleInit /\ [][LifecycleNext]_lifecycleVars

LifecycleFairSpec == LifecycleSpec /\ \A d \in Daemons : WF_lifecycleVars(Shutdown(d))
-----------------------------------------------------------------------------
(* Properties *)

\* The types of the state.
LifecycleTypes ==
    /\ stage \in [Daemons -> DaemonStages]
    /\ accepting \in [Daemons -> BOOLEAN]
    /\ beating \in [Daemons -> BOOLEAN]
    /\ writer \in [Daemons -> {"idle", "ready", "open", "wrote", "renamed"}]
    /\ copy \in [Daemons -> Daemons \cup {None}]
    /\ fd \in [Daemons -> {"none", "tmp", "json", "nobody's"}]
    /\ {tmp, json} \subseteq Daemons \cup {None, Empty, Torn}
    /\ pc \in [AllClients -> {"idle", "stale", "spawn", "waiting", "linked"}]
    /\ link \in [AllClients -> Daemons \cup {None}]
    /\ bound \subseteq Daemons
    /\ overlap \in BOOLEAN

\* A client that auto_link has given an address finds a server there that was
\* bound: daemon.json, with its temporary file, the copies that heartbeats of
\* other daemons hold and the files that writers overwrite, never names a
\* daemon that has not bound (lifecycle.rs binds before it writes).
LinkedIsBound == \A c \in AllClients : pc[c] = "linked" => link[c] \in bound

\* What config.rs claims for its temporary file and rename: a reader sees the
\* old daemon.json or the new one, never a half-written one, and the rename
\* finds its file.  It holds, with crashes at any step, as long as no two
\* daemons of the workplace have daemon.tmp open at once.
SingleWriterAtomic ==
    ~overlap =>
        /\ json # None => json \in Daemons
        /\ \A d \in Daemons : writer[d] = "wrote" => tmp # None

\* A daemon that has received SIGTERM ends.  With main's order (AwaitsServer) it
\* does not: the accept loop that main awaits ends only in shutdown.
SignalEnds ==
    \A d \in Daemons : stage[d] = "signalled" ~> stage[d] = "gone"
=============================================================================
