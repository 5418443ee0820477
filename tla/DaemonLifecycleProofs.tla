------------------------ MODULE DaemonLifecycleProofs ------------------------
(***************************************************************************)
(* For any number of daemons and clients of a workplace: a client links    *)
(* only to a daemon that has bound its server, and daemon.json is written  *)
(* atomically as long as one daemon at a time writes daemon.tmp.           *)
(***************************************************************************)
EXTENDS DaemonLifecycle, TLAPS

\* Whatever holds a config, a file, a heartbeat or a client, holds the config
\* of a daemon that has bound.
NamesBound ==
    /\ tmp \in Daemons => tmp \in bound
    /\ json \in Daemons => json \in bound
    /\ \A d \in Daemons : copy[d] \in Daemons => copy[d] \in bound
    /\ \A c \in AllClients : pc[c] = "linked" => link[c] \in bound

\* A writer that has not written yet has a config to write.
HasCopy == \A d \in Daemons : writer[d] \in {"ready", "open"} => copy[d] \in Daemons

\* Without an overlap the one writer that holds daemon.tmp has it for itself.
SoleWriter ==
    ~overlap =>
        /\ \A d, e \in Daemons : Holds(d) /\ Holds(e) => d = e
        /\ \A d \in Daemons : writer[d] = "open" => fd[d] = "tmp" /\ tmp = Empty
        /\ \A d \in Daemons : writer[d] = "wrote" => tmp \in Daemons
        /\ json # None => json \in Daemons

LifecycleInv == LifecycleTypes /\ NamesBound /\ HasCopy /\ SoleWriter

LEMMA InitInv == LifecycleInit => LifecycleInv
  <1> SUFFICES ASSUME LifecycleInit PROVE LifecycleInv
    OBVIOUS
  <1> USE LifecycleAssumption DEF LifecycleInit
  <1>1. LifecycleTypes
    BY DEF LifecycleTypes, DaemonStages
  <1>2. NamesBound /\ HasCopy
    BY DEF NamesBound, HasCopy
  <1>3. SoleWriter
    BY DEF SoleWriter, Holds
  <1> QED BY <1>1, <1>2, <1>3 DEF LifecycleInv

\* A step that leaves files and writers alone, or only stops a writer.
LEMMA ReleaseInv ==
    ASSUME LifecycleInv, NEW d \in Daemons, Release(d),
           UNCHANGED <<fileVars, clientVars, bound, overlap>>
    PROVE  /\ NamesBound' /\ HasCopy' /\ SoleWriter'
           /\ writer' \in [Daemons -> {"idle", "ready", "open", "wrote", "renamed"}]
           /\ copy' \in [Daemons -> Daemons \cup {None}]
           /\ fd' \in [Daemons -> {"none", "tmp", "json", "nobody's"}]
  BY LifecycleAssumption
  DEF LifecycleInv, LifecycleTypes, NamesBound, HasCopy, SoleWriter, Holds, Release,
      fileVars, clientVars

LEMMA StopsInv ==
    ASSUME LifecycleInv, NEW d \in Daemons, Stops(d),
           UNCHANGED <<fileVars, clientVars, bound, overlap>>
    PROVE  LifecycleInv'
  <1>1. Release(d)
    BY DEF Stops
  <1>2. /\ stage' \in [Daemons -> DaemonStages]
        /\ accepting' \in [Daemons -> BOOLEAN]
        /\ beating' \in [Daemons -> BOOLEAN]
    BY DEF Stops, LifecycleInv, LifecycleTypes, DaemonStages
  <1> QED BY <1>1, <1>2, ReleaseInv DEF LifecycleInv, LifecycleTypes, fileVars, clientVars

\* The end of a write, good or bad.
LEMMA WriteEndsInv ==
    ASSUME LifecycleInv, NEW d \in Daemons, Written(d) \/ WriteFails(d),
           UNCHANGED <<fileVars, clientVars, bound, overlap>>
    PROVE  LifecycleInv'
  <1>1. CASE stage[d] = "writing" /\ Stops(d)
    BY <1>1, StopsInv
  <1>2. CASE Release(d) /\ UNCHANGED procVars
    BY <1>2, ReleaseInv DEF LifecycleInv, LifecycleTypes, fileVars, clientVars, procVars
  <1>3. CASE Written(d) /\ stage[d] = "writing"
    <2>1. /\ stage' \in [Daemons -> DaemonStages]
          /\ accepting' \in [Daemons -> BOOLEAN]
          /\ beating' \in [Daemons -> BOOLEAN]
      BY <1>3 DEF Written, LifecycleInv, LifecycleTypes, DaemonStages, Running
    <2> QED BY <1>3, <2>1, ReleaseInv
            DEF Written, LifecycleInv, LifecycleTypes, fileVars, clientVars
  <1> QED BY <1>1, <1>2, <1>3 DEF Written, WriteFails

\* A step of a process that changes none of the files, writers and clients.
LEMMA ProcessInv ==
    ASSUME LifecycleInv,
           stage' \in [Daemons -> DaemonStages],
           accepting' \in [Daemons -> BOOLEAN],
           beating' \in [Daemons -> BOOLEAN],
           UNCHANGED <<writeVars, fileVars, clientVars, bound, overlap>>
    PROVE  LifecycleInv'
  BY DEF LifecycleInv, LifecycleTypes, NamesBound, HasCopy, SoleWriter, Holds,
         writeVars, fileVars, clientVars

\* daemon.json disappears; a writer of daemon.tmp keeps its file.
LEMMA RemoveFileInv ==
    ASSUME LifecycleInv, RemoveFile, UNCHANGED <<writer, copy, bound, overlap>>
    PROVE  /\ fd' \in [Daemons -> {"none", "tmp", "json", "nobody's"}]
           /\ tmp' = tmp /\ json' = None
           /\ HasCopy' /\ SoleWriter'
  <1>1. \A e \in Daemons : /\ fd'[e] \in {"none", "tmp", "json", "nobody's"}
                           /\ fd[e] = "tmp" => fd'[e] = "tmp"
    BY DEF LifecycleInv, LifecycleTypes, RemoveFile, AfterRemove
  <1>2. fd' \in [Daemons -> {"none", "tmp", "json", "nobody's"}]
    BY <1>1 DEF RemoveFile
  <1> QED BY <1>1, <1>2, LifecycleAssumption
          DEF LifecycleInv, LifecycleTypes, HasCopy, SoleWriter, Holds, RemoveFile

LEMMA OpenTempInv ==
    ASSUME LifecycleInv, NEW d \in Daemons, OpenTemp(d)
    PROVE  LifecycleInv'
  <1> USE LifecycleAssumption DEF procVars, clientVars
  <1>1. LifecycleTypes'
    BY DEF LifecycleInv, LifecycleTypes, OpenTemp, Holds
  <1>2. NamesBound' /\ HasCopy'
    BY DEF LifecycleInv, LifecycleTypes, NamesBound, HasCopy, OpenTemp
  <1>3. SoleWriter'
    BY DEF LifecycleInv, LifecycleTypes, SoleWriter, Holds, OpenTemp
  <1> QED BY <1>1, <1>2, <1>3 DEF LifecycleInv

LEMMA WriteTempInv ==
    ASSUME LifecycleInv, NEW d \in Daemons, WriteTemp(d)
    PROVE  LifecycleInv'
  <1> USE LifecycleAssumption DEF procVars, clientVars
  <1>1. copy[d] \in Daemons /\ copy[d] \in bound
    BY DEF LifecycleInv, NamesBound, HasCopy, WriteTemp
  <1>2. tmp' \in {tmp, copy[d], Torn} /\ json' \in {json, copy[d], Torn}
    BY DEF WriteTemp, Overwritten
  <1>3. LifecycleTypes'
    BY <1>1, <1>2 DEF LifecycleInv, LifecycleTypes, WriteTemp
  <1>4. NamesBound' /\ HasCopy'
    BY <1>1, <1>2 DEF LifecycleInv, LifecycleTypes, NamesBound, HasCopy, WriteTemp
  <1>5. ASSUME ~overlap PROVE tmp' = copy[d] /\ json' = json
    BY <1>5 DEF LifecycleInv, SoleWriter, WriteTemp, Overwritten
  <1>6. SoleWriter'
    BY <1>1, <1>5 DEF LifecycleInv, LifecycleTypes, SoleWriter, Holds, WriteTemp
  <1> QED BY <1>3, <1>4, <1>6 DEF LifecycleInv

LEMMA RenameInv ==
    ASSUME LifecycleInv, NEW d \in Daemons, Rename(d)
    PROVE  LifecycleInv'
  <1> USE LifecycleAssumption DEF procVars, clientVars
  <1>1. CASE tmp = None /\ WriteFails(d) /\ UNCHANGED fileVars
    BY <1>1, WriteEndsInv DEF Rename
  <1>2. CASE /\ tmp # None /\ json' = tmp /\ tmp' = None
             /\ writer' = [writer EXCEPT ![d] = "renamed"]
             /\ fd' = [e \in Daemons |-> AfterRename(fd[e])]
             /\ UNCHANGED <<procVars, copy>>
    <2>1. \A e \in Daemons : fd'[e] \in {"none", "tmp", "json", "nobody's"}
      BY <1>2 DEF LifecycleInv, LifecycleTypes, AfterRename
    <2>2. fd' \in [Daemons -> {"none", "tmp", "json", "nobody's"}]
      BY <1>2, <2>1
    <2>3. LifecycleTypes'
      BY <1>2, <2>2 DEF LifecycleInv, LifecycleTypes, Rename
    <2>4. NamesBound' /\ HasCopy'
      BY <1>2 DEF LifecycleInv, LifecycleTypes, NamesBound, HasCopy, Rename
    <2>5. SoleWriter'
      BY <1>2 DEF LifecycleInv, LifecycleTypes, SoleWriter, Holds, Rename
    <2> QED BY <2>3, <2>4, <2>5 DEF LifecycleInv
  <1> QED BY <1>1, <1>2 DEF Rename

\* A daemon prepares the config it is about to write.
LEMMA ReadyInv ==
    ASSUME LifecycleInv, NEW d \in Daemons, Bind(d) \/ HeartbeatRead(d)
    PROVE  LifecycleInv'
  <1> USE LifecycleAssumption DEF procVars, clientVars, fileVars
  <1>1. /\ writer' = [writer EXCEPT ![d] = "ready"]
        /\ copy'[d] \in Daemons /\ copy'[d] \in bound'
        /\ copy' = [copy EXCEPT ![d] = copy'[d]]
        /\ bound \subseteq bound' /\ bound' \subseteq Daemons
        /\ UNCHANGED <<accepting, beating, fd, fileVars, clientVars, overlap>>
        /\ stage' \in [Daemons -> DaemonStages]
    BY DEF LifecycleInv, LifecycleTypes, NamesBound, Bind, HeartbeatRead, Read, DaemonStages, Running
  <1>2. LifecycleTypes'
    BY <1>1 DEF LifecycleInv, LifecycleTypes
  <1>3. NamesBound' /\ HasCopy'
    BY <1>1 DEF LifecycleInv, LifecycleTypes, NamesBound, HasCopy
  <1>4. SoleWriter'
    BY <1>1 DEF LifecycleInv, LifecycleTypes, SoleWriter, Holds
  <1> QED BY <1>2, <1>3, <1>4 DEF LifecycleInv

LEMMA DaemonInv ==
    ASSUME LifecycleInv, NEW d \in Daemons, DaemonStep(d)
    PROVE  LifecycleInv'
  <1>1. CASE SetPermissions(d) \/ IoError(d)
    BY <1>1, WriteEndsInv DEF SetPermissions, IoError
  <1>2. CASE BindFails(d) \/ Exit(d) \/ Kill(d)
    BY <1>2, StopsInv DEF BindFails, Exit, Kill
  <1>3. CASE HeartbeatStops(d) \/ ServerStops(d) \/ Signal(d) \/ BeginShutdown(d)
    <2>1. /\ stage' \in [Daemons -> DaemonStages]
          /\ accepting' \in [Daemons -> BOOLEAN]
          /\ beating' \in [Daemons -> BOOLEAN]
      BY <1>3 DEF LifecycleInv, LifecycleTypes, HeartbeatStops, ServerStops, Signal,
                  BeginShutdown, DaemonStages, Running, Notified
    <2>2. UNCHANGED <<writeVars, fileVars, clientVars, bound, overlap>>
      BY <1>3 DEF HeartbeatStops, ServerStops, Signal, BeginShutdown
    <2> QED BY <2>1, <2>2, ProcessInv
  <1>4. CASE RemoveConfig(d)
    <2>1. /\ fd' \in [Daemons -> {"none", "tmp", "json", "nobody's"}]
          /\ tmp' = tmp /\ json' = None
          /\ HasCopy' /\ SoleWriter'
      BY <1>4, RemoveFileInv DEF RemoveConfig
    <2>2. stage' \in [Daemons -> DaemonStages]
      BY <1>4 DEF LifecycleInv, LifecycleTypes, RemoveConfig, DaemonStages, Running, Notified
    <2> QED BY <1>4, <2>1, <2>2, LifecycleAssumption
            DEF LifecycleInv, LifecycleTypes, NamesBound, RemoveConfig, clientVars
  <1> QED BY <1>1, <1>2, <1>3, <1>4, OpenTempInv, WriteTempInv, RenameInv, ReadyInv
          DEF DaemonStep, Write, Shutdown

\* A client that only moves on, and does not link.
LEMMA MovesInv ==
    ASSUME LifecycleInv, NEW c \in AllClients,
           NEW step \in {"idle", "stale", "spawn", "waiting"},
           pc' = [pc EXCEPT ![c] = step],
           link' \in [AllClients -> Daemons \cup {None}],
           \A b \in AllClients : b # c => link'[b] = link[b],
           UNCHANGED <<procVars, writeVars, fileVars, bound, overlap>>
    PROVE  LifecycleInv'
  BY DEF LifecycleInv, LifecycleTypes, NamesBound, HasCopy, SoleWriter, Holds,
         procVars, writeVars, fileVars

LEMMA LinksInv ==
    ASSUME LifecycleInv, NEW c \in AllClients, NEW d \in Daemons,
           ReadBy(c) = d, LinksTo(c, d)
    PROVE  LifecycleInv'
  <1>1. d \in bound
    BY LifecycleAssumption DEF LifecycleInv, NamesBound, ReadBy, Read
  <1> QED BY <1>1 DEF LifecycleInv, LifecycleTypes, NamesBound, HasCopy, SoleWriter, Holds,
                      LinksTo, procVars, writeVars, fileVars

LEMMA ClientInv ==
    ASSUME LifecycleInv, NEW c \in AllClients, ClientStep(c)
    PROVE  LifecycleInv'
  <1>1. ASSUME NEW step \in {"idle", "stale", "spawn"}, GoesTo(c, step)
        PROVE  LifecycleInv'
    BY <1>1, MovesInv DEF GoesTo, LifecycleInv, LifecycleTypes
  <1>2. CASE TryExisting(c)
    BY <1>1, <1>2, LinksInv DEF TryExisting
  <1>3. CASE SpawnFails(c) \/ TimeOut(c)
    BY <1>1, <1>3 DEF SpawnFails, TimeOut
  <1>4. CASE Poll(c)
    BY <1>4, LinksInv DEF Poll
  <1>5. CASE Again(c)
    <2>1. /\ link' \in [AllClients -> Daemons \cup {None}]
          /\ \A b \in AllClients : b # c => link'[b] = link[b]
      BY <1>5 DEF Again, LifecycleInv, LifecycleTypes
    <2> QED BY <1>5, <2>1, MovesInv DEF Again
  <1>6. CASE SpawnDaemon(c)
    <2>1. stage' \in [Daemons -> DaemonStages]
      BY <1>6 DEF SpawnDaemon, LifecycleInv, LifecycleTypes, DaemonStages, Running
    <2> QED BY <1>6, <2>1
            DEF SpawnDaemon, LifecycleInv, LifecycleTypes, NamesBound, HasCopy, SoleWriter,
                Holds, writeVars, fileVars
  <1>7. CASE RemoveStale(c)
    <2>1. /\ fd' \in [Daemons -> {"none", "tmp", "json", "nobody's"}]
          /\ tmp' = tmp /\ json' = None
          /\ HasCopy' /\ SoleWriter'
      BY <1>7, RemoveFileInv DEF RemoveStale
    <2> QED BY <1>7, <2>1, LifecycleAssumption
            DEF LifecycleInv, LifecycleTypes, NamesBound, RemoveStale, procVars
  <1> QED BY <1>2, <1>3, <1>4, <1>5, <1>6, <1>7 DEF ClientStep

LEMMA NextInv == LifecycleInv /\ [LifecycleNext]_lifecycleVars => LifecycleInv'
  <1> SUFFICES ASSUME LifecycleInv, [LifecycleNext]_lifecycleVars PROVE LifecycleInv'
    OBVIOUS
  <1>1. CASE UNCHANGED lifecycleVars
    BY <1>1, ProcessInv DEF lifecycleVars, procVars, LifecycleInv, LifecycleTypes
  <1> QED BY <1>1, DaemonInv, ClientInv DEF LifecycleNext

\* However many daemons and clients a workplace has, and whenever daemons die:
\* auto_link gives only addresses that have been bound, and daemon.json is
\* never half-written unless two daemons had daemon.tmp open at once.
THEOREM LifecycleSafe == LifecycleSpec => [](LifecycleTypes /\ LinkedIsBound /\ SingleWriterAtomic)
  <1>1. LifecycleInv => LifecycleTypes /\ LinkedIsBound /\ SingleWriterAtomic
    BY LifecycleAssumption
    DEF LifecycleInv, NamesBound, SoleWriter, LinkedIsBound, SingleWriterAtomic
  <1> QED BY <1>1, InitInv, NextInv, PTL DEF LifecycleSpec

\* However many daemons and clients there are, auto_link() never gives a client
\* the address of a daemon that has not bound it.
COROLLARY LinksAreBound == LifecycleSpec => []LinkedIsBound
  BY LifecycleSafe, PTL
=============================================================================
