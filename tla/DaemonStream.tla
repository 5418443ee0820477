---------------------------- MODULE DaemonStream ----------------------------
(***************************************************************************)
(* The daemon's connections and its event stream (agent/daemon: main.rs,   *)
(* server.rs, connection.rs, broadcaster.rs, event_pump.rs): clients       *)
(* connect under a limit, the tick task numbers events and broadcasts      *)
(* them, and every connection task forwards its channel to its client.     *)
(*                                                                         *)
(* The accept loop handles one connection at a time; connection tasks and  *)
(* the tick task run beside it.                                            *)
(***************************************************************************)
EXTENDS Naturals, Sequences, FiniteSets

CONSTANTS
    Conns,        \* connections; each is made once
    NoConn,
    MaxClients,   \* limit of the connection tracker
    RateLimit,    \* requests a connection may make between two refills
    MaxEvents     \* bound: events in the life of the daemon

ASSUME StreamAssumption ==
    /\ IsFiniteSet(Conns) /\ NoConn \notin Conns
    /\ MaxClients \in Nat /\ RateLimit \in Nat /\ MaxEvents \in Nat

VARIABLES
    conn,      \* [Conns -> stage of the connection]
    active,    \* ConnectionTracker: connections counted
    clients,   \* EventBroadcaster: [Keys -> connection whose sender is stored]
    pumped,    \* events the ticks have made so far
    pending,   \* events of the last tick that are not broadcast yet
    chan,      \* [Conns -> events waiting for the connection task]
    sent,      \* [Conns -> events written to the client], a history
    tokens     \* [Conns -> requests left before the next refill]

vars == <<conn, active, clients, pumped, pending, chan, sent, tokens>>
streamVars == <<pumped, pending, sent>>

Stages ==
    {"new", "registered", "rejecting", "upgrading", "Connected", "Initialized",
     "closed"}

\* n is the place of an event among all events, seq the number it carries.
Event == [n : 1..MaxEvents, seq : 1..MaxEvents]

\* The names under which main.rs registers connections with the broadcaster.
Keys == {"conn"}
ConnKey(c) == "conn"

Open(c) == conn[c] \in {"Connected", "Initialized"}

\* The receiving end of the connection's channel still exists.
Receives(c) == conn[c] \in {"registered", "rejecting", "upgrading"} \/ Open(c)

Registered(c) == clients[ConnKey(c)] = c

Init ==
    /\ conn = [c \in Conns |-> "new"]
    /\ active = 0
    /\ clients = [k \in Keys |-> NoConn]
    /\ pumped = 0 /\ pending = <<>>
    /\ chan = [c \in Conns |-> <<>>] /\ sent = [c \in Conns |-> <<>>]
    /\ tokens = [c \in Conns |-> RateLimit]
-----------------------------------------------------------------------------
(* Accepting connections *)

\* A new connection is registered with the broadcaster before anything else,
\* and the sender stored under its name is dropped.
Accept(c) ==
    /\ conn[c] = "new"
    /\ \A d \in Conns : conn[d] \notin {"registered", "rejecting"}
    /\ conn' = [conn EXCEPT ![c] = "registered"]
    /\ clients' = [clients EXCEPT ![ConnKey(c)] = c]
    /\ UNCHANGED <<active, streamVars, chan, tokens>>

\* try_connect counts first and looks at the limit afterwards.
TryConnect(c) ==
    /\ conn[c] = "registered"
    /\ active' = active + 1
    /\ conn' = [conn EXCEPT ![c] =
                   IF active >= MaxClients THEN "rejecting" ELSE "upgrading"]
    /\ UNCHANGED <<clients, streamVars, chan, tokens>>

\* Mutant of Disconnect: the connection is counted out twice.
DisconnectTwice(c) ==
    /\ conn' = [conn EXCEPT ![c] = "closed"]
    /\ active' = active - 2
    /\ chan' = [chan EXCEPT ![c] = <<>>]
    /\ UNCHANGED <<clients, streamVars, tokens>>

\* The end of a connection: it is counted out and its channel is dropped.
\* Nothing removes its sender from the broadcaster.
Disconnect(c) ==
    /\ conn' = [conn EXCEPT ![c] = "closed"]
    /\ active' = active - 1
    /\ chan' = [chan EXCEPT ![c] = <<>>]
    /\ UNCHANGED <<clients, streamVars, tokens>>

Reject(c) == conn[c] = "rejecting" /\ Disconnect(c)

Upgraded(c) ==
    /\ conn[c] = "upgrading"
    /\ conn' = [conn EXCEPT ![c] = "Connected"]
    /\ UNCHANGED <<active, clients, streamVars, chan, tokens>>

\* Mutant of UpgradeFails: the slot of the connection is not given back.
UpgradeFailsUncounted(c) ==
    /\ conn[c] = "upgrading"
    /\ conn' = [conn EXCEPT ![c] = "closed"]
    /\ chan' = [chan EXCEPT ![c] = <<>>]
    /\ UNCHANGED <<active, clients, streamVars, tokens>>

\* A foreign origin, a wrong token or a broken handshake.
UpgradeFails(c) == conn[c] = "upgrading" /\ Disconnect(c)
-----------------------------------------------------------------------------
(* The connection task *)

\* A request: over the limit it is refused; the first one that is answered
\* with a result is session.initialize.
Request(c, method, refill) ==
    LET left == IF refill THEN RateLimit ELSE tokens[c]
    IN  /\ Open(c)
        /\ tokens' = [tokens EXCEPT ![c] = IF left > 0 THEN left - 1 ELSE 0]
        /\ conn' = IF left > 0 /\ method = "initialize"
                   THEN [conn EXCEPT ![c] = "Initialized"] ELSE conn
        /\ UNCHANGED <<active, clients, streamVars, chan>>

ForwardEvent(c) ==
    /\ Open(c) /\ chan[c] # <<>>
    /\ sent' = [sent EXCEPT ![c] = Append(@, Head(chan[c]))]
    /\ chan' = [chan EXCEPT ![c] = Tail(@)]
    /\ UNCHANGED <<conn, active, clients, pumped, pending, tokens>>

\* The client closes, sends a binary frame or is silent for too long, or the
\* socket fails.
Leave(c) == Open(c) /\ Disconnect(c)

\* Mutant of ChannelClosed: the task goes on without its channel.
ChannelClosedIgnored(c) ==
    /\ Open(c) /\ ~Registered(c) /\ chan[c] = <<>>
    /\ UNCHANGED vars

\* The sender is gone and the channel is empty: the connection is closed.
ChannelClosed(c) == Open(c) /\ ~Registered(c) /\ chan[c] = <<>> /\ Disconnect(c)
-----------------------------------------------------------------------------
(* The tick task *)

\* Every tick has an EventPump of its own, which counts from one.
PumpSeq(i) == i

\* A tick makes k events; the next tick waits until they are broadcast.
Tick(k) ==
    /\ pending = <<>>
    /\ pumped + k <= MaxEvents
    /\ pending' = [i \in 1..k |-> [n |-> pumped + i, seq |-> PumpSeq(i)]]
    /\ pumped' = pumped + k
    /\ UNCHANGED <<conn, active, clients, chan, sent, tokens>>

\* Mutant of Broadcast: a client that has an event waiting gets no other.
BroadcastDropsLagging ==
    /\ pending # <<>>
    /\ pending' = Tail(pending)
    /\ chan' = [c \in Conns |-> IF Registered(c) /\ Receives(c) /\ chan[c] = <<>>
                                THEN Append(chan[c], Head(pending)) ELSE chan[c]]
    /\ UNCHANGED <<conn, active, clients, pumped, sent, tokens>>

\* Sends to channels whose receiver is gone are ignored.
Broadcast ==
    /\ pending # <<>>
    /\ pending' = Tail(pending)
    /\ chan' = [c \in Conns |-> IF Registered(c) /\ Receives(c)
                                THEN Append(chan[c], Head(pending)) ELSE chan[c]]
    /\ UNCHANGED <<conn, active, clients, pumped, sent, tokens>>
-----------------------------------------------------------------------------
AcceptStep(c) == Accept(c) \/ TryConnect(c) \/ Reject(c)
UpgradeStep(c) == Upgraded(c) \/ UpgradeFails(c)
RequestStep(c) ==
    \E method \in {"initialize", "other"}, refill \in BOOLEAN :
        Request(c, method, refill)
DeliverStep(c) == ForwardEvent(c) \/ ChannelClosed(c)
TickStep == Broadcast \/ \E k \in 0..MaxEvents : Tick(k)

Next ==
    \/ \E c \in Conns :
          \/ AcceptStep(c) \/ UpgradeStep(c)
          \/ RequestStep(c) \/ DeliverStep(c) \/ Leave(c)
    \/ TickStep

\* The tokio runtime polls every task that can go on.
Fairness == \A c \in Conns : WF_vars(DeliverStep(c))

Spec == Init /\ [][Next]_vars
FairSpec == Spec /\ Fairness
-----------------------------------------------------------------------------
(* Properties *)

\* Every variable keeps its type.
TypeOK ==
    /\ conn \in [Conns -> Stages]
    /\ active \in Nat
    /\ clients \in [Keys -> Conns \cup {NoConn}]
    /\ pumped \in 0..MaxEvents
    /\ pending \in Seq(Event)
    /\ chan \in [Conns -> Seq(Event)] /\ sent \in [Conns -> Seq(Event)]
    /\ tokens \in [Conns -> 0..RateLimit]

Served == {c \in Conns : conn[c] = "upgrading" \/ Open(c)}
Counted == Served \cup {c \in Conns : conn[c] = "rejecting"}

\* The tracker counts exactly the connections that hold a slot, on every path
\* by which one can end, and never serves more than the limit although it
\* counts before it looks (ConnectionTracker::try_connect, disconnect).
TrackerExact ==
    /\ active = Cardinality(Counted)
    /\ Cardinality(Served) <= MaxClients

\* What a connection has been sent and what waits for it: the events as they
\* were made, one after the other, none missing in between, however accepts,
\* closes and broadcasts interleave (EventBroadcaster::broadcast, Connection::spawn).
Stream(c) == sent[c] \o chan[c]
GapFree ==
    \A c \in Conns : \A i \in 1..Len(Stream(c)) - 1 :
        Stream(c)[i + 1].n = Stream(c)[i].n + 1

\* A connection whose sender was dropped does not linger: its task writes what
\* is left in its channel, ends, and gives the slot back.
ReplacedEnds == \A c \in Conns : Open(c) /\ ~Registered(c) ~> ~Open(c)

\* The broadcaster fans out events to all connected clients: every open
\* connection is registered.
EveryClientHears == \A c \in Conns : Open(c) => Registered(c)

\* The numbers a client sees are runs that start at one, a run for every tick:
\* within a run none is left out, so a client can notice a lost event of a
\* tick, and only of a tick (each tick makes a pump, and the pump counts).
SeqRuns ==
    \A c \in Conns : \A i \in 1..Len(sent[c]) - 1 :
        sent[c][i + 1].seq \in {1, sent[c][i].seq + 1}
=============================================================================
