------------------------- MODULE DaemonStreamProofs -------------------------
(***************************************************************************)
(* The daemon's event stream, for every set of connections, every limit    *)
(* and every number of events: the tracker is exact and the stream of a    *)
(* connection has no gap.                                                  *)
(*                                                                         *)
(* Neither fact is inductive by itself.  The tracker needs the types, and  *)
(* that what is counted is a finite set.  The stream needs three facts     *)
(* about what is still on its way: the pending events are the last ones    *)
(* made (PendingRun), a channel that is fed ends with the event before the *)
(* first pending one (UpToDate), and a connection starts with nothing      *)
(* (Fresh).                                                                *)
(***************************************************************************)
EXTENDS DaemonStream, FiniteSetTheorems, SequenceTheorems, TLAPS

PendingRun ==
    /\ Len(pending) <= pumped
    /\ \A i \in 1..Len(pending) : pending[i].n = pumped - Len(pending) + i

UpToDate ==
    \A c \in Conns : Registered(c) /\ Receives(c) /\ Len(Stream(c)) > 0 =>
        Stream(c)[Len(Stream(c))].n = pumped - Len(pending)

Fresh ==
    \A c \in Conns : conn[c] = "new" => ~Registered(c) /\ Stream(c) = <<>>

StreamInv == TypeOK /\ TrackerExact /\ PendingRun /\ UpToDate /\ Fresh /\ GapFree
-----------------------------------------------------------------------------
\* The initial state satisfies the invariant (main.rs).
LEMMA InitInv == Init => StreamInv
<1> SUFFICES ASSUME Init PROVE StreamInv
  OBVIOUS
<1> USE StreamAssumption DEF Init
<1>1. TypeOK
  BY DEF TypeOK, Stages, Keys
<1>2. Counted = {} /\ Served = {}
  BY DEF Counted, Served, Open
<1>3. TrackerExact
  BY <1>2, FS_EmptySet DEF TrackerExact
<1>4. \A c \in Conns : Stream(c) = <<>>
  BY DEF Stream
<1>5. PendingRun
  BY DEF PendingRun
<1>6. UpToDate
  BY <1>4 DEF UpToDate
<1>7. Fresh
  BY <1>4 DEF Fresh, Registered, ConnKey, Keys
<1>8. GapFree
  BY <1>4 DEF GapFree
<1> QED
  BY <1>1, <1>3, <1>5, <1>6, <1>7, <1>8 DEF StreamInv
-----------------------------------------------------------------------------
(* Types *)

LEMMA DisconnectTyped ==
    ASSUME TypeOK, active > 0, NEW c \in Conns, Disconnect(c)
    PROVE  TypeOK'
  BY DEF Disconnect, streamVars, TypeOK, Stages

LEMMA TickTyped ==
    ASSUME TypeOK, NEW k \in 0..MaxEvents, Tick(k)
    PROVE  TypeOK'
<1> USE StreamAssumption
<1>1. pending' \in Seq(Event)
  <2>1. \A i \in 1..k : [n |-> pumped + i, seq |-> PumpSeq(i)] \in Event
    BY DEF Tick, TypeOK, Event, PumpSeq
  <2>2. k \in Nat
    OBVIOUS
  <2> QED
    BY <2>1, <2>2 DEF Tick
<1> QED
  BY <1>1 DEF Tick, TypeOK

LEMMA BroadcastTyped ==
    ASSUME TypeOK, Broadcast
    PROVE  TypeOK'
<1>1. pending' \in Seq(Event) /\ Head(pending) \in Event
  BY HeadTailProperties DEF Broadcast, TypeOK
<1>2. \A c \in Conns : Append(chan[c], Head(pending)) \in Seq(Event)
  BY <1>1, AppendProperties DEF TypeOK
<1>3. chan' \in [Conns -> Seq(Event)]
  BY <1>2 DEF Broadcast, TypeOK
<1> QED
  BY <1>1, <1>3 DEF Broadcast, TypeOK

LEMMA ForwardTyped ==
    ASSUME TypeOK, NEW c \in Conns, ForwardEvent(c)
    PROVE  TypeOK'
<1>1. Head(chan[c]) \in Event /\ Tail(chan[c]) \in Seq(Event)
  BY HeadTailProperties DEF ForwardEvent, TypeOK
<1>2. Append(sent[c], Head(chan[c])) \in Seq(Event)
  BY <1>1, AppendProperties DEF TypeOK
<1> QED
  BY <1>1, <1>2 DEF ForwardEvent, TypeOK
-----------------------------------------------------------------------------
(* The tracker *)

\* The connections that hold a slot are finitely many.
LEMMA CountedFinite ==
    /\ IsFiniteSet(Counted) /\ IsFiniteSet(Served)
    /\ Served \subseteq Counted
    /\ Cardinality(Counted) \in Nat /\ Cardinality(Served) \in Nat
    /\ Cardinality(Served) <= Cardinality(Counted)
<1>1. Counted \subseteq Conns /\ Served \subseteq Conns /\ Served \subseteq Counted
  BY DEF Counted, Served
<1>2. IsFiniteSet(Counted) /\ IsFiniteSet(Served)
  BY <1>1, FS_Subset, StreamAssumption
<1>3. Cardinality(Counted) \in Nat /\ Cardinality(Served) \in Nat
  BY <1>2, FS_CardinalityType
<1>4. Cardinality(Served) <= Cardinality(Counted)
  BY <1>1, <1>2, FS_Subset
<1> QED
  BY <1>1, <1>2, <1>3, <1>4

\* A step that moves no connection into or out of a slot.
LEMMA TrackerUntouched ==
    ASSUME TrackerExact, active' = active, Counted' = Counted, Served' = Served
    PROVE  TrackerExact'
  BY DEF TrackerExact

\* A connection that ends gives back the one slot it holds.
LEMMA DisconnectTracked ==
    ASSUME TypeOK, TrackerExact, NEW c \in Counted, Disconnect(c)
    PROVE  active > 0 /\ TrackerExact'
<1>1. c \in Conns
  BY DEF Counted, Served
<1>2. Counted' = Counted \ {c} /\ Served' = Served \ {c}
  BY <1>1 DEF Counted, Served, Open, Disconnect, TypeOK
<1>3. Cardinality(Counted \ {c}) = Cardinality(Counted) - 1
  BY CountedFinite, FS_RemoveElement
<1>4. Cardinality(Counted) > 0
  BY CountedFinite, FS_EmptySet
<1>5. /\ Cardinality(Served \ {c}) \in Nat
      /\ Cardinality(Served \ {c}) <= Cardinality(Served)
  BY CountedFinite, FS_Subset, FS_CardinalityType
<1> QED
  BY <1>2, <1>3, <1>4, <1>5, CountedFinite, StreamAssumption
  DEF TrackerExact, Disconnect

\* Counting first and looking at the limit afterwards is exact.
LEMMA ConnectTracked ==
    ASSUME TypeOK, TrackerExact, NEW c \in Conns, TryConnect(c)
    PROVE  TrackerExact'
<1>1. c \notin Counted /\ c \notin Served
  BY DEF Counted, Served, Open, TryConnect
<1>2. Counted' = Counted \cup {c}
  BY DEF Counted, Served, Open, TryConnect, TypeOK
<1>3. Cardinality(Counted') = Cardinality(Counted) + 1
  BY <1>1, <1>2, CountedFinite, FS_AddElement
<1>4. CASE active >= MaxClients
  <2>1. Served' = Served
    BY <1>4 DEF Served, Open, TryConnect, TypeOK
  <2> QED
    BY <1>3, <2>1, CountedFinite DEF TrackerExact, TryConnect
<1>5. CASE ~(active >= MaxClients)
  <2>1. Served' = Served \cup {c}
    BY <1>5 DEF Served, Open, TryConnect, TypeOK
  <2>2. Cardinality(Served') = Cardinality(Served) + 1
    BY <1>1, <2>1, CountedFinite, FS_AddElement
  <2>3. Cardinality(Served) < MaxClients
    BY <1>5, CountedFinite, StreamAssumption DEF TrackerExact
  <2> QED
    BY <1>3, <2>2, <2>3, CountedFinite, StreamAssumption
    DEF TrackerExact, TryConnect
<1> QED
  BY <1>4, <1>5
-----------------------------------------------------------------------------
(* The stream *)

LEMMA ConcatPrefix ==
    ASSUME NEW S, NEW s \in Seq(S), NEW t \in Seq(S), NEW i \in 1..Len(s)
    PROVE  (s \o t)[i] = s[i]
<1>1. Len(s) \in Nat /\ Len(t) \in Nat
  BY LenProperties
<1>2. i \in 1..(Len(s) + Len(t)) /\ i <= Len(s)
  BY <1>1
<1> QED
  BY <1>2, ConcatProperties

LEMMA IndexWidens ==
    ASSUME NEW a \in Nat, NEW b \in Nat, NEW i \in 1..a, i + 1 \in 1..a
    PROVE  i \in 1..(a + b) - 1
  OBVIOUS

LEMMA StreamTyped ==
    ASSUME TypeOK, NEW c \in Conns
    PROVE  /\ Stream(c) \in Seq(Event)
           /\ Len(Stream(c)) = Len(sent[c]) + Len(chan[c])
           /\ \A i \in 1..Len(sent[c]) : Stream(c)[i] = sent[c][i]
           /\ Len(sent[c]) \in Nat /\ Len(chan[c]) \in Nat
<1>1. sent[c] \in Seq(Event) /\ chan[c] \in Seq(Event)
  BY DEF TypeOK
<1>2. Len(sent[c]) \in Nat /\ Len(chan[c]) \in Nat
  BY <1>1, LenProperties
<1>3. /\ sent[c] \o chan[c] \in Seq(Event)
      /\ Len(sent[c] \o chan[c]) = Len(sent[c]) + Len(chan[c])
  BY <1>1
<1>4. \A i \in 1..Len(sent[c]) : (sent[c] \o chan[c])[i] = sent[c][i]
  BY <1>1, ConcatPrefix
<1> QED
  BY <1>2, <1>3, <1>4 DEF Stream

\* A step that writes nothing, makes nothing and feeds no connection.
LEMMA StreamsUntouched ==
    ASSUME PendingRun, GapFree,
           UNCHANGED <<pumped, pending>>,
           \A c \in Conns : Stream(c)' = Stream(c)
    PROVE  PendingRun' /\ GapFree'
  BY DEF PendingRun, GapFree

\* A connection that ends keeps what it was sent: a prefix of its stream.
LEMMA DisconnectStream ==
    ASSUME TypeOK, TypeOK', PendingRun, UpToDate, Fresh, GapFree,
           NEW c \in Conns, conn[c] # "new", Disconnect(c)
    PROVE  PendingRun' /\ UpToDate' /\ Fresh' /\ GapFree'
<1>1. /\ sent' = sent /\ clients' = clients
      /\ pumped' = pumped /\ pending' = pending
      /\ conn'[c] = "closed" /\ chan'[c] = <<>>
      /\ \A d \in Conns \ {c} : conn'[d] = conn[d] /\ chan'[d] = chan[d]
  BY DEF Disconnect, streamVars, TypeOK
<1>2. \A d \in Conns \ {c} : Stream(d)' = Stream(d)
  BY <1>1 DEF Stream
<1>3. Stream(c)' = sent[c]
  <2>1. sent[c] \in Seq(Event)
    BY DEF TypeOK
  <2>2. sent[c] \o <<>> = sent[c]
    BY <2>1, ConcatEmptySeq
  <2> QED
    BY <1>1, <2>2 DEF Stream
<1>4. PendingRun'
  BY <1>1 DEF PendingRun
<1>5. UpToDate'
  BY <1>1, <1>2 DEF UpToDate, Registered, ConnKey, Receives, Open
<1>6. Fresh'
  BY <1>1, <1>2 DEF Fresh, Registered, ConnKey
<1>7. GapFree'
  <2> SUFFICES ASSUME NEW d \in Conns, NEW i \in 1..(Len(Stream(d)') - 1)
               PROVE  Stream(d)'[i + 1].n = Stream(d)'[i].n + 1
    BY DEF GapFree
  <2>1. CASE d # c
    BY <1>2, <2>1 DEF GapFree
  <2>2. CASE d = c
    <3>1. i \in 1..Len(sent[c]) /\ i + 1 \in 1..Len(sent[c])
      BY <1>3, <2>2, StreamTyped
    <3>2. i \in 1..Len(Stream(c)) - 1
      <4>1. /\ Len(sent[c]) \in Nat /\ Len(chan[c]) \in Nat
            /\ Len(Stream(c)) = Len(sent[c]) + Len(chan[c])
        BY StreamTyped
      <4>2. i \in 1..(Len(sent[c]) + Len(chan[c])) - 1
        BY <3>1, <4>1, IndexWidens
      <4> QED
        BY <4>1, <4>2, Zenon
    <3>3. Stream(c)[i + 1].n = Stream(c)[i].n + 1
      BY <3>2 DEF GapFree
    <3>4. /\ Stream(c)[i] = sent[c][i]
          /\ Stream(c)[i + 1] = sent[c][i + 1]
      BY <3>1, StreamTyped
    <3> QED
      BY <1>3, <2>2, <3>3, <3>4
  <2> QED
    BY <2>1, <2>2
<1> QED
  BY <1>4, <1>5, <1>6, <1>7

\* An accepted connection starts with nothing and replaces the one before it.
LEMMA AcceptStream ==
    ASSUME TypeOK, PendingRun, UpToDate, Fresh, GapFree,
           NEW c \in Conns, Accept(c)
    PROVE  PendingRun' /\ UpToDate' /\ Fresh' /\ GapFree'
<1>1. \A d \in Conns : Stream(d)' = Stream(d)
  BY DEF Stream, Accept, streamVars
<1>2. PendingRun' /\ GapFree'
  BY <1>1, StreamsUntouched DEF Accept, streamVars
<1>3. /\ Registered(c)'
      /\ \A d \in Conns \ {c} : ~Registered(d)'
      /\ \A d \in Conns \ {c} : conn'[d] = conn[d]
      /\ conn'[c] = "registered"
  BY DEF Accept, Registered, ConnKey, Keys, TypeOK
<1>4. Stream(c) = <<>>
  BY DEF Accept, Fresh
<1>5. UpToDate'
  BY <1>1, <1>3, <1>4 DEF UpToDate
<1>6. Fresh'
  BY <1>1, <1>3 DEF Fresh
<1> QED
  BY <1>2, <1>5, <1>6

\* A step inside the life of a connection that leaves channels alone.
LEMMA StageStream ==
    ASSUME PendingRun, UpToDate, Fresh, GapFree,
           UNCHANGED <<clients, pumped, pending, sent, chan>>,
           \A c \in Conns : Receives(c)' => Receives(c),
           \A c \in Conns : conn'[c] = "new" => conn[c] = "new"
    PROVE  PendingRun' /\ UpToDate' /\ Fresh' /\ GapFree'
<1>1. \A c \in Conns : Stream(c)' = Stream(c)
  BY DEF Stream
<1>2. \A c \in Conns : Registered(c)' <=> Registered(c)
  BY DEF Registered, ConnKey
<1>3. PendingRun' /\ GapFree'
  BY <1>1, StreamsUntouched
<1>4. UpToDate'
  BY <1>1, <1>2 DEF UpToDate
<1>5. Fresh'
  BY <1>1, <1>2 DEF Fresh
<1> QED
  BY <1>3, <1>4, <1>5

\* Forwarding moves an event from the channel to the client: the stream stays.
LEMMA ForwardStream ==
    ASSUME TypeOK, PendingRun, UpToDate, Fresh, GapFree,
           NEW c \in Conns, ForwardEvent(c)
    PROVE  PendingRun' /\ UpToDate' /\ Fresh' /\ GapFree'
<1>1. \A d \in Conns \ {c} : Stream(d)' = Stream(d)
  BY DEF Stream, ForwardEvent, TypeOK
<1>2. Stream(c)' = Append(sent[c], Head(chan[c])) \o Tail(chan[c])
  BY DEF Stream, ForwardEvent, TypeOK
<1>3. Append(sent[c], Head(chan[c])) \o Tail(chan[c]) = sent[c] \o chan[c]
  BY DEF ForwardEvent, TypeOK
<1>4. \A d \in Conns : Stream(d)' = Stream(d)
  BY <1>1, <1>2, <1>3 DEF Stream
<1>5. PendingRun' /\ GapFree'
  BY <1>4, StreamsUntouched DEF ForwardEvent
<1>6. UpToDate' /\ Fresh'
  BY <1>4 DEF UpToDate, Fresh, ForwardEvent, Registered, ConnKey, Receives, Open
<1> QED
  BY <1>5, <1>6

\* A tick makes the events that follow the ones made before.
LEMMA TickStream ==
    ASSUME TypeOK, PendingRun, UpToDate, Fresh, GapFree,
           NEW k \in 0..MaxEvents, Tick(k)
    PROVE  PendingRun' /\ UpToDate' /\ Fresh' /\ GapFree'
<1>1. \A c \in Conns : /\ Stream(c)' = Stream(c)
                       /\ Registered(c)' <=> Registered(c)
                       /\ Receives(c)' <=> Receives(c)
                       /\ conn'[c] = conn[c]
  BY DEF Stream, Registered, ConnKey, Receives, Open, Tick
<1>2. Len(pending) = 0 /\ Len(pending') = k /\ pumped' = pumped + k
  BY StreamAssumption DEF Tick
<1>3. PendingRun'
  BY <1>2, StreamAssumption DEF PendingRun, Tick, TypeOK
<1>4. UpToDate'
  BY <1>1, <1>2, StreamAssumption DEF UpToDate, TypeOK
<1>5. Fresh' /\ GapFree'
  BY <1>1 DEF Fresh, GapFree
<1> QED
  BY <1>3, <1>4, <1>5

\* A broadcast adds the first pending event to the stream it continues.
LEMMA BroadcastStream ==
    ASSUME TypeOK, PendingRun, UpToDate, Fresh, GapFree, Broadcast
    PROVE  PendingRun' /\ UpToDate' /\ Fresh' /\ GapFree'
<1> DEFINE ev == Head(pending)
<1>1. /\ pending \in Seq(Event) /\ pending # <<>> /\ Len(pending) \in Nat
      /\ ev = pending[1] /\ ev \in Event
      /\ Len(pending') = Len(pending) - 1 /\ Len(pending) > 0
      /\ \A i \in 1..Len(pending') : pending'[i] = pending[i + 1]
  BY HeadTailProperties DEF Broadcast, TypeOK
<1>2. ev.n = pumped - Len(pending')
  BY <1>1 DEF PendingRun, TypeOK
<1>3. PendingRun'
  BY <1>1, StreamAssumption DEF PendingRun, Broadcast, TypeOK
<1>4. \A c \in Conns : /\ Registered(c)' <=> Registered(c)
                       /\ Receives(c)' <=> Receives(c)
                       /\ conn'[c] = conn[c]
  BY DEF Registered, ConnKey, Receives, Open, Broadcast
<1>5. ASSUME NEW c \in Conns, ~(Registered(c) /\ Receives(c))
      PROVE  Stream(c)' = Stream(c)
  BY <1>5 DEF Stream, Broadcast
<1>6. ASSUME NEW c \in Conns, Registered(c), Receives(c)
      PROVE  Stream(c)' = Append(Stream(c), ev)
  <2>1. Stream(c)' = sent[c] \o Append(chan[c], ev)
    BY <1>6 DEF Stream, Broadcast
  <2>2. sent[c] \o Append(chan[c], ev) = Append(sent[c] \o chan[c], ev)
    BY <1>1 DEF TypeOK
  <2> QED
    BY <2>1, <2>2 DEF Stream
<1>7. ASSUME NEW c \in Conns
      PROVE  /\ Stream(c) \in Seq(Event) /\ Len(Stream(c)) \in Nat
             /\ Len(Append(Stream(c), ev)) = Len(Stream(c)) + 1
             /\ Append(Stream(c), ev)[Len(Stream(c)) + 1] = ev
             /\ \A i \in 1..Len(Stream(c)) : Append(Stream(c), ev)[i] = Stream(c)[i]
  <2>1. Stream(c) \in Seq(Event)
    BY StreamTyped
  <2> QED
    BY <1>1, <2>1, AppendProperties, LenProperties
<1>8. UpToDate'
  <2> SUFFICES ASSUME NEW c \in Conns, Registered(c)', Receives(c)'
               PROVE  Stream(c)'[Len(Stream(c)')].n = (pumped - Len(pending))'
    BY DEF UpToDate
  <2>1. Stream(c)' = Append(Stream(c), ev)
    BY <1>4, <1>6
  <2> QED
    BY <1>2, <1>7, <2>1 DEF Broadcast
<1>9. Fresh'
  BY <1>4, <1>5 DEF Fresh
<1>10. GapFree'
  <2> SUFFICES ASSUME NEW c \in Conns, NEW i \in 1..(Len(Stream(c)') - 1)
               PROVE  Stream(c)'[i + 1].n = Stream(c)'[i].n + 1
    BY DEF GapFree
  <2>1. CASE ~(Registered(c) /\ Receives(c))
    BY <1>5, <2>1 DEF GapFree
  <2>2. CASE Registered(c) /\ Receives(c)
    <3>1. Stream(c)' = Append(Stream(c), ev) /\ i \in 1..Len(Stream(c))
      BY <1>6, <1>7, <2>2
    <3>2. CASE i = Len(Stream(c))
      <4>1. Stream(c)[i].n = pumped - Len(pending)
        BY <2>2, <3>1, <3>2 DEF UpToDate
      <4>2. ev.n = Stream(c)[i].n + 1
        BY <1>1, <1>2, <4>1, StreamAssumption DEF TypeOK
      <4> QED
        BY <1>7, <3>1, <3>2, <4>2
    <3>3. CASE i # Len(Stream(c))
      <4>1. i \in 1..Len(Stream(c)) - 1 /\ i + 1 \in 1..Len(Stream(c))
        BY <1>7, <3>1, <3>3
      <4>2. Stream(c)[i + 1].n = Stream(c)[i].n + 1
        BY <4>1 DEF GapFree
      <4> QED
        BY <1>7, <3>1, <4>1, <4>2
    <3> QED
      BY <3>2, <3>3
  <2> QED
    BY <2>1, <2>2
<1> QED
  BY <1>3, <1>8, <1>9, <1>10
-----------------------------------------------------------------------------
(* Every step *)

\* Every way in which a connection ends.
LEMMA EndsInv ==
    ASSUME StreamInv, NEW c \in Counted, Disconnect(c)
    PROVE  StreamInv'
<1> USE DEF StreamInv
<1>1. c \in Conns /\ conn[c] # "new"
  BY DEF Counted, Served, Open
<1>2. active > 0 /\ TrackerExact'
  BY DisconnectTracked
<1>3. TypeOK'
  BY <1>1, <1>2, DisconnectTyped
<1> QED
  BY <1>1, <1>2, <1>3, DisconnectStream

\* Every step of a connection, of the accept loop and of the tick task keeps
\* the invariant.
LEMMA NextInv == StreamInv /\ [Next]_vars => StreamInv'
<1> SUFFICES ASSUME StreamInv, [Next]_vars PROVE StreamInv'
  OBVIOUS
<1> USE StreamAssumption
<1>0. TypeOK /\ TrackerExact /\ PendingRun /\ UpToDate /\ Fresh /\ GapFree
  BY DEF StreamInv
<1>1. ASSUME NEW c \in Conns, Accept(c) PROVE StreamInv'
  <2>1. TypeOK'
    BY <1>0, <1>1 DEF Accept, TypeOK, Stages, Keys, ConnKey, streamVars
  <2>2. Counted' = Counted /\ Served' = Served /\ active' = active
    BY <1>0, <1>1 DEF Accept, TypeOK, Counted, Served, Open
  <2> QED
    BY <1>0, <1>1, <2>1, <2>2, TrackerUntouched, AcceptStream DEF StreamInv
<1>2. ASSUME NEW c \in Conns, TryConnect(c) PROVE StreamInv'
  <2>1. TypeOK'
    BY <1>0, <1>2 DEF TryConnect, TypeOK, Stages, streamVars
  <2>2. PendingRun' /\ UpToDate' /\ Fresh' /\ GapFree'
    <3>1. /\ \A d \in Conns : Receives(d)' => Receives(d)
          /\ \A d \in Conns : conn'[d] = "new" => conn[d] = "new"
      BY <1>0, <1>2 DEF TryConnect, TypeOK, Receives, Open
    <3> QED
      BY <1>0, <1>2, <3>1, StageStream DEF TryConnect, streamVars
  <2> QED
    BY <1>0, <1>2, <2>1, <2>2, ConnectTracked DEF StreamInv
<1>3. ASSUME NEW c \in Conns, Upgraded(c) PROVE StreamInv'
  <2>1. TypeOK'
    BY <1>0, <1>3 DEF Upgraded, TypeOK, Stages, streamVars
  <2>2. Counted' = Counted /\ Served' = Served /\ active' = active
    BY <1>0, <1>3 DEF Upgraded, TypeOK, Counted, Served, Open
  <2>3. PendingRun' /\ UpToDate' /\ Fresh' /\ GapFree'
    <3>1. /\ \A d \in Conns : Receives(d)' => Receives(d)
          /\ \A d \in Conns : conn'[d] = "new" => conn[d] = "new"
      BY <1>0, <1>3 DEF Upgraded, TypeOK, Receives, Open
    <3> QED
      BY <1>0, <1>3, <3>1, StageStream DEF Upgraded, streamVars
  <2> QED
    BY <1>0, <2>1, <2>2, <2>3, TrackerUntouched DEF StreamInv
<1>4. ASSUME NEW c \in Conns, Reject(c) \/ UpgradeFails(c) \/ Leave(c) \/ ChannelClosed(c)
      PROVE  StreamInv'
  <2>1. c \in Counted /\ Disconnect(c)
    BY <1>4 DEF Reject, UpgradeFails, Leave, ChannelClosed, Counted, Served, Open
  <2> QED
    BY <2>1, EndsInv
<1>5. ASSUME NEW c \in Conns, RequestStep(c) PROVE StreamInv'
  <2>1. PICK method \in {"initialize", "other"}, refill \in BOOLEAN :
           Request(c, method, refill)
    BY <1>5 DEF RequestStep
  <2>2. TypeOK'
    BY <1>0, <2>1 DEF Request, TypeOK, Stages, streamVars
  <2>3. Counted' = Counted /\ Served' = Served /\ active' = active
    BY <1>0, <2>1 DEF Request, TypeOK, Counted, Served, Open
  <2>4. PendingRun' /\ UpToDate' /\ Fresh' /\ GapFree'
    <3>1. /\ \A d \in Conns : Receives(d)' => Receives(d)
          /\ \A d \in Conns : conn'[d] = "new" => conn[d] = "new"
      BY <1>0, <2>1 DEF Request, TypeOK, Receives, Open
    <3> QED
      BY <1>0, <2>1, <3>1, StageStream DEF Request, streamVars
  <2> QED
    BY <1>0, <2>2, <2>3, <2>4, TrackerUntouched DEF StreamInv
<1>6. ASSUME NEW c \in Conns, ForwardEvent(c) PROVE StreamInv'
  <2>1. Counted' = Counted /\ Served' = Served /\ active' = active
    BY <1>6 DEF ForwardEvent, Counted, Served, Open
  <2> QED
    BY <1>0, <1>6, <2>1, ForwardTyped, ForwardStream, TrackerUntouched DEF StreamInv
<1>7. ASSUME NEW k \in 0..MaxEvents, Tick(k) PROVE StreamInv'
  <2>1. Counted' = Counted /\ Served' = Served /\ active' = active
    BY <1>7 DEF Tick, Counted, Served, Open
  <2> QED
    BY <1>0, <1>7, <2>1, TickTyped, TickStream, TrackerUntouched DEF StreamInv
<1>8. ASSUME Broadcast PROVE StreamInv'
  <2>1. Counted' = Counted /\ Served' = Served /\ active' = active
    BY <1>8 DEF Broadcast, Counted, Served, Open
  <2> QED
    BY <1>0, <1>8, <2>1, BroadcastTyped, BroadcastStream, TrackerUntouched DEF StreamInv
<1>9. ASSUME UNCHANGED vars PROVE StreamInv'
  BY <1>0, <1>9
  DEF vars, StreamInv, TypeOK, TrackerExact, Counted, Served, Open, PendingRun,
      UpToDate, Fresh, GapFree, Stream, Registered, ConnKey, Receives
<1> QED
  BY <1>1, <1>2, <1>3, <1>4, <1>5, <1>6, <1>7, <1>8, <1>9
  DEF Next, AcceptStep, UpgradeStep, DeliverStep, TickStep
-----------------------------------------------------------------------------
\* For every set of connections, every limit and every number of events, the
\* tracker counts exactly the connections that hold a slot and never serves
\* more than the limit (ConnectionTracker), and what a connection was sent and
\* has waiting has no gap (EventBroadcaster::broadcast, Connection::spawn).
THEOREM StreamSafe == Spec => [](TypeOK /\ TrackerExact /\ GapFree)
<1>1. Init => StreamInv
  BY InitInv
<1>2. StreamInv /\ [Next]_vars => StreamInv'
  BY NextInv
<1>3. StreamInv => TypeOK /\ TrackerExact /\ GapFree
  BY DEF StreamInv
<1> QED
  BY <1>1, <1>2, <1>3, PTL DEF Spec

\* For every set of connections and number of events, what a connection has
\* been sent and has waiting is a run of consecutive events.
COROLLARY StreamsHaveNoGap == Spec => []GapFree
  BY StreamSafe, PTL

\* Every variable of the event stream keeps its type, for every value of the
\* constants.
COROLLARY StreamKeepsTypes == Spec => []TypeOK
  BY StreamSafe, PTL
-----------------------------------------------------------------------------
(* The numbers a client sees *)

\* The events that are pending, wait in a channel or were written to a client.
Made ==
    {pending[i] : i \in DOMAIN pending} \cup
    UNION {{chan[c][i] : i \in DOMAIN chan[c]} \cup {sent[c][i] : i \in DOMAIN sent[c]} : c \in Conns}

\* Of two events made one after the other, the later one continues the numbers
\* of the earlier one or starts at one.  With GapFree this is SeqRuns.
Numbered ==
    /\ \A e \in Made : e \in Event /\ e.n <= pumped
    /\ \A e, f \in Made : f.n = e.n + 1 => f.seq \in {1, e.seq + 1}

\* What it takes to be one of the events.
LEMMA MadeMembers ==
    \A e : e \in Made <=>
        \/ \E i \in DOMAIN pending : e = pending[i]
        \/ \E c \in Conns : \E i \in DOMAIN chan[c] : e = chan[c][i]
        \/ \E c \in Conns : \E i \in DOMAIN sent[c] : e = sent[c][i]
  BY DEF Made

\* The same in the next state.
LEMMA MadeMembersNext ==
    \A e : e \in Made' <=>
        \/ \E i \in DOMAIN pending' : e = pending'[i]
        \/ \E c \in Conns : \E i \in DOMAIN chan'[c] : e = chan'[c][i]
        \/ \E c \in Conns : \E i \in DOMAIN sent'[c] : e = sent'[c][i]
  BY DEF Made

\* Events that only move or are dropped keep their numbers.
LEMMA NumbersStay ==
    ASSUME Numbered, Made' \subseteq Made, pumped' = pumped
    PROVE  Numbered'
  BY DEF Numbered

\* The channels and what was sent lose entries or stay.
LEMMA NothingMade ==
    ASSUME pending' = pending, sent' = sent,
           \A c \in Conns : chan'[c] = chan[c] \/ chan'[c] = <<>>
    PROVE  Made' \subseteq Made
<1>1. DOMAIN <<>> = {}
  OBVIOUS
<1> QED
  BY <1>1, MadeMembers, MadeMembersNext

\* Forwarding and broadcasting move events.
LEMMA ForwardMoves ==
    ASSUME TypeOK, NEW c \in Conns, ForwardEvent(c)
    PROVE  Made' \subseteq Made
<1>1. chan[c] \in Seq(Event) /\ sent[c] \in Seq(Event) /\ chan[c] # <<>>
  BY DEF ForwardEvent, TypeOK
<1>2. /\ sent'[c] = Append(sent[c], Head(chan[c])) /\ chan'[c] = Tail(chan[c])
      /\ \A d \in Conns \ {c} : sent'[d] = sent[d] /\ chan'[d] = chan[d]
      /\ pending' = pending
  BY DEF ForwardEvent, TypeOK
<1>3. 1 \in DOMAIN chan[c] /\ Head(chan[c]) = chan[c][1] /\ Head(chan[c]) \in Event
  BY <1>1
<1>4. \A i \in DOMAIN chan'[c] : i + 1 \in DOMAIN chan[c] /\ chan'[c][i] = chan[c][i + 1]
  BY <1>1, <1>2
<1>5. ASSUME NEW i \in DOMAIN sent'[c]
      PROVE  \/ i \in DOMAIN sent[c] /\ sent'[c][i] = sent[c][i]
             \/ sent'[c][i] = chan[c][1]
  BY <1>1, <1>2, <1>3
<1>6. ASSUME NEW e \in Made'
      PROVE  e \in Made
  <2>1. CASE \E i \in DOMAIN pending' : e = pending'[i]
    BY <1>2, <2>1, MadeMembers
  <2>2. ASSUME NEW d \in Conns, NEW i \in DOMAIN chan'[d], e = chan'[d][i]
        PROVE  e \in Made
    <3>1. \E j \in DOMAIN chan[d] : e = chan[d][j]
      BY <1>2, <1>4, <2>2
    <3> QED
      BY <3>1, MadeMembers
  <2>3. ASSUME NEW d \in Conns, NEW i \in DOMAIN sent'[d], e = sent'[d][i]
        PROVE  e \in Made
    <3>1. (\E j \in DOMAIN sent[d] : e = sent[d][j]) \/ e = chan[c][1]
      BY <1>2, <1>5, <2>3
    <3> QED
      BY <1>3, <3>1, MadeMembers
  <2> QED
    BY <2>1, <2>2, <2>3, MadeMembersNext
<1> QED
  BY <1>6

LEMMA BroadcastMoves ==
    ASSUME TypeOK, Broadcast
    PROVE  Made' \subseteq Made
<1>1. pending \in Seq(Event) /\ pending # <<>> /\ pending' = Tail(pending) /\ sent' = sent
  BY DEF Broadcast, TypeOK
<1>2. 1 \in DOMAIN pending /\ Head(pending) = pending[1] /\ Head(pending) \in Event
  BY <1>1
<1>3. \A i \in DOMAIN pending' : i + 1 \in DOMAIN pending /\ pending'[i] = pending[i + 1]
  BY <1>1
<1>4. ASSUME NEW c \in Conns, NEW i \in DOMAIN chan'[c]
      PROVE  \/ i \in DOMAIN chan[c] /\ chan'[c][i] = chan[c][i]
             \/ chan'[c][i] = pending[1]
  <2>1. chan[c] \in Seq(Event)
    BY DEF TypeOK
  <2>2. chan'[c] = chan[c] \/ chan'[c] = Append(chan[c], Head(pending))
    BY DEF Broadcast
  <2> QED
    BY <1>2, <2>1, <2>2
<1> QED
  BY <1>1, <1>2, <1>3, <1>4, MadeMembers, MadeMembersNext

\* A tick numbers its events from one, behind all that were made before.
LEMMA TickNumbers ==
    ASSUME TypeOK, Numbered, NEW k \in 0..MaxEvents, Tick(k)
    PROVE  Numbered'
<1> USE StreamAssumption
<1>1. /\ pumped \in Nat /\ k \in Nat /\ pumped + k <= MaxEvents /\ pumped' = pumped + k
      /\ sent' = sent /\ chan' = chan /\ pending = <<>>
      /\ pending' = [i \in 1..k |-> [n |-> pumped + i, seq |-> i]]
  BY DEF Tick, PumpSeq, TypeOK
<1>2. ASSUME NEW e \in Made'
      PROVE  \/ e \in Made
             \/ \E i \in 1..k : e = [n |-> pumped + i, seq |-> i]
  BY <1>1, <1>2, MadeMembers, MadeMembersNext
<1>3. \A e \in Made : e \in Event /\ e.n <= pumped /\ e.n \in Nat
  BY DEF Numbered, Event
<1>4. \A i \in 1..k : [n |-> pumped + i, seq |-> i] \in Event
  BY <1>1 DEF Event
<1>5. ASSUME NEW e \in Made'
      PROVE  e \in Event /\ e.n <= pumped'
  <2>1. CASE e \in Made
    BY <1>1, <1>3, <2>1
  <2>2. ASSUME NEW i \in 1..k, e = [n |-> pumped + i, seq |-> i]
        PROVE  e \in Event /\ e.n <= pumped'
    BY <1>1, <1>4, <2>2
  <2> QED
    BY <1>2, <2>1, <2>2
<1>6. ASSUME NEW e \in Made', NEW f \in Made', f.n = e.n + 1
      PROVE  f.seq \in {1, e.seq + 1}
  <2>1. CASE e \in Made /\ f \in Made
    BY <1>6, <2>1 DEF Numbered
  <2>2. ASSUME NEW i \in 1..k, e \in Made, f = [n |-> pumped + i, seq |-> i]
        PROVE  f.seq = 1
    BY <1>1, <1>3, <1>6, <2>2
  <2>3. ASSUME NEW i \in 1..k, f \in Made, e = [n |-> pumped + i, seq |-> i]
        PROVE  FALSE
    BY <1>1, <1>3, <1>6, <2>3
  <2>4. ASSUME NEW i \in 1..k, NEW j \in 1..k, e = [n |-> pumped + i, seq |-> i],
               f = [n |-> pumped + j, seq |-> j]
        PROVE  f.seq = e.seq + 1
    BY <1>1, <1>6, <2>4
  <2> QED
    BY <1>2, <2>1, <2>2, <2>3, <2>4
<1> QED
  BY <1>5, <1>6 DEF Numbered

LEMMA NumberedStep ==
    ASSUME StreamInv, Numbered, [Next]_vars
    PROVE  Numbered'
<1>0. TypeOK
  BY DEF StreamInv
<1>1. ASSUME NEW c \in Conns, Disconnect(c) PROVE Numbered'
  <2>1. \A d \in Conns : chan'[d] = chan[d] \/ chan'[d] = <<>>
    BY <1>0, <1>1 DEF Disconnect, TypeOK
  <2> QED
    BY <1>1, <2>1, NothingMade, NumbersStay DEF Disconnect, streamVars
<1>2. ASSUME UNCHANGED <<streamVars, chan>> PROVE Numbered'
  BY <1>2, NothingMade, NumbersStay DEF streamVars
<1>3. ASSUME NEW c \in Conns, AcceptStep(c) \/ UpgradeStep(c) \/ RequestStep(c) \/ Leave(c) \/ ChannelClosed(c)
      PROVE  Numbered'
  <2>1. Disconnect(c) \/ UNCHANGED <<streamVars, chan>>
    BY <1>3 DEF AcceptStep, Accept, TryConnect, Reject, UpgradeStep, Upgraded, UpgradeFails,
                RequestStep, Request, Leave, ChannelClosed
  <2> QED
    BY <1>1, <1>2, <2>1
<1>4. ASSUME NEW c \in Conns, ForwardEvent(c) PROVE Numbered'
  BY <1>0, <1>4, ForwardMoves, NumbersStay DEF ForwardEvent
<1>5. ASSUME NEW k \in 0..MaxEvents, Tick(k) PROVE Numbered'
  BY <1>0, <1>5, TickNumbers
<1>6. CASE Broadcast
  BY <1>0, <1>6, BroadcastMoves, NumbersStay DEF Broadcast
<1>7. CASE UNCHANGED vars
  BY <1>2, <1>7 DEF vars, streamVars
<1> QED
  BY <1>3, <1>4, <1>5, <1>6, <1>7 DEF Next, DeliverStep, TickStep

\* Consecutive events with runs of numbers: what the client sees.
LEMMA RunsFromNumbers ==
    ASSUME StreamInv, Numbered
    PROVE  SeqRuns
<1> SUFFICES ASSUME NEW c \in Conns, NEW i \in 1..Len(sent[c]) - 1
             PROVE  sent[c][i + 1].seq \in {1, sent[c][i].seq + 1}
  BY DEF SeqRuns
<1>1. /\ Len(Stream(c)) = Len(sent[c]) + Len(chan[c])
      /\ \A j \in 1..Len(sent[c]) : Stream(c)[j] = sent[c][j]
      /\ Len(sent[c]) \in Nat /\ Len(chan[c]) \in Nat
      /\ DOMAIN sent[c] = 1..Len(sent[c])
  BY SMTT(40), StreamTyped DEF StreamInv, TypeOK
<1>2. i \in 1..Len(sent[c]) /\ i + 1 \in 1..Len(sent[c])
  BY <1>1
<1>3. i \in 1..Len(Stream(c)) - 1
  <2>1. i \in 1..(Len(sent[c]) + Len(chan[c])) - 1
    BY <1>1, <1>2, IndexWidens
  <2> QED
    BY <1>1, <2>1, Zenon
<1>4. sent[c][i + 1].n = sent[c][i].n + 1
  BY <1>1, <1>2, <1>3 DEF StreamInv, GapFree
<1>5. sent[c][i] \in Made /\ sent[c][i + 1] \in Made
  BY <1>1, <1>2, MadeMembers
<1> QED
  BY <1>4, <1>5 DEF Numbered

\* For every set of connections, every limit and every number of events, the
\* numbers a client receives are runs that start at one and leave nothing out:
\* the pump of a tick counts from one (EventPump::process), the channels neither
\* reorder nor drop.
THEOREM NumbersAreRuns == Spec => []SeqRuns
<1>1. Init => Numbered
  <2>1. ASSUME Init PROVE Made = {}
    BY <2>1, MadeMembers DEF Init
  <2> QED
    BY <2>1 DEF Numbered
<1>2. (StreamInv /\ Numbered) /\ [Next]_vars => (StreamInv /\ Numbered)'
  BY NextInv, NumberedStep
<1>3. StreamInv /\ Numbered => SeqRuns
  BY RunsFromNumbers
<1> QED
  BY <1>1, <1>2, <1>3, InitInv, PTL DEF Spec
=============================================================================
