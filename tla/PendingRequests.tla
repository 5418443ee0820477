--------------------------- MODULE PendingRequests ---------------------------
(***************************************************************************)
(* What the human decision queue promises, without lanes or an index: a    *)
(* set of pending requests, each with its agent and its urgency, numbered  *)
(* in the order they were raised, and what each operation hands back.      *)
(***************************************************************************)
EXTENDS Naturals

CONSTANTS Agents, Levels

VARIABLES pending, \* requests [id, agent, level] waiting for a human
          raised,  \* how many requests were ever raised
          ret      \* the last operation and the ids of the requests it removed

vars == <<pending, raised, ret>>

\* r is served before s: more urgent, or as urgent and raised earlier.
Before(r, s) == r.level < s.level \/ (r.level = s.level /\ r.id < s.id)

Hand(op, gone) ==
    /\ pending' = pending \ gone
    /\ ret' = [op |-> op, ids |-> {r.id : r \in gone}]
    /\ UNCHANGED raised

Init == pending = {} /\ raised = 0 /\ ret = [op |-> "new", ids |-> {}]

Raise == \E a \in Agents, l \in Levels :
            /\ raised' = raised + 1
            /\ pending' = pending \cup
                    {[id |-> raised + 1, agent |-> a, level |-> l]}
            /\ ret' = [op |-> "push", ids |-> {}]

\* The next request in service order is taken.
Serve == \E r \in pending :
            /\ \A s \in pending \ {r} : Before(r, s)
            /\ Hand("pop", {r})

\* One agent's next request is taken.
ServeAgent == \E r \in pending :
            /\ \A s \in pending \ {r} : s.agent = r.agent => Before(r, s)
            /\ Hand("remove_by_agent", {r})

\* Any pending request may be answered, no other.
Answer == \E r \in pending : Hand("complete", {r})

\* Requests lapse; of two that are as urgent the later one never lapses first.
Lapse == \E gone \in SUBSET pending :
            /\ \A r \in gone : \A s \in pending :
                    s.level = r.level /\ s.id < r.id => s \in gone
            /\ Hand("check_expired", gone)

Clear == /\ pending' = {}
         /\ ret' = [op |-> "clear", ids |-> {}]
         /\ UNCHANGED raised

Next == Raise \/ Serve \/ ServeAgent \/ Answer \/ Lapse \/ Clear

Spec == Init /\ [][Next]_vars
=============================================================================
