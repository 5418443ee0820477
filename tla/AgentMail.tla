------------------------------ MODULE AgentMail ------------------------------
(* Mail between agents and its hosts.  A mail is queued, moved to the inbox  *)
(* of its recipient by the host's event loop, put into a prompt of the       *)
(* recipient, and marked as read.  The daemon's loop looks at the queue      *)
(* itself, but the daemon puts no mail into prompts; the loop of the         *)
(* terminal interface looks at the number of broadcasts that wait, so the    *)
(* state of the interface is also taken by itself, with callers that process *)
(* the mail as its tests do.                                                 *)
(*                                                                           *)
(* The mailbox lives in memory.  A host that shuts down in order saves it    *)
(* (the interface the whole, the daemon the broadcasts), and only one that   *)
(* is told to resume takes it up again.  The two files the interface saves   *)
(* are taken for one.                                                        *)
(*                                                                           *)
(* A mail is [n, id, to]: n counts the mails, id is the time in milliseconds *)
(* that serves as mail_id (two mails of one millisecond share it).  No host  *)
(* calls deliver, so a broadcast stays pending for good.                     *)
EXTENDS Naturals, Sequences, SequenceSelection

CONSTANTS
    MailAgents,      \* recipients
    MaxMails,        \* bound: mails that are sent
    MaxMailRestarts  \* bound: times the host goes down

ASSUME MailBoundsAssumption == MaxMails \in Nat /\ MaxMailRestarts \in Nat

VARIABLES
    host,          \* "daemon", "tui" (the loop of the interface) or "state" (its state)
    up,            \* the host runs
    outgoing,      \* queue of mails
    pendingMail,   \* pending_delivery: broadcasts
    inbox,         \* per agent, a sequence of [mail, read]
    mailSave,      \* the snapshot on disk
    shown,         \* history: per agent, the mails in the prompts its provider was given
    lostMail,      \* history: mails given up by a crash, a failed save or a fresh start
    sentMails,     \* how many mails were sent
    lastId,        \* mail_id of the last mail
    mailRestarts

mailBox == <<outgoing, pendingMail, inbox>>
mailVars == <<host, up, mailBox, mailSave, shown, lostMail, sentMails, lastId, mailRestarts>>

Everyone == "everyone"   \* MailTarget::Broadcast

-----------------------------------------------------------------------------
\* send_mail.  The terminal interface only sends to one agent.
SendMail(to, id) ==
    /\ up
    /\ sentMails < MaxMails
    /\ host = "tui" => to # Everyone
    /\ sentMails' = sentMails + 1
    /\ lastId' = id
    /\ outgoing' = Append(outgoing, [n |-> sentMails + 1, id |-> id, to |-> to])
    /\ UNCHANGED <<host, up, pendingMail, inbox, mailSave, shown, lostMail, mailRestarts>>

Unread(mail) == [mail |-> mail, read |-> FALSE]

\* What process_pending puts into the inbox of a, or among the broadcasts, in
\* this order.
Delivered(a) == Select(outgoing, {i \in DOMAIN outgoing : outgoing[i].to = a})

\* The test the host makes before it calls process_pending; the tests of the
\* interface's state call it whenever they have sent a mail.
LoopLooks == IF host = "tui" THEN pendingMail # <<>> ELSE outgoing # <<>>

\* One round of the host's loop: process_pending empties the queue.
ProcessPending ==
    /\ up
    /\ LoopLooks
    /\ outgoing # <<>>
    /\ inbox' = [a \in MailAgents |->
                    inbox[a] \o [i \in 1..Len(Delivered(a)) |-> Unread(Delivered(a)[i])]]
    /\ pendingMail' = pendingMail \o Delivered(Everyone)
    /\ outgoing' = <<>>
    /\ UNCHANGED <<host, up, mailSave, shown, lostMail, sentMails, lastId, mailRestarts>>

UnreadOf(a) == Select(inbox[a], {i \in DOMAIN inbox[a] : ~inbox[a][i].read})
AllRead(a) == [inbox EXCEPT ![a] = [i \in DOMAIN @ |-> [@[i] EXCEPT !.read = TRUE]]]

\* Mutant of Prompt: the mail stays unread.
PromptKeepsUnread(a) ==
    /\ up /\ host # "daemon"
    /\ UnreadOf(a) # <<>>
    /\ Len(shown[a]) < MaxMails
    /\ shown' = [shown EXCEPT ![a] = @ \o [i \in DOMAIN UnreadOf(a) |-> UnreadOf(a)[i].mail]]
    /\ UNCHANGED <<host, up, mailBox, mailSave, lostMail, sentMails, lastId, mailRestarts>>
\* start_provider_for_agent of the interface: the unread mail goes in front of
\* the prompt and is marked as read; only then is the agent found to be busy,
\* or its thread not to start, and the mail has been read by nobody.
Prompt(a) ==
    /\ up /\ host # "daemon"
    /\ UnreadOf(a) # <<>>
    /\ inbox' = AllRead(a)
    /\ \/ shown' = [shown EXCEPT ![a] = @ \o [i \in DOMAIN UnreadOf(a) |-> UnreadOf(a)[i].mail]]
       \/ UNCHANGED shown
    /\ UNCHANGED <<host, up, outgoing, pendingMail, mailSave, lostMail, sentMails, lastId,
                   mailRestarts>>

\* mark_read of the mail the user has selected: the first with its mail_id.
MarkRead(a, i) ==
    LET same == {j \in DOMAIN inbox[a] : inbox[a][j].mail.id = inbox[a][i].mail.id}
        first == CHOOSE j \in same : \A k \in same : j <= k
    IN  /\ up /\ host # "daemon"
        /\ inbox' = [inbox EXCEPT ![a][first].read = TRUE]
        /\ UNCHANGED <<host, up, outgoing, pendingMail, mailSave, shown, lostMail, sentMails, lastId,
                       mailRestarts>>

-----------------------------------------------------------------------------
(* The host goes down and comes back.                                        *)
Waits(n) == \E i \in DOMAIN outgoing : outgoing[i].n = n
Arrived(n) == \E a \in MailAgents : \E i \in DOMAIN inbox[a] : inbox[a][i].mail.n = n
Broadcast(n) == \E i \in DOMAIN pendingMail : pendingMail[i].n = n
StillHeld(n) == Waits(n) \/ Arrived(n) \/ Broadcast(n)

NoSave == [kind |-> "none"]
TornSave == [kind |-> "torn"]
NoInbox == [a \in MailAgents |-> <<>>]

\* What create_resume_snapshot and the daemon's create_shutdown_snapshot keep;
\* seen records, for the history, what was shown by then.
Snapshot ==
    [kind |-> "whole",
     outgoing |-> IF host = "daemon" THEN <<>> ELSE outgoing,
     pendingMail |-> pendingMail,
     inbox |-> IF host = "daemon" THEN NoInbox ELSE inbox,
     seen |-> shown]

InSave(n) ==
    /\ mailSave.kind = "whole"
    /\ \/ \E i \in DOMAIN mailSave.outgoing : mailSave.outgoing[i].n = n
       \/ \E a \in MailAgents : \E i \in DOMAIN mailSave.inbox[a] : mailSave.inbox[a][i].mail.n = n
       \/ \E i \in DOMAIN mailSave.pendingMail : mailSave.pendingMail[i].n = n

GoesDown ==
    /\ up
    /\ mailRestarts < MaxMailRestarts
    /\ up' = FALSE
    /\ mailRestarts' = mailRestarts + 1
    /\ outgoing' = <<>> /\ pendingMail' = <<>> /\ inbox' = NoInbox
    /\ UNCHANGED <<host, shown, sentMails, lastId>>

\* shutdown_tui_state, and the daemon's shutdown.  What an older snapshot kept
\* and nobody has taken up is overwritten; the daemon gives up what it queued
\* and what arrived.
ShutDownHost ==
    /\ GoesDown
    /\ mailSave' = Snapshot
    /\ lostMail' = lostMail \cup {n \in 1..sentMails : InSave(n)}
                            \cup {n \in 1..sentMails : host = "daemon" /\ (Waits(n) \/ Arrived(n))}

\* A crash, or a snapshot that cannot be written or is cut short.
CrashHost ==
    /\ GoesDown
    /\ \/ /\ mailSave' = mailSave
          /\ lostMail' = lostMail \cup {n \in 1..sentMails : StillHeld(n)}
       \/ /\ mailSave' = TornSave
          /\ lostMail' = lostMail \cup {n \in 1..sentMails : StillHeld(n) \/ InSave(n)}

\* A start that resumes: the mailbox is that of the snapshot, which is cleared.
\* (With a torn one such a start fails.)  Nothing says that the snapshot is of
\* the last run: then the history goes on from what it knew.
ResumeHost ==
    /\ ~up
    /\ mailSave.kind = "whole"
    /\ up' = TRUE
    /\ outgoing' = mailSave.outgoing
    /\ pendingMail' = mailSave.pendingMail
    /\ inbox' = mailSave.inbox
    /\ shown' = mailSave.seen
    /\ mailSave' = NoSave
    /\ UNCHANGED <<host, lostMail, sentMails, lastId, mailRestarts>>

\* A start with an empty mailbox: one that is not asked to resume leaves the
\* snapshot; the user who is asked and wants a fresh start clears it.
StartHost ==
    /\ ~up
    /\ up' = TRUE
    /\ \/ UNCHANGED <<mailSave, lostMail>>
       \/ /\ host # "daemon"
          /\ mailSave' = NoSave
          /\ lostMail' = lostMail \cup {n \in 1..sentMails : InSave(n)}
    /\ UNCHANGED <<host, mailBox, shown, sentMails, lastId, mailRestarts>>

MailInit ==
    /\ host \in {"daemon", "tui", "state"}
    /\ up = TRUE
    /\ outgoing = <<>>
    /\ pendingMail = <<>>
    /\ inbox = NoInbox
    /\ mailSave = NoSave
    /\ shown = [a \in MailAgents |-> <<>>]
    /\ lostMail = {}
    /\ sentMails = 0
    /\ lastId = 0
    /\ mailRestarts = 0

MailNext ==
    \/ \E to \in MailAgents \cup {Everyone}, id \in {lastId, lastId + 1} : SendMail(to, id)
    \/ ProcessPending
    \/ \E a \in MailAgents : Prompt(a) \/ \E i \in DOMAIN inbox[a] : MarkRead(a, i)
    \/ ShutDownHost \/ CrashHost
    \/ ResumeHost \/ StartHost

\* The loop of a host runs at least every 250 ms while the host is up.
MailFairness == WF_mailVars(ProcessPending)

MailSpec == MailInit /\ [][MailNext]_mailVars /\ MailFairness

-----------------------------------------------------------------------------
(* Properties.                                                               *)
Ascending(s, N(_)) == \A i, j \in DOMAIN s : i < j => N(s[i]) < N(s[j])

\* Mail reaches an agent in the order in which it was sent, and no mail is
\* given to a provider twice, through inbox, prompts, reading by hand, shutdown
\* and resumption (a host resumed from the snapshot of an earlier run than the
\* last may give again what it gave since); and a mail that was sent is in the
\* mailbox or the snapshot, unless something gave it up: the daemon's shutdown,
\* a crash, a save that failed or overwrote one that was not taken up, or a
\* fresh start.
MailInOrder ==
  /\ \A a \in MailAgents :
        /\ Ascending(inbox[a] \o [i \in DOMAIN Delivered(a) |-> Unread(Delivered(a)[i])], LAMBDA e : e.mail.n)
        /\ Ascending(shown[a], LAMBDA m : m.n)
  /\ \A n \in 1..sentMails : StillHeld(n) \/ InSave(n) \/ n \in lostMail

\* "Delivery happens during event loop tick": a mail that was sent does not
\* wait for ever.
MailArrives == \A n \in 1..MaxMails : Waits(n) ~> ~Waits(n)
=============================================================================
