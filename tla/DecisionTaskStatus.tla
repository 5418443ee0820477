------------------------- MODULE DecisionTaskStatus -------------------------
(* The status machine of a decision task.                                    *)
Valid(from, to) ==
    \/ from = "Pending" /\ to = "InProgress"
    \/ from = "InProgress" /\ to \in {"Reflecting", "PendingConfirmation", "Paused"}
    \/ from = "Reflecting" /\ to \in {"InProgress", "NeedsHumanDecision", "Paused"}
    \/ from = "PendingConfirmation" /\ to \in {"Completed", "Reflecting", "Paused"}
    \/ from \in {"NeedsHumanDecision", "Paused"} /\ to = "InProgress"
    \/ from # "Completed" /\ to = "Cancelled"

\* transition_to with its error ignored.
Moved(from, to) == IF Valid(from, to) THEN to ELSE from

\* Mutant of RecoveredStatus: every task is resumed.
RecoveredStatusAny(s) == "Paused"
\* What recover makes of a status: work that was going on is paused.
RecoveredStatus(s) == IF s \in {"InProgress", "Reflecting"} THEN "Paused" ELSE s
=============================================================================
