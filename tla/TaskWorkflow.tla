---------------------------- MODULE TaskWorkflow ----------------------------
(* The task decision engine: a task with its status machine, the stages of   *)
(* the default process, the automatic check of the agent's output and the    *)
(* answers of a human.  The stage and the status are two machines: the stage *)
(* moves on the conditions of the process, the status follows as far as its  *)
(* own transitions allow (a refused transition is ignored).  After every     *)
(* decision the task is handed to the registry, field by field; the registry *)
(* changes its copy in memory, which is so the task's, and saves that copy   *)
(* whole.  A save that is refused is ignored, and the file is behind until   *)
(* the next one.  A process that died is followed by one that loads and      *)
(* recovers the task from its file and starts the process anew.              *)
(*                                                                           *)
(* An output is what the checker makes of it: "broken" (syntax errors,       *)
(* compile errors or failing tests), "unsafe" (files outside the task's      *)
(* boundary, risky operations), "good", or "empty", good but without text.   *)
(* With the default filter every unsafe output also needs a human, so the    *)
(* engine itself never asks for ConfirmCompletion, and confirmation_count    *)
(* stays 0.                                                                  *)
EXTENDS Naturals, Sequences, DecisionTaskStatus

CONSTANTS
    MaxReflectionRounds,  \* max_reflection_rounds of the task
    MaxFeedback,          \* bound: custom answers of the human
    MaxRefusedSaves,      \* bound: decisions and recoveries that are not saved
    MaxTaskCrashes        \* bound: how often the process dies

ASSUME MaxReflectionRoundsAssumption == MaxReflectionRounds \in Nat
ASSUME WorkflowBoundsAssumption ==
    MaxFeedback \in Nat /\ MaxRefusedSaves \in Nat /\ MaxTaskCrashes \in Nat

VARIABLES
    stage,     \* current_stage
    wstatus,   \* status of the task
    rounds,    \* reflection_count
    flags,     \* those of the condition context that are TRUE
    recorded,  \* status and reflection_count in the file of the registry
    wup,       \* whether the process runs
    feedback,  \* how many custom answers there have been
    granted,   \* how many rounds of reflection have been asked for
    refused,   \* how many decisions and recoveries the store did not save to the end
    deaths     \* how often the process died

workflowVars == <<stage, wstatus, rounds, flags, recorded, wup, feedback, granted, refused, deaths>>

Answers == {"Approve", "Deny", "Custom", "Cancel"}
Stages == {"start", "developing", "check_quality", "reflecting", "check_completion",
           "confirming", "human_decision", "completed", "cancelled"}

-----------------------------------------------------------------------------
(* The process.                                                              *)
To(target, condition) == [target |-> target, condition |-> condition]

\* The transitions of default_process, in order.
Transitions(s) ==
    CASE s = "start"            -> <<To("developing", "ai_response")>>
      [] s = "developing"       -> <<To("check_quality", "ai_output")>>
      [] s = "check_quality"    -> <<To("reflecting", "issue_found"), To("check_completion", "no_issue")>>
      [] s = "reflecting"       -> <<To("developing", "fixed"), To("human_decision", "max_reflections")>>
      [] s = "check_completion" -> <<To("developing", "not_complete"), To("confirming", "goals_achieved")>>
      [] s = "confirming"       -> <<To("completed", "human_approved"), To("reflecting", "rejected")>>
      [] s = "human_decision"   -> <<To("developing", "human_approved"), To("cancelled", "human_cancelled")>>
      [] OTHER                  -> <<>>

\* update_condition_context: what an output says; the marks stay.
Marks == {"fixed", "not_complete", "rejected", "human_cancelled"}
FlagsAfter(out) ==
    (flags \cap Marks) \cup (IF out = "empty" THEN {} ELSE {"ai_response", "ai_output"})
                       \cup (IF out = "broken" THEN {"issue_found"} ELSE {"no_issue"})

\* check_transition_condition for an output that passed the check, so its
\* goals are achieved.  Human approval is read from the status.
Holds(c, f) ==
    CASE c = "max_reflections" -> rounds >= MaxReflectionRounds
      [] c = "goals_achieved"  -> TRUE
      [] c = "human_approved"  -> wstatus = "InProgress"
      [] OTHER                 -> c \in f

\* update_status_for_stage.
StatusFor(s) ==
    CASE s = "start"      -> "Pending"
      [] s = "developing" -> "InProgress"
      [] s = "reflecting" -> "Reflecting"
      [] s \in {"confirming", "check_completion"} -> "PendingConfirmation"
      [] s = "completed"  -> "Completed"
      [] OTHER            -> wstatus

-----------------------------------------------------------------------------
(* process_output, handle_human_response and the marks.  Each decision is    *)
(* executed, and the task written to the registry.                           *)

\* A file that was cut short; list_pending passes over it.
HalfFile == [status |-> "half", rounds |-> 0]

SaveRefused == refused < MaxRefusedSaves /\ refused' = refused + 1 /\ UNCHANGED <<wup, deaths>>
SaveCutShort == deaths < MaxTaskCrashes /\ deaths' = deaths + 1 /\ wup' = FALSE /\ UNCHANGED refused

\* Mutant of Persist: only the status is written.
PersistStatusOnly ==
    /\ UNCHANGED <<wup, refused, deaths>>
    /\ recorded' = [status |-> wstatus', rounds |-> recorded.rounds]
\* persist_task: the status, then the two counts, each with a save of the
\* whole task.  The file has everything once the second or the third save is
\* accepted.  Else these are refused, or the process dies before them or in
\* one: then the file is the old one, the one of the first save, or cut short.
Persist ==
    \/ /\ recorded' = [status |-> wstatus', rounds |-> rounds']
       /\ UNCHANGED <<wup, refused, deaths>>
    \/ /\ recorded' \in {recorded, [status |-> wstatus', rounds |-> rounds], HalfFile}
       /\ SaveRefused \/ SaveCutShort

\* One more round of reflection, or none.
Round ==
    /\ rounds' = rounds + 1
    /\ granted' = granted + 1
    /\ wstatus' = Moved(wstatus, "Reflecting")
NoRound(to) ==
    /\ UNCHANGED <<rounds, granted>>
    /\ wstatus' = Moved(wstatus, to)

\* The first transition whose condition holds, or 0.
FirstOpen(f) ==
    LET open == {i \in 1..Len(Transitions(stage)) : Holds(Transitions(stage)[i].condition, f)}
    IN  IF open = {} THEN 0 ELSE CHOOSE i \in open : \A j \in open : i <= j

\* An output that passes: AdvanceTo the stage of the first open transition,
\* or Continue.
Pass(out) ==
    LET f == FlagsAfter(out)
        i == FirstOpen(f)
    IN  /\ wup
        /\ flags' = f
        /\ stage' = IF i = 0 THEN stage ELSE Transitions(stage)[i].target
        /\ NoRound(IF i = 0 THEN wstatus ELSE StatusFor(stage'))
        /\ UNCHANGED feedback
        /\ Persist

\* An output to reflect on: Reflect, or RequestHuman once the rounds are used.
Broken ==
    /\ wup
    /\ flags' = FlagsAfter("broken")
    /\ IF rounds < MaxReflectionRounds THEN Round ELSE NoRound("NeedsHumanDecision")
    /\ UNCHANGED <<stage, feedback>>
    /\ Persist

\* An output that needs a human: RequestHuman.
Unsafe ==
    /\ wup
    /\ flags' = FlagsAfter("unsafe")
    /\ NoRound("NeedsHumanDecision")
    /\ UNCHANGED <<stage, feedback>>
    /\ Persist

HandleHumanResponse(answer) ==
    /\ wup
    /\ \/ /\ answer = "Approve"
          /\ NoRound("InProgress")
          /\ UNCHANGED feedback
       \/ /\ answer = "Deny"
          /\ IF rounds < MaxReflectionRounds THEN Round ELSE NoRound("Cancelled")
          /\ UNCHANGED feedback
       \/ /\ answer = "Custom"
          /\ feedback < MaxFeedback
          /\ feedback' = feedback + 1
          /\ Round
       \/ /\ answer = "Cancel"
          /\ NoRound("Cancelled")
          /\ UNCHANGED feedback
    /\ UNCHANGED <<stage, flags>>
    /\ Persist

\* mark_fixed, mark_not_complete, mark_rejected, mark_human_cancelled; nothing
\* ever takes a mark back.
Mark(m) ==
    /\ wup
    /\ flags' = (flags \cup {m}) \ (IF m = "fixed" THEN {"issue_found"} ELSE {})
    /\ UNCHANGED <<stage, wstatus, rounds, recorded, wup, feedback, granted, refused, deaths>>

\* The process dies between two calls.
Die ==
    /\ wup
    /\ deaths < MaxTaskCrashes
    /\ wup' = FALSE
    /\ deaths' = deaths + 1
    /\ UNCHANGED <<stage, wstatus, rounds, flags, recorded, feedback, granted, refused>>

\* load, recover and a new engine for the task, if its file can be read.
\* recover pauses work that was going on and saves the task; that save may
\* fail, too.
Restart ==
    LET status == RecoveredStatus(recorded.status)
    IN  /\ ~wup
        /\ recorded # HalfFile
        /\ stage' = "start"
        /\ flags' = {}
        /\ wstatus' = status
        /\ rounds' = recorded.rounds
        /\ UNCHANGED <<feedback, granted>>
        /\ \/ recorded' = [recorded EXCEPT !.status = status] /\ wup' = TRUE /\ UNCHANGED <<refused, deaths>>
           \/ /\ recorded' \in {recorded, HalfFile}
              /\ wup' = TRUE
              /\ refused < MaxRefusedSaves
              /\ refused' = refused + 1
              /\ UNCHANGED deaths
           \/ recorded' = HalfFile /\ SaveCutShort

WorkflowInit ==
    /\ stage = "start"
    /\ wstatus = "Pending"
    /\ rounds = 0
    /\ flags = {}
    /\ recorded = [status |-> "Pending", rounds |-> 0]
    /\ wup = TRUE
    /\ feedback = 0
    /\ granted = 0
    /\ refused = 0
    /\ deaths = 0

WorkflowNext ==
    \/ \E out \in {"good", "empty"} : Pass(out)
    \/ Broken
    \/ Unsafe
    \/ \E a \in Answers : HandleHumanResponse(a)
    \/ \E m \in Marks : Mark(m)
    \/ Die
    \/ Restart

WorkflowSpec == WorkflowInit /\ [][WorkflowNext]_workflowVars

-----------------------------------------------------------------------------
(* Properties.                                                               *)
\* However the checker, denying humans, refused saves and crashes alternate,
\* the work on a task goes round at most MaxReflectionRounds times, once more
\* for every custom answer, for every decision the store refused to save and
\* for every time the process died.  A crash takes back every round since the
\* last save that was accepted, so one crash may cost several rounds, but each
\* of them only once: a later save writes the whole task and makes up for all
\* the refused ones before it.
RoundsCapped == granted <= MaxReflectionRounds + feedback + refused + deaths

\* A task whose file says that it is cancelled is never worked on again, not by
\* a later output, by a later answer, by a save that is refused, or by the
\* recovery after a crash.  (One that is cancelled in memory only, because the
\* save was refused, does come back after a crash.)
CancelledIsFinal ==
    [][wstatus = "Cancelled" /\ recorded.status = "Cancelled" => wstatus' = "Cancelled"]_workflowVars
=============================================================================
