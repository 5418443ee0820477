---------------------------- MODULE MCWorkerPool ----------------------------
(* Instances of WorkerPool for TLC; the .cfg files choose the constants.     *)
EXTENDS WorkerPool

CONSTANTS Urgent, Minor   \* two human reasons of different urgency

\* Urgent is high, every other human reason is of low urgency.
MCUrgency == [r \in HumanReasons |-> IF r = Urgent THEN 2 ELSE 4]
=============================================================================
