---------------------------- MODULE MCWorktrees -----------------------------
(* Two agents, room for two worktrees. *)
EXTENDS Worktrees
=============================================================================
