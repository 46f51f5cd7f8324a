---------------------------- MODULE MCWorktree ----------------------------
(* Small instances of Worktree. *)
EXTENDS Worktree, TLC

CONSTANTS p1, p2, i1, i2, i3, d1

Symmetric == Permutations(Procs) \cup Permutations(Ids)
=============================================================================
