---------------------------- MODULE MCController ----------------------------
(* Small instances of Controller. *)
EXTENDS Controller, TLC

CONSTANTS f1, f2, f3, r1, r2

Symmetric == Permutations(Findings)
=============================================================================
