---------------------------- MODULE MCSolAttempt ----------------------------
(* Small instances of SolAttempt. *)
EXTENDS SolAttempt

CONSTANTS controller, op1, op2, i1, i2
=============================================================================
