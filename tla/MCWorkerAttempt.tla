--------------------------- MODULE MCWorkerAttempt ---------------------------
(* Small instances of WorkerAttempt. *)
EXTENDS WorkerAttempt, TLC

CONSTANTS p1, p2, i1, i2, a, b

Symmetry == Permutations(Pids) \cup Permutations(Ports)
=============================================================================
