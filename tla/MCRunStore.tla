----------------------------- MODULE MCRunStore -----------------------------
(* Small instances of RunStore. *)
EXTENDS RunStore, TLC

CONSTANTS s1, s2, s3, i1, i2

Symmetric == Permutations(Sessions) \cup Permutations(Invs)
=============================================================================
