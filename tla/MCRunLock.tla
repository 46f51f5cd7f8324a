----------------------------- MODULE MCRunLock -----------------------------
(* Small instances of RunLock: three calls. *)
EXTENDS RunLock, TLC

CONSTANTS p1, p2, p3, c1, c2, c3

\* Three processes with one call each, and p1 with two calls beside p2's.
OwnersDiffer == c1 :> p1 @@ c2 :> p2 @@ c3 :> p3
OwnerTwice == c1 :> p1 @@ c2 :> p2 @@ c3 :> p1
=============================================================================
