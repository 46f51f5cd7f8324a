----------------------------- MODULE PathClaims -----------------------------
(***************************************************************************)
(* What the worktree registry promises: a path is claimed by at most one   *)
(* open worktree lifecycle, a lifecycle opens once and closes once, and    *)
(* nobody can use the path in between.  Claiming is one step here: no lock *)
(* file, no separate check.  Worktree is shown to implement this module.   *)
(***************************************************************************)
CONSTANTS Ids, Paths, NoPath

VARIABLES claim,    \* the path each open lifecycle claims, or NoPath
          closed    \* lifecycles that are over

claimVars == <<claim, closed>>

Init == /\ claim = [i \in Ids |-> NoPath]
        /\ closed = {}

Open(i, p) == /\ claim[i] = NoPath
              /\ i \notin closed
              /\ \A j \in Ids : claim[j] # p
              /\ claim' = [claim EXCEPT ![i] = p]
              /\ UNCHANGED closed

Close(i) == /\ claim[i] # NoPath
            /\ claim' = [claim EXCEPT ![i] = NoPath]
            /\ closed' = closed \cup {i}

Next == \E i \in Ids : Close(i) \/ \E p \in Paths : Open(i, p)

Spec == Init /\ [][Next]_claimVars
=============================================================================
