------------------------------ MODULE FifoLock ------------------------------
(***************************************************************************)
(* What a run-directory lock promises its callers, with no queue file, no  *)
(* snapshots and no liveness probes: calls take numbers as they arrive,    *)
(* one call at a time is inside, and a call is let in only when everybody  *)
(* with a smaller number has gone (released, or its process is dead).      *)
(* RunLock is shown to implement this module.                              *)
(***************************************************************************)
EXTENDS Integers

CONSTANTS Calls,    \* invocations of withRunDirLock
          Nobody    \* the holder when no call is inside

VARIABLES ticket,   \* the number a call took, 0 before it arrived
          gone,     \* calls that no longer stand in anybody's way
          holder    \* the call inside, or Nobody

lockVars == <<ticket, gone, holder>>

Init == /\ ticket = [c \in Calls |-> 0]
        /\ gone = {}
        /\ holder = Nobody

Arrive(c) == /\ ticket[c] = 0
             /\ ticket'[c] \in Nat
             /\ \A b \in Calls : ticket[b] < ticket'[c]
             /\ ticket' = [ticket EXCEPT ![c] = ticket'[c]]
             /\ UNCHANGED <<gone, holder>>

FirstInLine(c) == \A b \in Calls : 0 < ticket[b] /\ ticket[b] < ticket[c] => b \in gone

Grant(c) == /\ holder = Nobody
            /\ 0 < ticket[c]
            /\ c \notin gone
            /\ FirstInLine(c)
            /\ holder' = c
            /\ UNCHANGED <<ticket, gone>>

Finish == /\ holder # Nobody
          /\ holder' = Nobody
          /\ UNCHANGED <<ticket, gone>>

\* One call leaves by its own RELEASE, or all calls of a process by its death.
Leave == \E S \in SUBSET Calls :
            /\ gone' = gone \cup S
            /\ holder' = IF holder \in S THEN Nobody ELSE holder
            /\ UNCHANGED ticket

Next == \/ \E c \in Calls : Arrive(c) \/ Grant(c)
        \/ Finish
        \/ Leave

Spec == Init /\ [][Next]_lockVars
=============================================================================
