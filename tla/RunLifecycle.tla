---------------------------- MODULE RunLifecycle ----------------------------
(***************************************************************************)
(* What a run promises every session that works on it, with no sessions,   *)
(* no lock, no crash and no failing write: one log of legal events that    *)
(* grows while the run is OPEN, and one atomic step that closes the run    *)
(* with a verdict on the whole log.  RunStore is shown to implement it.    *)
(***************************************************************************)
EXTENDS Ledger

VARIABLES log,      \* the events of the run
          phase,    \* "none", "OPEN" or how the run ended
          anchor    \* the summary of the log a finalized run keeps

runVars == <<log, phase, anchor>>

NoSummary == [lastSeq |-> 0, incomplete |-> {}]

Verdict(summary) == IF summary.incomplete = {} THEN "COMPLETED" ELSE "INCOMPLETE_LEDGER"

Init == log = <<>> /\ phase = "none" /\ anchor = NoSummary

Create == /\ phase = "none"
          /\ phase' = "OPEN"
          /\ UNCHANGED <<log, anchor>>

Record(e) == /\ phase = "OPEN"
             /\ Legal(log, e)
             /\ log' = Append(log, e)
             /\ UNCHANGED <<phase, anchor>>

Finalize == /\ phase = "OPEN"
            /\ anchor' = Summary(log)
            /\ phase' = Verdict(Summary(log))
            /\ UNCHANGED log

Abort == /\ phase = "OPEN"
         /\ phase' = "ABORTED"
         /\ UNCHANGED <<log, anchor>>

Next == \/ Create \/ Finalize \/ Abort
        \/ \E e \in Event : Record(e)

Spec == Init /\ [][Next]_runVars
=============================================================================
