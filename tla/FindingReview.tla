--------------------------- MODULE FindingReview ---------------------------
(***************************************************************************)
(* What a final review promises, without routes, budgets or failures: the  *)
(* defects it raises are repaired one at a time, each once; a repaired     *)
(* defect is rechecked once, and is then closed or has survived; a         *)
(* candidate is offered only when every defect raised is closed.           *)
(* Controller is shown to implement it.                                    *)
(***************************************************************************)
CONSTANT Findings

VARIABLES stage,    \* per finding: "none", "open", "repair", "closed" or "survived"
          offered   \* a reviewable candidate is on record

reviewVars == <<stage, offered>>

Init == stage = [f \in Findings |-> "none"] /\ offered = FALSE

\* One review raises all the defects there will ever be
Raise(S) == /\ ~offered
            /\ S # {}
            /\ \A f \in Findings : stage[f] = "none"
            /\ stage' = [f \in Findings |-> IF f \in S THEN "open" ELSE "none"]
            /\ UNCHANGED offered

Repair(f) == /\ ~offered
             /\ stage[f] = "open"
             /\ \A g \in Findings : stage[g] \in {"none", "open", "closed"}
             /\ stage' = [stage EXCEPT ![f] = "repair"]
             /\ UNCHANGED offered

Recheck(f, outcome) == /\ ~offered
                       /\ stage[f] = "repair"
                       /\ stage' = [stage EXCEPT ![f] = outcome]
                       /\ UNCHANGED offered

Offer == /\ \A f \in Findings : stage[f] \in {"none", "closed"}
         /\ offered' = TRUE
         /\ UNCHANGED stage

Next == \/ \E S \in SUBSET Findings : Raise(S)
        \/ \E f \in Findings : Repair(f)
        \/ \E f \in Findings, outcome \in {"closed", "survived"} : Recheck(f, outcome)
        \/ Offer

Spec == Init /\ [][Next]_reviewVars
=============================================================================
