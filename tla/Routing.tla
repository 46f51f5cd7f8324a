------------------------------ MODULE Routing ------------------------------
(***************************************************************************)
(* The routing policy, a pure function of the controller's facts:          *)
(* src/src/routing/policy.mjs (decideRoute), state.mjs (the escalation     *)
(* state machine), stuck.mjs (the derived STUCK criteria) and budget.mjs.  *)
(*                                                                         *)
(* A context c is the record decideRoute is called with.  Its collections  *)
(* keep what the policy asks of them: failureHistory is the number of      *)
(* failures per acceptance reference and whether the latest was credible,  *)
(* solFindings a function from finding ids.  What discovery says of a      *)
(* provider is not in the context: Routes(c) is the SET of results the     *)
(* call may have, Thrown among them.                                       *)
(***************************************************************************)
EXTENDS Naturals

CONSTANTS
    Findings,       \* finding ids
    Refs,           \* acceptance criteria of the contract
    NoRef,          \* a failure recorded without one
    NoFinding       \* activeFindingId = null

Criteria == Refs \cup {NoRef}

ASSUME NoFindingAssumption == NoFinding \notin Findings

--------------------------------------------------------------------------
(* The escalation state machine *)

Terminal == {"UNIT_COMPLETE", "STOPPED_STUCK", "STOPPED_BUDGET", "FAILED_NO_SUBSTITUTE"}
ReviewStates == {"AWAITING_SOL_FINAL_REVIEW", "AWAITING_SOL_RECHECK"}
Working == {"AWAITING_IMPLEMENTATION", "AWAITING_REPAIR", "AWAITING_PRO_MAX"}
Awaiting == Working \cup ReviewStates \cup
                {"AWAITING_SOL_CONTRACT_CHECK", "AWAITING_SOL_DIAGNOSE"}
Live == Awaiting \cup {"ROUTING_READY"}
States == Live \cup Terminal

\* TRANSITIONS read by event: every event has one target state
Arc == [TASK_READY |->
            [from |-> {"ROUTING_READY"}, to |-> "AWAITING_IMPLEMENTATION"],
        CONTRACT_REVIEW_REQUIRED |->
            [from |-> {"ROUTING_READY", "AWAITING_SOL_CONTRACT_CHECK"},
             to |-> "AWAITING_SOL_CONTRACT_CHECK"],
        RESULT_ACCEPTED |->
            [from |-> Working, to |-> "UNIT_COMPLETE"],
        RESULT_ACCEPTED_HIGH_RISK |->
            [from |-> Working \cup {"AWAITING_SOL_RECHECK"},
             to |-> "AWAITING_SOL_FINAL_REVIEW"],
        FAILURE_FIRST_CREDIBLE |->
            [from |-> {"AWAITING_IMPLEMENTATION"} \cup ReviewStates,
             to |-> "AWAITING_REPAIR"],
        SEMANTIC_REJECTION |->
            [from |-> Working, to |-> "AWAITING_SOL_DIAGNOSE"],
        SOL_FINDING_SURVIVED_REPAIR |->
            [from |-> Working, to |-> "AWAITING_SOL_RECHECK"],
        SOL_CHECK_RESOLVED |->
            [from |-> {"AWAITING_SOL_CONTRACT_CHECK"}, to |-> "AWAITING_IMPLEMENTATION"],
        SOL_DIAGNOSIS_READY |->
            [from |-> {"AWAITING_SOL_DIAGNOSE"}, to |-> "AWAITING_IMPLEMENTATION"],
        SOL_REVIEW_PASSED |->
            [from |-> ReviewStates, to |-> "UNIT_COMPLETE"],
        PRO_MAX_JUSTIFIED |->
            [from |-> Awaiting \ Working, to |-> "AWAITING_PRO_MAX"],
        STUCK |-> [from |-> Live, to |-> "STOPPED_STUCK"],
        BUDGET_EXHAUSTED |-> [from |-> Live, to |-> "STOPPED_BUDGET"],
        CAPABILITY_GAP |-> [from |-> Live, to |-> "FAILED_NO_SUBSTITUTE"],
        PROVIDER_UNAVAILABLE |-> [from |-> Live, to |-> "FAILED_NO_SUBSTITUTE"]]

--------------------------------------------------------------------------
(* Results *)

Decision(decision, role, next) == [decision |-> decision, role |-> role, next |-> next]

\* RouteStateError, RoutingError, SolCommandMasqueradeError
Thrown == Decision("THROWN", "NONE", "NONE")

Emit(c, decision, role, event) ==
    IF c.state \in Arc[event].from THEN Decision(decision, role, Arc[event].to) ELSE Thrown

\* failNoSubstituteDecision: both of its events lead to one state
NoSubstitute(c) == Emit(c, "FAIL_NO_SUBSTITUTE", "NONE", "CAPABILITY_GAP")

Stop(c) == {Emit(c, "STOP_STUCK", "NONE", "STUCK")}
Complete(c, event) == {Emit(c, "ROUTE_COMPLETE", "NONE", event)}

\* implementationRoute: the model is found, or there is no substitute
Implement(c, role, event) ==
    {Emit(c, "ROUTE_IMPLEMENT_FLASH", role, event), NoSubstitute(c)}

\* emitSol: the Codex channel is there, is missing or has no OAuth, or the
\* configuration pretends to a channel without authority
AskSol(c, decision, event) ==
    {Emit(c, decision, "SOL", event), NoSubstitute(c), Thrown}

--------------------------------------------------------------------------
(* Facts *)

Open(c) == {f \in Findings : c.findings[f].status = "OPEN"}

\* Faulty: a second repair is waited for before the recheck
RepairedTwice(c, f) == c.findings[f].status = "OPEN" /\ c.findings[f].cycles >= 2

Repaired(c, f) == c.findings[f].status = "OPEN" /\ c.findings[f].cycles >= 1

ReviewRequired(c) == c.contract \in {"ABSENT_REVIEW_REQUIRED", "REVIEW_REQUIRED"}

Stuck(c) == \/ c.observed
            \/ \E r \in Criteria : c.failed[r] >= 2
            \/ \E f \in Findings : Repaired(c, f) /\ c.findings[f].rechecks >= 1

\* isOpenFindingRecheckDue looks at the selected finding only, when there is one
RecheckDue(c) ==
    LET candidates == IF c.active \in Findings /\ c.findings[c.active].status # "NONE"
                      THEN {c.active} ELSE Findings
    IN  \E f \in candidates : Repaired(c, f) /\ c.findings[f].rechecks = 0

\* recheckHasFinalReviewProvenance
Provenance(c) == /\ c.review.ids # {}
                 /\ \A f \in c.review.ids : /\ c.findings[f].status # "NONE"
                                            /\ c.findings[f].origin = "FINAL_REVIEW"

HandleReviewPassed(c) ==
    IF Open(c) # {}
    THEN IF c.state = "AWAITING_SOL_FINAL_REVIEW" THEN {Thrown}
         ELSE IF \E f \in Open(c) : c.findings[f].rechecks >= 1 THEN Stop(c)
         ELSE Implement(c, "REPAIR", "FAILURE_FIRST_CREDIBLE")
    ELSE IF /\ c.state = "AWAITING_SOL_RECHECK"
            /\ c.contract = "HIGH_RISK"
            /\ ~Provenance(c)
         THEN AskSol(c, "ROUTE_SOL_FINAL_REVIEW", "RESULT_ACCEPTED_HIGH_RISK")
         ELSE Complete(c, "SOL_REVIEW_PASSED")

\* Faulty: an accepted result completes the unit whatever its risk
HandleAcceptedAnyRisk(c) ==
    IF c.state \in ReviewStates
    THEN IF c.review.verdict = "PASSED" THEN HandleReviewPassed(c) ELSE {Thrown}
    ELSE Complete(c, "RESULT_ACCEPTED")

\* Step 6, an accepted result
HandleAccepted(c) ==
    IF c.state \in ReviewStates
    THEN IF c.review.verdict = "PASSED" THEN HandleReviewPassed(c) ELSE {Thrown}
    ELSE IF c.contract = "HIGH_RISK"
         THEN AskSol(c, "ROUTE_SOL_FINAL_REVIEW", "RESULT_ACCEPTED_HIGH_RISK")
         ELSE Complete(c, "RESULT_ACCEPTED")

\* Step 7, an explicit escalation request
HandleEscalation(c) ==
    CASE c.escalation = "PRO_MAX" ->
            {Emit(c, "ROUTE_IMPLEMENT_PRO_MAX", "IMPLEMENT", "PRO_MAX_JUSTIFIED"), NoSubstitute(c)}
      [] c.escalation = "FLASH_MAX" ->
            {Emit(c, "ROUTE_IMPLEMENT_FLASH_MAX", "IMPLEMENT", "TASK_READY"), NoSubstitute(c)}
      [] OTHER -> {Thrown}

\* Step 8, the states whose outcome SOL decided
HandleOutcome(c) ==
    CASE c.state \in ReviewStates /\ c.review.verdict = "PASSED" -> HandleReviewPassed(c)
      [] c.state \in ReviewStates /\ c.review.verdict = "FINDING" ->
            IF c.state = "AWAITING_SOL_FINAL_REVIEW"
            THEN Implement(c, "REPAIR", "FAILURE_FIRST_CREDIBLE") ELSE Stop(c)
      [] c.state = "AWAITING_SOL_CONTRACT_CHECK" /\ c.contract \in {"LOW_RISK", "HIGH_RISK"} ->
            Implement(c, "IMPLEMENT", "SOL_CHECK_RESOLVED")
      [] c.state = "AWAITING_SOL_DIAGNOSE" /\ c.diagnosed ->
            Implement(c, "IMPLEMENT", "SOL_DIAGNOSIS_READY")
      [] OTHER -> {Thrown}

\* Step 9, and the default route of step 10
HandleFailure(c) ==
    IF c.credible = "YES" /\ c.state = "AWAITING_IMPLEMENTATION"
    THEN Implement(c, "REPAIR", "FAILURE_FIRST_CREDIBLE")
    ELSE IF c.credible = "NO" \/ (c.credible = "YES" /\ c.state = "AWAITING_PRO_MAX")
    THEN Stop(c)
    ELSE Implement(c, "IMPLEMENT", "TASK_READY")

\* decideRoute: the precedence of its ten steps
Routes(c) ==
    IF c.state \in Terminal THEN {Thrown}
    ELSE IF c.exhausted THEN {Emit(c, "STOP_BUDGET", "NONE", "BUDGET_EXHAUSTED")}
    ELSE IF c.contract = "INVALID" THEN {Thrown}
    ELSE IF ReviewRequired(c)
         THEN AskSol(c, "ROUTE_SOL_CONTRACT_CHECK", "CONTRACT_REVIEW_REQUIRED")
    ELSE IF Stuck(c) THEN Stop(c)
    ELSE IF RecheckDue(c) THEN AskSol(c, "ROUTE_SOL_RECHECK", "SOL_FINDING_SURVIVED_REPAIR")
    ELSE IF c.rejection = "SEMANTIC" THEN AskSol(c, "ROUTE_SOL_DIAGNOSE", "SEMANTIC_REJECTION")
    ELSE IF c.accepted THEN HandleAccepted(c)
    ELSE IF c.escalation # "NONE" THEN HandleEscalation(c)
    ELSE IF c.state \in Awaiting \ Working THEN HandleOutcome(c)
    ELSE HandleFailure(c)
=============================================================================
