-------------------------- MODULE ControllerProofs --------------------------
(***************************************************************************)
(* Controller for every set of findings and criteria, every budget and     *)
(* bound on the turns: types, the safety properties of a work unit, and    *)
(* the implementation of FindingReview.                                    *)
(*                                                                         *)
(* The argument follows the unit through its one final review.  Before it  *)
(* there is no finding (Unreviewed); after it the loop is at one of a few  *)
(* known points, in each of which the policy has one thing left to do      *)
(* (Reviewed).  What the policy decides is reduced, once, to the lemmas on *)
(* Routes; the rest of the proof speaks of the controller's own facts.     *)
(***************************************************************************)
EXTENDS Controller, SequenceTheorems, TLAPS

Looping == {"route", "dispatch", "worker", "sol", "answer"}

\* The decisions that are carried out, each with the state it leads to.
Implementation == Decision("ROUTE_IMPLEMENT_FLASH", "IMPLEMENT", "AWAITING_IMPLEMENTATION")
Repairing == Decision("ROUTE_IMPLEMENT_FLASH", "REPAIR", "AWAITING_REPAIR")
ContractCheck == Decision("ROUTE_SOL_CONTRACT_CHECK", "SOL", "AWAITING_SOL_CONTRACT_CHECK")
Diagnosis == Decision("ROUTE_SOL_DIAGNOSE", "SOL", "AWAITING_SOL_DIAGNOSE")
FinalReview == Decision("ROUTE_SOL_FINAL_REVIEW", "SOL", "AWAITING_SOL_FINAL_REVIEW")
Rechecking == Decision("ROUTE_SOL_RECHECK", "SOL", "AWAITING_SOL_RECHECK")

WorkerRoutes == {Implementation, Repairing}
SolRoutes == {ContractCheck, Diagnosis, FinalReview, Rechecking}

Reviews == asked["ROUTE_SOL_FINAL_REVIEW"]

\* The state is the one the decision being carried out leads to, and the
\* decision is one its place can carry out.
Routed ==
    /\ pc \in {"dispatch", "worker", "sol", "answer"} =>
          route \in WorkerRoutes \cup SolRoutes /\ state = route.next
    /\ pc = "worker" => route \in WorkerRoutes
    /\ pc \in {"sol", "answer"} => route \in SolRoutes
    /\ pc = "answer" => asked[route.decision] >= 1

\* A contract of unresolved risk only ever reaches the contract check.
CheckedFirst ==
    pc \in {"dispatch", "worker", "sol", "answer"} =>
        (contract = "REVIEW_REQUIRED" <=> route = ContractCheck)

\* Findings come from the final review, are repaired once and rechecked once,
\* and are closed by the recheck.
FindingsOK ==
    \A f \in Findings :
        /\ findings[f].cycles <= 1 /\ findings[f].rechecks <= findings[f].cycles
        /\ UnderRepair(f) => f = active
        /\ findings[f].status # "NONE" => findings[f].origin = "FINAL_REVIEW"
        /\ findings[f].status = "NONE" => findings[f].cycles = 0
        /\ findings[f].status = "CLOSED" => findings[f].cycles = 1 /\ findings[f].rechecks = 1

\* Before the final review nothing of it exists, and what it will be about is
\* an accepted patch.
Unreviewed ==
    Reviews = 0 =>
        /\ \A f \in Findings : findings[f].status = "NONE"
        /\ active = NoFinding
        /\ pc = "route" => state \notin ReviewStates
        /\ pc \in Looping \ {"route"} => route # Rechecking
        /\ pc \in {"dispatch", "sol"} /\ route = FinalReview => contract = "HIGH_RISK"

\* What a worker or the review made is never taken for accepted without a patch.
AcceptedHasPatch ==
    /\ accepted \/ Reviews >= 1 => patch.id # 0
    /\ pc \in {"dispatch", "sol"} /\ route = FinalReview => patch.id # 0

PassedReview == /\ state = "AWAITING_SOL_FINAL_REVIEW"
                /\ review.verdict = "PASSED" /\ accepted
                /\ \A f \in Findings : findings[f].status = "NONE"

FailedReview == /\ state = "AWAITING_SOL_FINAL_REVIEW"
                /\ review.verdict = "FINDING" /\ ~accepted
                /\ active \in OpenFindings /\ bound

AfterRepair == /\ state = "AWAITING_REPAIR"
               /\ active \in Findings /\ UnderRepair(active)

ResolvedRecheck == /\ state = "AWAITING_SOL_RECHECK"
                   /\ review.verdict = "PASSED" /\ active = NoFinding
                   /\ review.ids # {}
                   /\ \A f \in review.ids : findings[f].status # "NONE"

FailedRecheck == /\ state = "AWAITING_SOL_RECHECK"
                 /\ active \in OpenFindings
                 /\ findings[active].cycles = 1 /\ findings[active].rechecks = 1

\* After the final review the loop is at one of these points.
Reviewed ==
    Reviews >= 1 =>
        /\ Reviews = 1
        /\ contract = "HIGH_RISK"
        /\ pc = "route" => \/ PassedReview \/ FailedReview \/ AfterRepair
                           \/ ResolvedRecheck \/ FailedRecheck
        /\ pc = "route" /\ state \in ReviewStates => ask = patch.id
        /\ pc \in {"dispatch", "worker"} => route \in {Repairing, Rechecking}
        /\ pc = "sol" => route = Rechecking
        /\ pc = "answer" => /\ route \in {FinalReview, Rechecking}
                            /\ ask = patch.id
                            /\ route = FinalReview =>
                                  \A f \in Findings : findings[f].status = "NONE"
        /\ pc \in {"dispatch", "sol", "answer"} /\ route = Rechecking =>
              active \in Findings /\ UnderRepair(active)
        /\ pc = "worker" => active \in Findings /\ UnderRepair(active)
        /\ pc = "dispatch" /\ route = Repairing =>
              IF active = NoFinding THEN OpenFindings # {} ELSE active \in OpenFindings /\ bound

\* A repair is sent when no defect is under repair and none has survived.
RepairsAreFirst ==
    pc = "dispatch" /\ route = Repairing => \A f \in OpenFindings : findings[f].cycles = 0

\* A diagnosis follows a failure, and a rejection after it is a second one.
Diagnosed ==
    /\ asked["ROUTE_SOL_DIAGNOSE"] <= 1
    /\ rejection # "NONE" => failed[FirstRef] >= 1
    /\ asked["ROUTE_SOL_DIAGNOSE"] = 1 => failed[FirstRef] >= 1
    /\ asked["ROUTE_SOL_DIAGNOSE"] = 1 /\ rejection = "SEMANTIC" /\ pc \in Looping =>
          failed[FirstRef] >= 2 \/ (pc = "answer" /\ route = Diagnosis)
    /\ pc \in {"dispatch", "sol"} /\ route = Diagnosis =>
          asked["ROUTE_SOL_DIAGNOSE"] = 0 /\ rejection = "SEMANTIC"

\* Every recheck follows a repair of its own.
RechecksArePaid ==
    /\ asked["ROUTE_SOL_RECHECK"] <= repairs
    /\ (\E f \in Findings : UnderRepair(f)) /\ pc \in Looping /\ ~(pc = "answer" /\ route = Rechecking) =>
          asked["ROUTE_SOL_RECHECK"] < repairs

\* An approval is decided on facts that no later step changes.
Earned == /\ contract = "HIGH_RISK"
          /\ Reviews = 1
          /\ \A f \in Findings : findings[f].status \in {"NONE", "CLOSED"}
          /\ ask = patch.id /\ patch.id # 0

Decided ==
    /\ pc \in Looping => disposition = "REJECTED"
    /\ pc # "failed" /\ disposition \in Approvals => OpenFindings = {}
    /\ pc # "failed" /\ disposition = "REVIEW_APPROVED" => Earned /\ (pc # "close" => ~seam)
    /\ pc # "failed" /\ disposition = "SEMANTICALLY_ACCEPTED" => contract # "HIGH_RISK"
    /\ Recorded("REVIEW_APPROVED") => Earned /\ ~seam
    /\ Recorded("candidate") => /\ OpenFindings = {}
                                /\ contract = "HIGH_RISK" => Earned
                                /\ pc \notin Looping

\* The records on disk are those of the disposition, in their order.
Written ==
    /\ pc \in Looping \cup {"close"} => written = <<>>
    /\ pc = "record" => /\ Len(written) < Len(Plan(disposition))
                        /\ \A n \in 1 .. Len(written) : written[n] = Plan(disposition)[n]
    /\ pc \in {"finish", "done"} /\ error = "NONE" => written = Plan(disposition)
    /\ error # "NONE" => pc \in {"failed", "finish", "done"}
    /\ error # "NONE" /\ pc # "failed" => disposition = "REJECTED"
    /\ pc = "failed" => error # "NONE"

\* What the turns of the loop keep, and what its end does.
LoopInv == /\ Routed /\ CheckedFirst /\ FindingsOK /\ Unreviewed /\ AcceptedHasPatch /\ Reviewed
           /\ RepairsAreFirst /\ Diagnosed /\ RechecksArePaid
EndInv == Decided /\ Written /\ SentWorkIsBound

IInv == TypeOK /\ LoopInv /\ EndInv
-----------------------------------------------------------------------------
(* The policy. *)

\* The arcs of the state machine that lead to work.
LEMMA Arcs ==
    /\ Arc["TASK_READY"] = [from |-> {"ROUTING_READY"}, to |-> "AWAITING_IMPLEMENTATION"]
    /\ Arc["CONTRACT_REVIEW_REQUIRED"].to = "AWAITING_SOL_CONTRACT_CHECK"
    /\ Arc["RESULT_ACCEPTED_HIGH_RISK"] =
          [from |-> Working \cup {"AWAITING_SOL_RECHECK"}, to |-> "AWAITING_SOL_FINAL_REVIEW"]
    /\ Arc["FAILURE_FIRST_CREDIBLE"] =
          [from |-> {"AWAITING_IMPLEMENTATION"} \cup ReviewStates, to |-> "AWAITING_REPAIR"]
    /\ Arc["SEMANTIC_REJECTION"] = [from |-> Working, to |-> "AWAITING_SOL_DIAGNOSE"]
    /\ Arc["SOL_FINDING_SURVIVED_REPAIR"] = [from |-> Working, to |-> "AWAITING_SOL_RECHECK"]
    /\ Arc["SOL_CHECK_RESOLVED"] =
          [from |-> {"AWAITING_SOL_CONTRACT_CHECK"}, to |-> "AWAITING_IMPLEMENTATION"]
    /\ Arc["SOL_DIAGNOSIS_READY"] =
          [from |-> {"AWAITING_SOL_DIAGNOSE"}, to |-> "AWAITING_IMPLEMENTATION"]
BY DEF Arc

\* A result that asks SOL comes from an arc out of the state.
LEMMA SolResult ==
    ASSUME NEW c, NEW d, NEW ev, NEW r \in AskSol(c, d, ev), r.role # "NONE"
    PROVE  c.state \in Arc[ev].from /\ r = Decision(d, "SOL", Arc[ev].to)
BY DEF AskSol, Emit, NoSubstitute, Thrown, Decision

\* So does a result that sends a worker.
LEMMA WorkerResult ==
    ASSUME NEW c, NEW role, NEW ev, NEW r \in Implement(c, role, ev), r.role # "NONE"
    PROVE  c.state \in Arc[ev].from /\ r = Decision("ROUTE_IMPLEMENT_FLASH", role, Arc[ev].to)
BY DEF Implement, Emit, NoSubstitute, Thrown, Decision

\* The results that end the unit send nobody.
LEMMA EndResult ==
    ASSUME NEW c, NEW ev, NEW r, r \in Complete(c, ev) \/ r \in Stop(c)
    PROVE  r.role = "NONE"
BY DEF Complete, Stop, Emit, Thrown, Decision

\* What has to be the case for the policy to order each kind of work.
Orders(c, r) ==
    \/ r = ContractCheck /\ ReviewRequired(c)
    \/ /\ ~ReviewRequired(c) /\ ~Stuck(c)
       /\ \/ r = Rechecking /\ RecheckDue(c) /\ c.state \in Working
          \/ /\ ~RecheckDue(c)
             /\ \/ r = Diagnosis /\ c.rejection = "SEMANTIC" /\ c.state \in Working
                \/ /\ r = FinalReview /\ c.contract = "HIGH_RISK"
                   /\ \/ c.state \in Working /\ c.accepted
                      \/ c.state = "AWAITING_SOL_RECHECK" /\ Open(c) = {} /\ ~Provenance(c)
                \/ /\ r = Repairing
                   /\ \/ c.state = "AWAITING_IMPLEMENTATION"
                      \/ c.state = "AWAITING_SOL_RECHECK" /\ Open(c) # {} /\ c.review.verdict = "PASSED"
                      \/ c.state = "AWAITING_SOL_FINAL_REVIEW" /\ c.review.verdict = "FINDING"
                \/ /\ r = Implementation
                   /\ c.state \in {"ROUTING_READY", "AWAITING_SOL_CONTRACT_CHECK",
                                   "AWAITING_SOL_DIAGNOSE"}

\* An accepted review leads to a repair, to the final review, or to the end.
LEMMA PassedResult ==
    ASSUME NEW c, NEW r \in HandleReviewPassed(c), r.role # "NONE", c.state \in ReviewStates,
           c.review.verdict = "PASSED"
    PROVE  \/ r = Repairing /\ c.state = "AWAITING_SOL_RECHECK" /\ Open(c) # {}
           \/ /\ r = FinalReview /\ c.contract = "HIGH_RISK"
              /\ c.state = "AWAITING_SOL_RECHECK" /\ Open(c) = {} /\ ~Provenance(c)
<1>1. CASE Open(c) # {}
  <2>1. c.state # "AWAITING_SOL_FINAL_REVIEW"
    BY <1>1 DEF HandleReviewPassed, Thrown, Decision
  <2>2. r \in Implement(c, "REPAIR", "FAILURE_FIRST_CREDIBLE")
    BY <1>1, <2>1, EndResult DEF HandleReviewPassed
  <2>. QED
    BY <1>1, <2>1, <2>2, WorkerResult, Arcs DEF Repairing, ReviewStates
<1>2. CASE Open(c) = {}
  <2>1. /\ c.state = "AWAITING_SOL_RECHECK" /\ c.contract = "HIGH_RISK" /\ ~Provenance(c)
        /\ r \in AskSol(c, "ROUTE_SOL_FINAL_REVIEW", "RESULT_ACCEPTED_HIGH_RISK")
    BY <1>2, EndResult DEF HandleReviewPassed
  <2>. QED
    BY <1>2, <2>1, SolResult, Arcs DEF FinalReview
<1>. QED
  BY <1>1, <1>2

\* Whatever work the policy orders, it had the facts for it.
LEMMA PolicyWork ==
    ASSUME NEW c, c.escalation = "NONE", NEW r \in Routes(c), r.role # "NONE"
    PROVE  Orders(c, r) /\ ~c.exhausted
<1>. DEFINE ends == Emit(c, "STOP_BUDGET", "NONE", "BUDGET_EXHAUSTED")
<1>0. /\ Thrown.role = "NONE" /\ ends.role = "NONE"
      /\ c.state \notin Terminal /\ ~c.exhausted /\ c.contract # "INVALID"
  BY DEF Routes, Thrown, Emit, Decision
<1>1. CASE ReviewRequired(c)
  <2>1. r \in AskSol(c, "ROUTE_SOL_CONTRACT_CHECK", "CONTRACT_REVIEW_REQUIRED")
    BY <1>0, <1>1 DEF Routes
  <2>. QED
    BY <1>0, <1>1, <2>1, SolResult, Arcs DEF Orders, ContractCheck
<1>2. CASE ~ReviewRequired(c)
  <2>1. ~Stuck(c)
    BY <1>0, <1>2, EndResult DEF Routes
  <2>2. CASE RecheckDue(c)
    <3>1. r \in AskSol(c, "ROUTE_SOL_RECHECK", "SOL_FINDING_SURVIVED_REPAIR")
      BY <1>0, <1>2, <2>1, <2>2 DEF Routes
    <3>. QED
      BY <1>0, <1>2, <2>1, <2>2, <3>1, SolResult, Arcs DEF Orders, Rechecking
  <2>3. CASE ~RecheckDue(c) /\ c.rejection = "SEMANTIC"
    <3>1. r \in AskSol(c, "ROUTE_SOL_DIAGNOSE", "SEMANTIC_REJECTION")
      BY <1>0, <1>2, <2>1, <2>3 DEF Routes
    <3>. QED
      BY <1>0, <1>2, <2>1, <2>3, <3>1, SolResult, Arcs DEF Orders, Diagnosis
  <2>4. CASE ~RecheckDue(c) /\ c.rejection # "SEMANTIC" /\ c.accepted
    <3>1. r \in HandleAccepted(c)
      BY <1>0, <1>2, <2>1, <2>4 DEF Routes
    <3>2. CASE c.state \in ReviewStates
      <4>1. c.review.verdict = "PASSED" /\ r \in HandleReviewPassed(c)
        BY <1>0, <3>1, <3>2 DEF HandleAccepted
      <4>. QED
        BY <1>0, <1>2, <2>1, <2>4, <3>2, <4>1, PassedResult DEF Orders
    <3>3. CASE c.state \notin ReviewStates
      <4>1. c.contract = "HIGH_RISK" /\ r \in AskSol(c, "ROUTE_SOL_FINAL_REVIEW", "RESULT_ACCEPTED_HIGH_RISK")
        BY <3>1, <3>3, EndResult DEF HandleAccepted
      <4>. QED
        BY <1>0, <1>2, <2>1, <2>4, <3>3, <4>1, SolResult, Arcs DEF Orders, FinalReview, ReviewStates
    <3>. QED
      BY <3>2, <3>3
  <2>5. CASE ~RecheckDue(c) /\ c.rejection # "SEMANTIC" /\ ~c.accepted /\ c.state \in Awaiting \ Working
    <3>1. r \in HandleOutcome(c)
      BY <1>0, <1>2, <2>1, <2>5 DEF Routes
    <3>2. CASE c.state \in ReviewStates /\ c.review.verdict = "PASSED"
      <4>1. /\ c.review.verdict # "FINDING"
            /\ c.state # "AWAITING_SOL_CONTRACT_CHECK" /\ c.state # "AWAITING_SOL_DIAGNOSE"
        BY <3>2 DEF ReviewStates
      <4>2. r \in HandleReviewPassed(c)
        BY <3>1, <3>2, <4>1, Zenon DEF HandleOutcome
      <4>. QED
        BY <4>2, <3>2, PassedResult, <1>0, <1>2, <2>1, <2>5 DEF Orders
    <3>3. CASE c.state \in ReviewStates /\ c.review.verdict # "PASSED"
      <4>1. /\ c.review.verdict = "FINDING" /\ c.state = "AWAITING_SOL_FINAL_REVIEW"
            /\ r \in Implement(c, "REPAIR", "FAILURE_FIRST_CREDIBLE")
        BY <1>0, <3>1, <3>3, EndResult DEF HandleOutcome, ReviewStates
      <4>. QED
        BY <4>1, WorkerResult, Arcs, <1>0, <1>2, <2>1, <2>5 DEF Orders, Repairing
    <3>4. CASE c.state \notin ReviewStates
      <4>1. \/ r \in Implement(c, "IMPLEMENT", "SOL_CHECK_RESOLVED")
            \/ r \in Implement(c, "IMPLEMENT", "SOL_DIAGNOSIS_READY")
        BY <1>0, <3>1, <3>4 DEF HandleOutcome
      <4>. QED
        BY <4>1, WorkerResult, Arcs, <1>0, <1>2, <2>1, <2>5 DEF Orders, Implementation
    <3>. QED
      BY <3>2, <3>3, <3>4
  <2>6. CASE ~RecheckDue(c) /\ c.rejection # "SEMANTIC" /\ ~c.accepted /\ c.state \notin Awaiting \ Working
    <3>1. r \in HandleFailure(c)
      BY <1>0, <1>2, <2>1, <2>6 DEF Routes
    <3>2. \/ r \in Implement(c, "REPAIR", "FAILURE_FIRST_CREDIBLE") /\ c.state = "AWAITING_IMPLEMENTATION"
          \/ r \in Implement(c, "IMPLEMENT", "TASK_READY")
      BY <3>1, EndResult DEF HandleFailure
    <3>. QED
      BY <3>2, WorkerResult, Arcs, <1>0, <1>2, <2>1, <2>6 DEF Orders, Repairing, Implementation
  <2>. QED
    BY <2>2, <2>3, <2>4, <2>5, <2>6
<1>. QED
  BY <1>0, <1>1, <1>2

\* A complete unit of high risk comes from a review.
LEMMA PolicyEnd ==
    ASSUME NEW c, c.escalation = "NONE", NEW r \in Routes(c), r.decision = "ROUTE_COMPLETE"
    PROVE  /\ ~ReviewRequired(c)
           /\ c.contract = "HIGH_RISK" => c.state \in ReviewStates
<1>1. \A d, role, ev : Emit(c, d, role, ev) = Thrown \/ Emit(c, d, role, ev).decision = d
  BY DEF Emit, Decision
<1>2. /\ Thrown.decision # "ROUTE_COMPLETE"
      /\ NoSubstitute(c).decision # "ROUTE_COMPLETE"
      /\ r \notin Stop(c)
      /\ Emit(c, "STOP_BUDGET", "NONE", "BUDGET_EXHAUSTED").decision # "ROUTE_COMPLETE"
  BY <1>1 DEF Thrown, NoSubstitute, Decision, Stop
<1>3. \A d, ev : r \in AskSol(c, d, ev) => d = "ROUTE_COMPLETE"
  BY <1>1, <1>2 DEF AskSol
<1>4. \A role, ev : r \notin Implement(c, role, ev)
  BY <1>1, <1>2 DEF Implement
<1>5. ~ReviewRequired(c)
  BY <1>2, <1>3 DEF Routes
<1>6. ASSUME c.state \notin ReviewStates, c.contract = "HIGH_RISK" PROVE FALSE
  <2>1. r \notin HandleAccepted(c)
    BY <1>3, <1>6 DEF HandleAccepted
  <2>2. r \notin HandleFailure(c)
    BY <1>2, <1>4 DEF HandleFailure
  <2>3. r \notin HandleOutcome(c)
    BY <1>2, <1>4, <1>6 DEF HandleOutcome
  <2>. QED
    BY <2>1, <2>2, <2>3, <1>2, <1>3, <1>5 DEF Routes
<1>. QED
  BY <1>5, <1>6

\* The results of the policy are decisions.
LEMMA PolicyType ==
    ASSUME NEW c, c.escalation = "NONE", NEW r \in Routes(c)
    PROVE  r \in RouteRecord
<1>. DEFINE orders == {"ROUTE_IMPLEMENT_FLASH", "ROUTE_COMPLETE", "STOP_STUCK", "STOP_BUDGET",
                       "FAIL_NO_SUBSTITUTE", "THROWN"} \cup Calls
            roles == {"IMPLEMENT", "REPAIR", "SOL", "NONE"}
<1>1. \A d \in orders, role \in roles, to \in States \cup {"NONE"} : Decision(d, role, to) \in RouteRecord
  BY DEF Decision, RouteRecord
<1>2. Thrown \in RouteRecord
  BY <1>1 DEF Thrown
<1>3. \A ev \in DOMAIN Arc : Arc[ev].to \in States
  BY DEF Arc, States, Live, Awaiting, Working, ReviewStates, Terminal
<1>4. \A d \in orders, role \in roles, ev \in DOMAIN Arc : Emit(c, d, role, ev) \in RouteRecord
  BY <1>1, <1>2, <1>3 DEF Emit
<1>5. DOMAIN Arc = {"TASK_READY", "CONTRACT_REVIEW_REQUIRED", "RESULT_ACCEPTED",
                    "RESULT_ACCEPTED_HIGH_RISK", "FAILURE_FIRST_CREDIBLE", "SEMANTIC_REJECTION",
                    "SOL_FINDING_SURVIVED_REPAIR", "SOL_CHECK_RESOLVED", "SOL_DIAGNOSIS_READY",
                    "SOL_REVIEW_PASSED", "PRO_MAX_JUSTIFIED", "STUCK", "BUDGET_EXHAUSTED",
                    "CAPABILITY_GAP", "PROVIDER_UNAVAILABLE"}
  BY DEF Arc
<1>6. NoSubstitute(c) \in RouteRecord
  BY <1>4, <1>5 DEF NoSubstitute
<1>7. \A d \in Calls, ev \in DOMAIN Arc : AskSol(c, d, ev) \subseteq RouteRecord
  BY <1>2, <1>4, <1>6 DEF AskSol
<1>8. \A role \in {"IMPLEMENT", "REPAIR"}, ev \in DOMAIN Arc : Implement(c, role, ev) \subseteq RouteRecord
  BY <1>4, <1>6 DEF Implement
<1>9. Stop(c) \subseteq RouteRecord
  BY <1>4, <1>5 DEF Stop
<1>10. \A ev \in DOMAIN Arc : Complete(c, ev) \subseteq RouteRecord
  BY <1>4, <1>5 DEF Complete
<1>11. HandleReviewPassed(c) \subseteq RouteRecord
  BY <1>2, <1>5, <1>7, <1>8, <1>9, <1>10 DEF HandleReviewPassed, Calls
<1>12. HandleAccepted(c) \subseteq RouteRecord
  BY <1>2, <1>5, <1>7, <1>10, <1>11 DEF HandleAccepted, Calls
<1>13. HandleFailure(c) \subseteq RouteRecord
  BY <1>5, <1>8, <1>9 DEF HandleFailure
<1>14. /\ Implement(c, "REPAIR", "FAILURE_FIRST_CREDIBLE") \subseteq RouteRecord
       /\ Implement(c, "IMPLEMENT", "SOL_CHECK_RESOLVED") \subseteq RouteRecord
       /\ Implement(c, "IMPLEMENT", "SOL_DIAGNOSIS_READY") \subseteq RouteRecord
  BY <1>5, <1>8
<1>15. HandleOutcome(c) \subseteq RouteRecord
  BY <1>2, <1>9, <1>11, <1>14, Zenon DEF HandleOutcome
<1>. QED
  BY <1>2, <1>4, <1>5, <1>7, <1>9, <1>12, <1>13, <1>15 DEF Routes, Calls
-----------------------------------------------------------------------------
(* Types. *)

\* The context of a decision, read back.
LEMMA ContextFields ==
    /\ Context.state = state /\ Context.contract = contract /\ Context.escalation = "NONE"
    /\ Context.exhausted = Exhausted /\ Context.observed = FALSE
    /\ Context.accepted = accepted /\ Context.rejection = rejection
    /\ Context.failed = failed /\ Context.review = review
    /\ Context.findings = findings /\ Context.active = active
    /\ Open(Context) = OpenFindings
BY DEF Context, Open, OpenFindings

\* A turn of the loop leaves it, or goes to work the policy ordered.
LEMMA RouteForms ==
    ASSUME Route
    PROVE  /\ pc = "route" /\ route' \in Routes(Context)
           /\ UNCHANGED <<contract, seam, spent, facts, work>>
           /\ \/ /\ pc' = "dispatch" /\ state' = route'.next /\ UNCHANGED ending
                 /\ route' \in WorkerRoutes \cup SolRoutes
                 /\ Orders(Context, route') /\ ~Exhausted
              \/ /\ pc' = "close" /\ UNCHANGED <<state, error, written, lifecycle>>
                 /\ disposition' = IF route'.decision = "ROUTE_COMPLETE" THEN Verdict ELSE "REJECTED"
              \/ /\ pc' = "failed" /\ error' = "ROUTING"
                 /\ UNCHANGED <<state, disposition, written, lifecycle>>
<1>1. PICK r \in Routes(Context) : route' = r /\ (RouteToEnd(r) \/ RouteToWork(r) \/ RouteThrows(r))
  BY DEF Route
<1>2. CASE RouteToEnd(r)
  BY <1>1, <1>2 DEF Route, RouteToEnd, Settle, setup
<1>3. CASE RouteToWork(r)
  <2>1. Orders(Context, r) /\ ~Exhausted
    BY <1>3, PolicyWork, ContextFields DEF RouteToWork
  <2>2. r \in WorkerRoutes \cup SolRoutes
    BY <2>1 DEF Orders, WorkerRoutes, SolRoutes
  <2>. QED
    BY <1>1, <1>3, <2>1, <2>2 DEF Route, RouteToWork, setup
<1>4. CASE RouteThrows(r)
  BY <1>1, <1>4 DEF Route, RouteThrows, Throw, setup
<1>. QED
  BY <1>1, <1>2, <1>3, <1>4

\* The states the decisions lead to, and the calls they are.
LEMMA WorkFields ==
    /\ \A r \in WorkerRoutes : r.role \in {"IMPLEMENT", "REPAIR"} /\ r.next \in States
    /\ \A r \in SolRoutes : r.role = "SOL" /\ r.next \in States /\ r.decision \in Calls
    /\ Implementation.role = "IMPLEMENT" /\ Repairing.role = "REPAIR"
    /\ Implementation.next = "AWAITING_IMPLEMENTATION" /\ Repairing.next = "AWAITING_REPAIR"
    /\ Diagnosis.next = "AWAITING_SOL_DIAGNOSE" /\ ContractCheck.next = "AWAITING_SOL_CONTRACT_CHECK"
    /\ FinalReview.next = "AWAITING_SOL_FINAL_REVIEW" /\ Rechecking.next = "AWAITING_SOL_RECHECK"
    /\ ContractCheck.decision = "ROUTE_SOL_CONTRACT_CHECK"
    /\ Diagnosis.decision = "ROUTE_SOL_DIAGNOSE"
    /\ FinalReview.decision = "ROUTE_SOL_FINAL_REVIEW"
    /\ Rechecking.decision = "ROUTE_SOL_RECHECK"
    /\ Implementation.decision \notin Calls /\ Repairing.decision \notin Calls
BY DEF WorkerRoutes, SolRoutes, Implementation, Repairing, Diagnosis, ContractCheck, FinalReview,
       Rechecking, Decision, States, Live, Awaiting, Working, ReviewStates, Calls

Dispositions == Approvals \cup {"REJECTED", "REVIEW_REQUIRED"}
Records == Dispositions \cup {"PATCH_VALID", "candidate", "unit"}

\* The records of a disposition, one by one.
LEMMA PlanFields ==
    /\ Plan("SEMANTICALLY_ACCEPTED") =
          <<"PATCH_VALID", "SEMANTICALLY_ACCEPTED", "candidate", "unit">>
    /\ Plan("REVIEW_APPROVED") =
          <<"PATCH_VALID", "SEMANTICALLY_ACCEPTED", "candidate", "REVIEW_APPROVED", "unit">>
    /\ \A d \in {"REJECTED", "REVIEW_REQUIRED"} : Plan(d) = <<d, "unit">>
BY DEF Plan

\* A plan is a sequence of at least two records.
LEMMA PlanType == \A d \in Dispositions : Plan(d) \in Seq(Records) /\ Len(Plan(d)) \in {2, 4, 5}
<1>0. /\ "PATCH_VALID" \in Records /\ "SEMANTICALLY_ACCEPTED" \in Records
      /\ "candidate" \in Records /\ "unit" \in Records /\ "REVIEW_APPROVED" \in Records
      /\ "REJECTED" \in Records /\ "REVIEW_REQUIRED" \in Records
  BY DEF Records, Dispositions, Approvals
<1>1. Plan("SEMANTICALLY_ACCEPTED") \in Seq(Records) /\ Len(Plan("SEMANTICALLY_ACCEPTED")) = 4
  <2>1. <<"PATCH_VALID", "SEMANTICALLY_ACCEPTED", "candidate", "unit">> \in Seq(Records)
    BY <1>0
  <2>2. Len(<<"PATCH_VALID", "SEMANTICALLY_ACCEPTED", "candidate", "unit">>) = 4
    OBVIOUS
  <2>. QED
    BY <2>1, <2>2, PlanFields
<1>2. Plan("REVIEW_APPROVED") \in Seq(Records) /\ Len(Plan("REVIEW_APPROVED")) = 5
  <2>1. <<"PATCH_VALID", "SEMANTICALLY_ACCEPTED", "candidate", "REVIEW_APPROVED", "unit">> \in Seq(Records)
    BY <1>0
  <2>2. Len(<<"PATCH_VALID", "SEMANTICALLY_ACCEPTED", "candidate", "REVIEW_APPROVED", "unit">>) = 5
    OBVIOUS
  <2>. QED
    BY <2>1, <2>2, PlanFields
<1>3. Plan("REJECTED") \in Seq(Records) /\ Len(Plan("REJECTED")) = 2
  <2>1. <<"REJECTED", "unit">> \in Seq(Records)
    BY <1>0
  <2>2. Len(<<"REJECTED", "unit">>) = 2
    OBVIOUS
  <2>. QED
    BY <2>1, <2>2, PlanFields
<1>4. Plan("REVIEW_REQUIRED") \in Seq(Records) /\ Len(Plan("REVIEW_REQUIRED")) = 2
  <2>1. <<"REVIEW_REQUIRED", "unit">> \in Seq(Records)
    BY <1>0
  <2>2. Len(<<"REVIEW_REQUIRED", "unit">>) = 2
    OBVIOUS
  <2>. QED
    BY <2>1, <2>2, PlanFields
<1>. QED
  BY <1>1, <1>2, <1>3, <1>4 DEF Dispositions, Approvals

FactTypes ==
    /\ accepted \in BOOLEAN /\ rejection \in {"NONE", "SEMANTIC", "OTHER"}
    /\ failed \in [Criteria -> Nat] /\ credible \in {"NONE", "YES", "NO"}
    /\ diagnosed \in BOOLEAN
    /\ review \in [verdict : {"NONE", "PASSED", "FINDING"}, ids : SUBSET Findings]
    /\ findings \in [Findings -> FindingRecord] /\ active \in Findings \cup {NoFinding}

WorkTypes ==
    /\ repairs \in Nat /\ bound \in BOOLEAN /\ attempts \in Nat
    /\ patch \in [id : Nat, valid : BOOLEAN, accepted : BOOLEAN]
    /\ asked \in [Calls -> Nat] /\ ask \in Nat

EndTypes ==
    /\ disposition \in Dispositions
    /\ error \in {"NONE", "ROUTING", "SOL_ASK_INVALID", "IO"}
    /\ written \in Seq(Records)
    /\ lifecycle \in {"NONE", "COMPLETED", "INCOMPLETE_LEDGER"}

PlaceTypes ==
    /\ pc \in {"route", "dispatch", "worker", "sol", "answer", "close", "record", "failed",
               "finish", "done"}
    /\ contract \in Contracts /\ seam \in BOOLEAN
    /\ step \in 0 .. MaxSteps /\ spent \in Nat
    /\ state \in States
    /\ route \in RouteRecord

\* The types, in four groups.
LEMMA TypeGroups == TypeOK <=> PlaceTypes /\ FactTypes /\ WorkTypes /\ EndTypes
BY DEF TypeOK, PlaceTypes, FactTypes, WorkTypes, EndTypes, Dispositions, Records

\* The initial state is well typed.
LEMMA InitType == Init => TypeOK
<1>. SUFFICES ASSUME Init PROVE TypeOK
  OBVIOUS
<1>1. FactTypes
  <2>1. findings \in [Findings -> FindingRecord]
    BY FirstRefAssumption DEF Init, Absent, FindingRecord
  <2>2. review \in [verdict : {"NONE", "PASSED", "FINDING"}, ids : SUBSET Findings]
    BY DEF Init, NoReview
  <2>. QED
    BY <2>1, <2>2 DEF Init, FactTypes
<1>2. WorkTypes
  BY DEF Init, WorkTypes, NoPatch
<1>3. EndTypes
  <2>1. written \in Seq(Records)
    BY EmptySeq DEF Init
  <2>. QED
    BY <2>1 DEF Init, EndTypes, Dispositions
<1>4. PlaceTypes
  <2>1. state \in States /\ route \in RouteRecord
    BY DEF Init, States, Live, Thrown, Decision, RouteRecord
  <2>. QED
    BY <2>1, LimitsAssumption DEF Init, PlaceTypes
<1>. QED
  BY <1>1, <1>2, <1>3, <1>4, TypeGroups

\* One more in a table of counters.
LEMMA Counts ==
    ASSUME NEW S, NEW x \in S, NEW f \in [S -> Nat]
    PROVE  LET g == [f EXCEPT ![x] = @ + 1]
           IN  g \in [S -> Nat] /\ g[x] = f[x] + 1 /\ \A y \in S \ {x} : g[y] = f[y]
OBVIOUS

Raised(r) == [Absent(r) EXCEPT !.status = "OPEN", !.origin = "FINAL_REVIEW"]

\* A finding that was raised is open, unrepaired and not rechecked.
LEMMA FreshFinding ==
    \A r \in Refs : /\ Raised(r) \in FindingRecord
                    /\ Raised(r).status = "OPEN" /\ Raised(r).origin = "FINAL_REVIEW"
                    /\ Raised(r).cycles = 0 /\ Raised(r).rechecks = 0
<1>1. \A r \in Refs : /\ Absent(r) \in FindingRecord
                      /\ Absent(r).cycles = 0 /\ Absent(r).rechecks = 0
  BY DEF Absent, FindingRecord
<1>2. \A a \in FindingRecord :
          LET x == [a EXCEPT !.status = "OPEN", !.origin = "FINAL_REVIEW"]
          IN  /\ x \in FindingRecord
              /\ x.status = "OPEN" /\ x.origin = "FINAL_REVIEW"
              /\ x.cycles = a.cycles /\ x.rechecks = a.rechecks
  BY DEF FindingRecord
<1>. QED
  BY <1>1, <1>2 DEF Raised

Rechecked(r, st, n) == [r EXCEPT !.rechecks = n, !.status = st]

\* The record of a finding after a recheck.
LEMMA RecheckedFinding ==
    ASSUME NEW r \in FindingRecord, NEW st \in {"NONE", "OPEN", "CLOSED"}, NEW n \in Nat
    PROVE  /\ Rechecked(r, st, n) \in FindingRecord
           /\ Rechecked(r, st, n).status = st /\ Rechecked(r, st, n).rechecks = n
           /\ Rechecked(r, st, n).cycles = r.cycles /\ Rechecked(r, st, n).origin = r.origin
BY DEF FindingRecord, Rechecked

\* A recheck counts for the active finding, and closes it or not.
LEMMA RecheckEffect ==
    ASSUME FactTypes, active \in Findings, NEW resolved \in BOOLEAN, Recheck(resolved)
    PROVE  /\ findings' \in [Findings -> FindingRecord]
           /\ \A f \in Findings : f # active => findings'[f] = findings[f]
           /\ findings'[active].rechecks = findings[active].rechecks + 1
           /\ findings'[active].cycles = findings[active].cycles
           /\ findings'[active].origin = findings[active].origin
           /\ findings'[active].status = IF resolved THEN "CLOSED" ELSE findings[active].status
<1>. DEFINE old == findings[active]
            n == old.rechecks + 1
            st == IF resolved THEN "CLOSED" ELSE old.status
<1>1. findings' = [f \in Findings |->
                      IF f = active THEN Rechecked(old, st, n) ELSE findings[f]]
  BY DEF Recheck, FactTypes, Rechecked
<1>2. old \in FindingRecord
  BY DEF FactTypes
<1>3. n \in Nat /\ st \in {"NONE", "OPEN", "CLOSED"}
  BY <1>2 DEF FindingRecord
<1>. HIDE DEF n, st, old
<1>4. /\ Rechecked(old, st, n) \in FindingRecord
      /\ Rechecked(old, st, n).status = st /\ Rechecked(old, st, n).rechecks = n
      /\ Rechecked(old, st, n).cycles = old.cycles /\ Rechecked(old, st, n).origin = old.origin
  BY <1>2, <1>3, RecheckedFinding
<1>5. findings \in [Findings -> FindingRecord]
  BY DEF FactTypes
<1>6. findings'[active] = Rechecked(old, st, n)
  BY <1>1
<1>7. findings' \in [Findings -> FindingRecord]
  BY <1>1, <1>4, <1>5
<1>. QED
  BY <1>1, <1>4, <1>6, <1>7 DEF old, n, st

\* A recheck has a finding.
LEMMA RecheckHasFinding ==
    ASSUME TypeOK, Routed, Unreviewed, Reviewed, pc = "answer", route.decision = "ROUTE_SOL_RECHECK"
    PROVE  /\ route = Rechecking /\ active \in Findings /\ UnderRepair(active)
           /\ Reviews = 1
<1>1. route = Rechecking
  BY WorkFields DEF Routed, SolRoutes
<1>2. Reviews \in Nat
  BY DEF TypeOK, Calls, Reviews
<1>. QED
  BY <1>1, <1>2 DEF Unreviewed, Reviewed, Looping

\* Every step keeps the facts well typed.
LEMMA FactStep == TypeOK /\ Routed /\ Unreviewed /\ Reviewed /\ Next => FactTypes'
<1>. SUFFICES ASSUME TypeOK, Routed, Unreviewed, Reviewed, Next PROVE FactTypes'
  OBVIOUS
<1>0. FactTypes
  BY TypeGroups
<1>1. CASE UNCHANGED facts
  BY <1>0, <1>1 DEF FactTypes, facts
<1>2. ASSUME NEW f \in Findings, SendRepair(f) PROVE FactTypes'
  <2>1. findings' \in [Findings -> FindingRecord]
    BY <1>0, <1>2 DEF SendRepair, FactTypes, FindingRecord
  <2>. QED
    BY <1>0, <1>2, <2>1 DEF SendRepair, FactTypes
<1>3. CASE AcceptAttempt
  BY <1>0, <1>3 DEF AcceptAttempt, FactTypes
<1>4. ASSUME NEW recorded \in BOOLEAN, NEW valid \in BOOLEAN, NEW transport \in BOOLEAN,
             NEW code \in {"SEMANTIC", "OTHER"}, RejectAttempt(recorded, valid, transport, code)
      PROVE  FactTypes'
  <2>1. failed' \in [Criteria -> Nat]
    BY <1>0, <1>4, FirstRefAssumption, Counts DEF RejectAttempt, FactTypes, Criteria
  <2>. QED
    BY <1>0, <1>4, <2>1 DEF RejectAttempt, FactTypes
<1>5. CASE Diagnose
  BY <1>0, <1>5 DEF Diagnose, FactTypes
<1>6. CASE PassReview
  BY <1>0, <1>6 DEF PassReview, FactTypes
<1>7. ASSUME NEW fresh \in SUBSET Findings, NEW selected \in Findings, NEW ref \in [Findings -> Refs],
             FailReview(fresh, selected, ref)
      PROVE  FactTypes'
  <2>1. findings' \in [Findings -> FindingRecord]
    <3>1. findings' = [f \in Findings |-> IF f \in fresh THEN Raised(ref[f]) ELSE findings[f]]
      BY <1>7 DEF FailReview, Raised
    <3>. QED
      BY <1>0, <3>1, FreshFinding DEF FactTypes
  <2>2. failed' \in [Criteria -> Nat]
    BY <1>0, <1>7, Counts DEF FailReview, FactTypes, Criteria
  <2>. QED
    BY <1>0, <1>7, <2>1, <2>2 DEF FailReview, FactTypes
<1>8. ASSUME NEW resolved \in BOOLEAN, Recheck(resolved) PROVE FactTypes'
  <2>1. active \in Findings
    BY <1>8, RecheckHasFinding DEF Recheck
  <2>2. findings' \in [Findings -> FindingRecord]
    BY <1>0, <1>8, <2>1, RecheckEffect
  <2>. QED
    BY <1>0, <1>8, <2>1, <2>2 DEF Recheck, FactTypes
<1>. QED
  BY <1>1, <1>2, <1>3, <1>4, <1>5, <1>6, <1>7, <1>8
  DEF Next, Progress, Route, GiveUp, Denied, Dispatch, SendImplement, SendSol, Refuse, Worker, Sol, Ask,
      SolFails, CheckContract, Ending, Close, Record, Catch, Finish, Fails

\* Every step keeps the work well typed.
LEMMA WorkStep == TypeOK /\ Routed /\ Next => WorkTypes'
<1>. SUFFICES ASSUME TypeOK, Routed, Next PROVE WorkTypes'
  OBVIOUS
<1>0. WorkTypes
  BY TypeGroups
<1>1. CASE UNCHANGED work
  BY <1>0, <1>1 DEF WorkTypes, work
<1>2. ASSUME NEW f \in Findings, Dispatch, SendRepair(f) PROVE WorkTypes'
  BY <1>0, <1>2 DEF Dispatch, SendRepair, WorkTypes
<1>3. ASSUME NEW recorded \in BOOLEAN, NEW valid \in BOOLEAN, NEW took \in BOOLEAN,
             LeavePatch(recorded, valid, took)
      PROVE  attempts' \in Nat /\ patch' \in [id : Nat, valid : BOOLEAN, accepted : BOOLEAN]
  BY <1>0, <1>3 DEF LeavePatch, WorkTypes
<1>4. CASE AcceptAttempt
  BY <1>0, <1>3, <1>4 DEF AcceptAttempt, WorkTypes
<1>5. ASSUME NEW recorded \in BOOLEAN, NEW valid \in BOOLEAN, NEW transport \in BOOLEAN,
             NEW code \in {"SEMANTIC", "OTHER"}, RejectAttempt(recorded, valid, transport, code)
      PROVE  WorkTypes'
  BY <1>0, <1>3, <1>5 DEF RejectAttempt, WorkTypes
<1>6. CASE Ask
  <2>1. route.decision \in Calls
    BY <1>6, WorkFields DEF Ask, Routed
  <2>2. asked' \in [Calls -> Nat]
    BY <1>0, <1>6, <2>1, Counts DEF Ask, WorkTypes
  <2>3. patch.id \in Nat
    BY <1>0 DEF WorkTypes
  <2>. QED
    BY <1>0, <1>6, <2>2, <2>3 DEF Ask, WorkTypes
<1>7. CASE Diagnose
  BY <1>0, <1>7 DEF Diagnose, WorkTypes
<1>8. ASSUME NEW fresh \in SUBSET Findings, NEW selected \in Findings, NEW ref \in [Findings -> Refs],
             FailReview(fresh, selected, ref)
      PROVE  WorkTypes'
  BY <1>0, <1>8 DEF FailReview, WorkTypes
<1>9. ASSUME NEW resolved \in BOOLEAN, Recheck(resolved) PROVE WorkTypes'
  BY <1>0, <1>9 DEF Recheck, WorkTypes
<1>10. CASE Dispatch
  <2>1. CASE \E f \in Findings : SendRepair(f)
    BY <1>2, <1>10, <2>1
  <2>2. CASE SendImplement \/ SendSol \/ Refuse
    BY <1>1, <1>10, <2>2 DEF Dispatch, SendImplement, SendSol, Refuse, work
  <2>. QED
    BY <1>10, <2>1, <2>2 DEF Dispatch
<1>. QED
  BY <1>1, <1>4, <1>5, <1>6, <1>7, <1>8, <1>9, <1>10
  DEF Next, Progress, Route, GiveUp, Denied, Worker, Sol, SolFails, CheckContract, PassReview,
      Ending, Close, Record, Catch, Finish, Fails

\* Every step keeps the end well typed.
LEMMA EndStep == TypeOK /\ Next => EndTypes'
<1>. SUFFICES ASSUME TypeOK, Next PROVE EndTypes'
  OBVIOUS
<1>0. EndTypes
  BY TypeGroups
<1>. USE DEF Dispositions
<1>1. CASE UNCHANGED ending
  BY <1>0, <1>1 DEF EndTypes, ending
<1>2. ASSUME NEW e \in {"SOL_ASK_INVALID", "IO"}, Throw(e) PROVE EndTypes'
  BY <1>0, <1>2 DEF Throw, EndTypes
<1>3. ASSUME NEW d \in Dispositions, Settle(d) PROVE EndTypes'
  BY <1>0, <1>3 DEF Settle, EndTypes
<1>4. CASE Route
  <2>1. Verdict \in Dispositions
    BY DEF Verdict, Approvals
  <2>. QED
    BY <1>0, <1>1, <1>4, <2>1, RouteForms DEF EndTypes
<1>5. CASE GiveUp
  BY <1>0, <1>3, <1>5 DEF GiveUp, EndTypes
<1>6. CASE Denied \/ SolFails \/ CheckContract
  BY <1>3, <1>6 DEF Denied, SolFails, CheckContract
<1>7. CASE Dispatch
  BY <1>1, <1>2, <1>7 DEF Dispatch, SendImplement, SendRepair, SendSol, Refuse
<1>8. ASSUME NEW clean \in BOOLEAN, Close(clean) PROVE EndTypes'
  BY <1>0, <1>8 DEF Close, EndTypes
<1>9. CASE Record
  <2>1. Plan(disposition) \in Seq(Records) /\ Len(written) < Len(Plan(disposition))
    BY <1>0, <1>9, PlanType DEF Record, EndTypes
  <2>2. written \in Seq(Records) /\ Len(written) \in Nat
    BY <1>0 DEF EndTypes
  <2>3. Plan(disposition)[Len(written) + 1] \in Records
    BY <2>1, <2>2
  <2>4. written' \in Seq(Records)
    BY <1>9, <2>2, <2>3 DEF Record
  <2>. QED
    BY <1>0, <1>9, <2>4 DEF Record, EndTypes
<1>10. ASSUME NEW saved \in BOOLEAN, Catch(saved) PROVE EndTypes'
  <2>1. written \in Seq(Records) /\ "REJECTED" \in Records
    BY <1>0 DEF EndTypes, Records
  <2>2. written' \in Seq(Records)
    BY <1>10, <2>1 DEF Catch
  <2>. QED
    BY <1>0, <1>10, <2>2 DEF Catch, EndTypes
<1>11. ASSUME NEW outcome \in {"COMPLETED", "INCOMPLETE_LEDGER"}, Finish(outcome) PROVE EndTypes'
  BY <1>0, <1>11 DEF Finish, EndTypes
<1>12. CASE Fails
  BY <1>2, <1>12 DEF Fails
<1>. QED
  BY <1>1, <1>4, <1>5, <1>6, <1>7, <1>8, <1>9, <1>10, <1>11, <1>12
  DEF Next, Progress, Worker, AcceptAttempt, RejectAttempt, Sol, Ask, Diagnose, PassReview, FailReview,
      Recheck, Ending

\* Every step keeps the place well typed.
LEMMA PlaceStep == TypeOK /\ Next => PlaceTypes'
<1>. SUFFICES ASSUME TypeOK, Next PROVE PlaceTypes'
  OBVIOUS
<1>0. PlaceTypes
  BY TypeGroups
<1>1. CASE Route
  <2>1. route' \in RouteRecord
    BY <1>1, RouteForms, PolicyType, ContextFields
  <2>2. state' \in States
    BY <1>0, <1>1, RouteForms, WorkFields DEF PlaceTypes
  <2>3. step' \in 0 .. MaxSteps
    BY <1>0, <1>1, LimitsAssumption DEF Route, PlaceTypes
  <2>. QED
    BY <1>0, <1>1, <2>1, <2>2, <2>3, RouteForms DEF PlaceTypes
<1>2. CASE Dispatch
  BY <1>0, <1>2 DEF Dispatch, SendImplement, SendRepair, SendSol, Refuse, Throw, setup, PlaceTypes
<1>3. CASE Worker
  BY <1>0, <1>3 DEF Worker, AcceptAttempt, RejectAttempt, setup, PlaceTypes
<1>4. CASE Sol
  BY <1>0, <1>4 DEF Sol, Ask, SolFails, Diagnose, CheckContract, PassReview, FailReview, Recheck,
                    Settle, setup, PlaceTypes
<1>5. CASE Ending \/ Fails \/ GiveUp \/ Denied
  BY <1>0, <1>5 DEF Ending, Close, Record, Catch, Finish, Fails, GiveUp, Denied, Throw, Settle, setup, PlaceTypes
<1>. QED
  BY <1>1, <1>2, <1>3, <1>4, <1>5 DEF Next, Progress
-----------------------------------------------------------------------------
(* The loop. *)

\* The risk of the contract, as the policy reads it.
LEMMA RiskRead == contract \in Contracts => (ReviewRequired(Context) <=> contract = "REVIEW_REQUIRED")
BY ContractsAssumption, ContextFields DEF ReviewRequired

\* A due recheck is that of the active finding.
LEMMA DueIsActive ==
    ASSUME FactTypes, FindingsOK, RecheckDue(Context)
    PROVE  active \in Findings /\ UnderRepair(active)
<1>1. PICK f \in Findings : /\ Repaired(Context, f) /\ findings[f].rechecks = 0
                            /\ active \in Findings /\ findings[active].status # "NONE" => f = active
  BY ContextFields DEF RecheckDue
<1>2. UnderRepair(f)
  BY <1>1, ContextFields DEF Repaired, UnderRepair
<1>. QED
  BY <1>2 DEF FindingsOK

\* The recheck of a finding under repair is due.
LEMMA UnderRepairIsDue ==
    ASSUME active \in Findings, UnderRepair(active)
    PROVE  RecheckDue(Context)
<1>1. Repaired(Context, active) /\ findings[active].rechecks = 0 /\ findings[active].status # "NONE"
  BY ContextFields DEF Repaired, UnderRepair
<1>. QED
  BY <1>1, ContextFields DEF RecheckDue

\* When nothing is due and nothing stuck, no open finding has been repaired.
LEMMA NothingDue ==
    ASSUME FactTypes, FindingsOK, ~RecheckDue(Context), ~Stuck(Context)
    PROVE  \A f \in OpenFindings : findings[f].cycles = 0
<1>. SUFFICES ASSUME NEW f \in OpenFindings, findings[f].cycles # 0
              PROVE  FALSE
  OBVIOUS
<1>1. f \in Findings /\ findings[f] \in FindingRecord /\ findings[f].status = "OPEN"
  BY DEF OpenFindings, FactTypes
<1>2. findings[f].cycles >= 1 /\ findings[f].rechecks \in Nat
  BY <1>1 DEF FindingRecord
<1>3. Repaired(Context, f)
  BY <1>1, <1>2, ContextFields DEF Repaired
<1>4. findings[f].rechecks = 0
  BY <1>1, <1>2, <1>3, ContextFields DEF Stuck
<1>5. UnderRepair(f)
  BY <1>1, <1>2, <1>4 DEF UnderRepair
<1>. QED
  BY <1>1, <1>5, UnderRepairIsDue DEF FindingsOK

\* A review whose findings are on record has its provenance.
LEMMA ResolvedHasProvenance ==
    ASSUME FactTypes, FindingsOK, ResolvedRecheck
    PROVE  Provenance(Context)
<1>1. review.ids \subseteq Findings
  BY DEF FactTypes
<1>. QED
  BY <1>1, ContextFields DEF ResolvedRecheck, Provenance, FindingsOK

\* A step that leaves the loop, or stays out of it, keeps what the turns kept.
LEMMA LoopLeft ==
    ASSUME LoopInv, pc' \notin Looping, UNCHANGED <<contract, facts, work>>
    PROVE  LoopInv'
<1>. USE DEF Looping, facts, work, Reviews
<1>1. Routed' /\ CheckedFirst' /\ RepairsAreFirst'
  BY DEF Routed, CheckedFirst, RepairsAreFirst
<1>2. FindingsOK'
  BY DEF LoopInv, FindingsOK, UnderRepair
<1>3. Unreviewed' /\ AcceptedHasPatch'
  BY DEF LoopInv, Unreviewed, AcceptedHasPatch
<1>4. Reviewed'
  BY DEF LoopInv, Reviewed
<1>5. Diagnosed' /\ RechecksArePaid'
  BY DEF LoopInv, Diagnosed, RechecksArePaid
<1>. QED
  BY <1>1, <1>2, <1>3, <1>4, <1>5 DEF LoopInv

\* The kinds of work are different decisions.
LEMMA WorkDiffers ==
    /\ Implementation # Repairing /\ Implementation \notin SolRoutes /\ Repairing \notin SolRoutes
    /\ ContractCheck \notin {Diagnosis, FinalReview, Rechecking}
    /\ Diagnosis \notin {FinalReview, Rechecking} /\ FinalReview # Rechecking
BY DEF Implementation, Repairing, SolRoutes, ContractCheck, Diagnosis, FinalReview, Rechecking, Decision

\* Before a decision to work, the facts it needs are there.
LEMMA RouteKeeps ==
    ASSUME TypeOK, LoopInv, Route, pc' = "dispatch"
    PROVE  LoopInv'
<1>0. FactTypes /\ contract \in Contracts /\ Reviews \in Nat
  BY TypeGroups DEF TypeOK, Reviews, Calls
<1>1. /\ pc = "route" /\ UNCHANGED <<contract, facts, work>> /\ state' = route'.next
      /\ route' \in WorkerRoutes \cup SolRoutes /\ Orders(Context, route')
  BY RouteForms
<1>. DEFINE r == route'
<1>2. Routed'
  BY <1>1 DEF Routed
<1>3. CheckedFirst'
  BY <1>0, <1>1, RiskRead, WorkDiffers DEF CheckedFirst, Orders, SolRoutes
<1>4. FindingsOK'
  BY <1>1 DEF LoopInv, FindingsOK, UnderRepair, facts
<1>5. Unreviewed'
  <2>1. Reviews = 0 => r # Rechecking
    <3>1. r = Rechecking => RecheckDue(Context)
      BY <1>1, WorkDiffers DEF Orders, SolRoutes
    <3>. QED
      BY <1>0, <3>1, DueIsActive DEF LoopInv, Unreviewed, UnderRepair
  <2>2. r = FinalReview => contract = "HIGH_RISK"
    BY <1>1, WorkDiffers, ContextFields DEF Orders, SolRoutes
  <2>. QED
    BY <1>1, <2>1, <2>2 DEF LoopInv, Unreviewed, facts, work, Reviews
<1>6. AcceptedHasPatch'
  <2>1. r = FinalReview => accepted \/ state = "AWAITING_SOL_RECHECK"
    BY <1>1, WorkDiffers, ContextFields DEF Orders, SolRoutes
  <2>2. state = "AWAITING_SOL_RECHECK" => Reviews >= 1
    BY <1>0, <1>1 DEF LoopInv, Unreviewed, ReviewStates
  <2>. QED
    BY <1>1, <2>1, <2>2 DEF LoopInv, AcceptedHasPatch, facts, work, Reviews
<1>7. Reviewed'
  <2>. SUFFICES ASSUME Reviews >= 1 PROVE Reviewed'
    BY <1>1 DEF Reviewed, Reviews, work
  <2>1. /\ Reviews = 1 /\ contract = "HIGH_RISK"
        /\ PassedReview \/ FailedReview \/ AfterRepair \/ ResolvedRecheck \/ FailedRecheck
    BY <1>1 DEF LoopInv, Reviewed
  <2>2. /\ AfterRepair => RecheckDue(Context)
        /\ ResolvedRecheck => Provenance(Context)
        /\ FailedRecheck => Stuck(Context) /\ Open(Context) # {}
    <3>1. FailedRecheck => Repaired(Context, active)
      BY ContextFields DEF FailedRecheck, Repaired, OpenFindings
    <3>. QED
      BY <1>0, <3>1, UnderRepairIsDue, ResolvedHasProvenance, ContextFields
      DEF LoopInv, AfterRepair, FailedRecheck, Stuck, OpenFindings
  <2>3. ~ReviewRequired(Context)
    BY <1>0, <2>1, RiskRead
  <2>4. \/ /\ r = Rechecking /\ RecheckDue(Context)
        \/ r = Repairing /\ FailedReview
        \/ r = Repairing /\ ResolvedRecheck /\ OpenFindings # {}
    BY <1>1, <2>1, <2>2, <2>3, ContextFields
    DEF Orders, PassedReview, FailedReview, AfterRepair, ResolvedRecheck, FailedRecheck, Working
  <2>5. r = Rechecking => active \in Findings /\ UnderRepair(active)
    BY <1>0, <2>4, DueIsActive, WorkDiffers DEF LoopInv, SolRoutes
  <2>6. r = Repairing => IF active = NoFinding THEN OpenFindings # {} ELSE active \in OpenFindings /\ bound
    BY <2>4, WorkDiffers, NoFindingAssumption DEF FailedReview, ResolvedRecheck, OpenFindings, SolRoutes
  <2>. QED
    BY <1>1, <2>1, <2>4, <2>5, <2>6 DEF Reviewed, Reviews, facts, work, UnderRepair, OpenFindings
<1>8. RepairsAreFirst'
  <2>1. r = Repairing => ~RecheckDue(Context) /\ ~Stuck(Context)
    BY <1>1, WorkDiffers DEF Orders, SolRoutes
  <2>. QED
    BY <1>0, <1>1, <2>1, NothingDue DEF LoopInv, RepairsAreFirst, facts, OpenFindings
<1>9. Diagnosed'
  <2>1. r = Diagnosis => rejection = "SEMANTIC" /\ ~Stuck(Context)
    BY <1>1, WorkDiffers, ContextFields DEF Orders, SolRoutes
  <2>2. ~Stuck(Context) => ~(failed[FirstRef] >= 2)
    BY FirstRefAssumption, ContextFields DEF Stuck, Criteria
  <2>3. asked["ROUTE_SOL_DIAGNOSE"] \in Nat
    BY DEF TypeOK, Calls
  <2>. QED
    BY <1>1, <2>1, <2>2, <2>3 DEF LoopInv, Diagnosed, facts, work, Looping
<1>10. RechecksArePaid'
  BY <1>1 DEF LoopInv, RechecksArePaid, facts, work, Looping, UnderRepair
<1>. QED
  BY <1>2, <1>3, <1>4, <1>5, <1>6, <1>7, <1>8, <1>9, <1>10 DEF LoopInv

\* A sent implementation or SOL call is the one that was ordered.
LEMMA SendKeeps ==
    ASSUME TypeOK, LoopInv, Dispatch, SendImplement \/ SendSol
    PROVE  LoopInv'
<1>1. /\ pc = "dispatch" /\ UNCHANGED <<contract, state, route, facts, work>>
      /\ \/ pc' = "worker" /\ route.role = "IMPLEMENT"
         \/ pc' = "sol" /\ route.role = "SOL"
  BY DEF Dispatch, SendImplement, SendSol, setup, work
<1>2. \/ pc' = "worker" /\ route = Implementation
      \/ pc' = "sol" /\ route \in SolRoutes
  <2>1. route \in WorkerRoutes \cup SolRoutes
    BY <1>1 DEF LoopInv, Routed
  <2>2. route = Implementation \/ route = Repairing \/ route \in SolRoutes
    BY <2>1 DEF WorkerRoutes
  <2>3. /\ route = Implementation => route.role = "IMPLEMENT"
        /\ route = Repairing => route.role = "REPAIR"
        /\ route \in SolRoutes => route.role = "SOL"
    BY WorkFields
  <2>. QED
    BY <1>1, <2>2, <2>3
<1>3. Routed'
  BY <1>1, <1>2 DEF LoopInv, Routed, WorkerRoutes
<1>4. CheckedFirst' /\ RepairsAreFirst'
  BY <1>1, <1>2 DEF LoopInv, CheckedFirst, RepairsAreFirst
<1>5. FindingsOK'
  BY <1>1 DEF LoopInv, FindingsOK, UnderRepair, facts
<1>6. Unreviewed' /\ AcceptedHasPatch'
  BY <1>1, <1>2 DEF LoopInv, Unreviewed, AcceptedHasPatch, Looping, facts, work, Reviews
<1>7. Reviewed'
  BY <1>1, <1>2, WorkDiffers DEF LoopInv, Reviewed, facts, work, Reviews, UnderRepair, SolRoutes
<1>8. Diagnosed' /\ RechecksArePaid'
  BY <1>1, <1>2 DEF LoopInv, Diagnosed, RechecksArePaid, Looping, facts, work, UnderRepair
<1>. QED
  BY <1>3, <1>4, <1>5, <1>6, <1>7, <1>8 DEF LoopInv

\* What a repair does to the findings.
LEMMA RepairEffect ==
    ASSUME FactTypes, NEW f \in Findings, SendRepair(f)
    PROVE  /\ findings' \in [Findings -> FindingRecord]
           /\ \A g \in Findings : g # f => findings'[g] = findings[g]
           /\ findings'[f].cycles = findings[f].cycles + 1
           /\ findings'[f].rechecks = findings[f].rechecks
           /\ findings'[f].origin = findings[f].origin
           /\ findings'[f].status = "OPEN" /\ findings[f].status = "OPEN"
BY DEF SendRepair, FactTypes, FindingRecord

\* A repair is sent after the final review, for a finding never repaired.
LEMMA RepairIsFirst ==
    ASSUME TypeOK, LoopInv, Dispatch, NEW f \in Findings, SendRepair(f)
    PROVE  /\ pc = "dispatch" /\ route = Repairing /\ Reviews = 1
           /\ findings[f].cycles = 0 /\ findings[f].rechecks = 0
           /\ \A g \in Findings : ~UnderRepair(g)
           /\ active # NoFinding => f = active
<1>0. FactTypes /\ Reviews \in Nat
  BY TypeGroups DEF TypeOK, Reviews, Calls
<1>1. pc = "dispatch" /\ route.role = "REPAIR" /\ findings[f].status = "OPEN"
      /\ (active # NoFinding => f = active)
  BY DEF Dispatch, SendRepair
<1>2. route = Repairing
  BY <1>1, WorkFields DEF LoopInv, Routed, WorkerRoutes
<1>3. Reviews = 1
  BY <1>0, <1>1 DEF LoopInv, Unreviewed, Reviewed
<1>4. \A g \in Findings : findings[g].status = "OPEN" => findings[g].cycles = 0
  BY <1>1, <1>2 DEF LoopInv, RepairsAreFirst, OpenFindings
<1>5. findings[f].rechecks = 0
  BY <1>0, <1>1, <1>4 DEF LoopInv, FindingsOK, FactTypes, FindingRecord
<1>. QED
  BY <1>1, <1>2, <1>3, <1>4, <1>5 DEF UnderRepair

\* A repair puts its finding under repair, and no other.
LEMMA RepairKeeps ==
    ASSUME TypeOK, LoopInv, Dispatch, NEW f \in Findings, SendRepair(f)
    PROVE  LoopInv'
<1>0. FactTypes /\ WorkTypes
  BY TypeGroups
<1>1. /\ pc = "dispatch" /\ pc' = "worker" /\ route = Repairing /\ Reviews = 1
      /\ UNCHANGED <<contract, state, route, accepted, rejection, failed, review, attempts, patch,
                     asked, ask>>
      /\ active' = f /\ repairs' = repairs + 1
  BY RepairIsFirst DEF Dispatch, SendRepair, setup
<1>2. /\ findings'[f].cycles = 1 /\ findings'[f].rechecks = 0
      /\ findings'[f].status = "OPEN" /\ findings'[f].origin = findings[f].origin
      /\ findings[f].status = "OPEN"
      /\ \A g \in Findings : g # f => findings'[g] = findings[g]
  BY <1>0, RepairEffect, RepairIsFirst
<1>3. \A g \in Findings : UnderRepair(g)' <=> g = f
  BY <1>2, RepairIsFirst DEF UnderRepair
<1>4. Routed'
  BY <1>1 DEF LoopInv, Routed, WorkerRoutes
<1>5. CheckedFirst' /\ RepairsAreFirst'
  BY <1>1 DEF LoopInv, CheckedFirst, RepairsAreFirst
<1>6. FindingsOK'
  BY <1>1, <1>2, <1>3 DEF LoopInv, FindingsOK
<1>7. Unreviewed' /\ AcceptedHasPatch'
  BY <1>1 DEF LoopInv, Unreviewed, AcceptedHasPatch, Reviews
<1>8. Reviewed'
  BY <1>1, <1>3 DEF LoopInv, Reviewed, Reviews
<1>9. Diagnosed'
  BY <1>1 DEF LoopInv, Diagnosed, Looping
<1>10. RechecksArePaid'
  <2>1. asked["ROUTE_SOL_RECHECK"] \in Nat /\ repairs \in Nat
    BY <1>0 DEF WorkTypes, Calls
  <2>. QED
    BY <1>1, <2>1 DEF LoopInv, RechecksArePaid
<1>. QED
  BY <1>4, <1>5, <1>6, <1>7, <1>8, <1>9, <1>10 DEF LoopInv

\* An accepted attempt leaves a patch to review.
LEMMA AcceptKeeps == ASSUME TypeOK, LoopInv, AcceptAttempt PROVE LoopInv'
<1>0. WorkTypes
  BY TypeGroups
<1>1. /\ pc = "worker" /\ pc' = "route" /\ accepted' /\ rejection' = "NONE"
      /\ UNCHANGED <<contract, state, route, failed, review, findings, active, repairs, bound, asked, ask>>
      /\ patch'.id # 0
  BY <1>0 DEF AcceptAttempt, LeavePatch, setup, WorkTypes
<1>2. state \notin ReviewStates /\ route \in WorkerRoutes /\ state = route.next
  BY <1>1, WorkFields DEF LoopInv, Routed, WorkerRoutes, ReviewStates
<1>3. Routed' /\ CheckedFirst' /\ RepairsAreFirst'
  BY <1>1 DEF Routed, CheckedFirst, RepairsAreFirst
<1>4. FindingsOK'
  BY <1>1 DEF LoopInv, FindingsOK, UnderRepair
<1>5. Unreviewed' /\ AcceptedHasPatch'
  BY <1>1, <1>2 DEF LoopInv, Unreviewed, AcceptedHasPatch, Reviews
<1>6. Reviewed'
  <2>1. Reviews >= 1 => AfterRepair'
    BY <1>1, <1>2, WorkFields, WorkDiffers DEF LoopInv, Reviewed, AfterRepair, UnderRepair, SolRoutes, WorkerRoutes
  <2>. QED
    BY <1>1, <1>2, <2>1 DEF LoopInv, Reviewed, Reviews
<1>7. Diagnosed' /\ RechecksArePaid'
  BY <1>1 DEF LoopInv, Diagnosed, RechecksArePaid, Looping, UnderRepair
<1>. QED
  BY <1>3, <1>4, <1>5, <1>6, <1>7 DEF LoopInv

\* A rejected attempt is a failure of the first criterion.
LEMMA RejectKeeps ==
    ASSUME TypeOK, LoopInv, NEW recorded \in BOOLEAN, NEW valid \in BOOLEAN, NEW transport \in BOOLEAN,
           NEW code \in {"SEMANTIC", "OTHER"}, RejectAttempt(recorded, valid, transport, code)
    PROVE  LoopInv'
<1>0. WorkTypes /\ FactTypes
  BY TypeGroups
<1>1. /\ pc = "worker" /\ pc' = "route" /\ ~accepted'
      /\ UNCHANGED <<contract, state, route, review, findings, active, repairs, bound, asked, ask>>
      /\ patch.id # 0 => patch'.id # 0
  BY <1>0 DEF RejectAttempt, LeavePatch, setup, WorkTypes
<1>2. state \notin ReviewStates /\ route \in WorkerRoutes /\ state = route.next
  BY <1>1, WorkFields DEF LoopInv, Routed, WorkerRoutes, ReviewStates
<1>3. Routed' /\ CheckedFirst' /\ RepairsAreFirst'
  BY <1>1 DEF Routed, CheckedFirst, RepairsAreFirst
<1>4. FindingsOK'
  BY <1>1 DEF LoopInv, FindingsOK, UnderRepair
<1>5. Unreviewed' /\ AcceptedHasPatch'
  BY <1>1, <1>2 DEF LoopInv, Unreviewed, AcceptedHasPatch, Reviews
<1>6. Reviewed'
  <2>1. Reviews >= 1 => AfterRepair'
    BY <1>1, <1>2, WorkFields, WorkDiffers DEF LoopInv, Reviewed, AfterRepair, UnderRepair, SolRoutes, WorkerRoutes
  <2>. QED
    BY <1>1, <1>2, <2>1 DEF LoopInv, Reviewed, Reviews
<1>7. Diagnosed'
  <2>1. failed[FirstRef] \in Nat /\ failed'[FirstRef] = failed[FirstRef] + 1
    BY <1>0, FirstRefAssumption, Counts DEF RejectAttempt, FactTypes, Criteria
  <2>. QED
    BY <1>1, <2>1 DEF LoopInv, Diagnosed
<1>8. RechecksArePaid'
  BY <1>1 DEF LoopInv, RechecksArePaid, Looping, UnderRepair
<1>. QED
  BY <1>3, <1>4, <1>5, <1>6, <1>7, <1>8 DEF LoopInv

\* An ask is counted once for its kind, and is about the patch on record.
LEMMA AskKeeps == ASSUME TypeOK, LoopInv, Ask PROVE LoopInv'
<1>0. WorkTypes /\ Reviews \in Nat
  BY TypeGroups DEF TypeOK, Reviews, Calls
<1>1. /\ pc = "sol" /\ pc' = "answer" /\ ask' = patch.id
      /\ UNCHANGED <<contract, state, route, facts, repairs, bound, patch>>
  BY DEF Ask, setup
<1>2. route \in SolRoutes /\ route.decision \in Calls
  BY <1>1, WorkFields DEF LoopInv, Routed
<1>3. /\ asked'[route.decision] = asked[route.decision] + 1
      /\ \A c \in Calls \ {route.decision} : asked'[c] = asked[c]
      /\ \A c \in Calls : asked[c] \in Nat
  BY <1>0, <1>2, Counts DEF Ask, WorkTypes
<1>4. /\ route = Diagnosis => asked'["ROUTE_SOL_DIAGNOSE"] = asked["ROUTE_SOL_DIAGNOSE"] + 1
      /\ route # Diagnosis => asked'["ROUTE_SOL_DIAGNOSE"] = asked["ROUTE_SOL_DIAGNOSE"]
      /\ route = Rechecking => asked'["ROUTE_SOL_RECHECK"] = asked["ROUTE_SOL_RECHECK"] + 1
      /\ route # Rechecking => asked'["ROUTE_SOL_RECHECK"] = asked["ROUTE_SOL_RECHECK"]
      /\ route = FinalReview => Reviews' = Reviews + 1
      /\ route # FinalReview => Reviews' = Reviews
      /\ asked["ROUTE_SOL_DIAGNOSE"] \in Nat /\ asked["ROUTE_SOL_RECHECK"] \in Nat
  BY <1>2, <1>3, WorkFields DEF SolRoutes, Calls, Reviews
<1>5. \/ route = FinalReview
      \/ Reviews >= 1 /\ route = Rechecking
      \/ Reviews = 0 /\ route # Rechecking
  BY <1>0, <1>1 DEF LoopInv, Unreviewed, Reviewed, Looping
<1>6. route = FinalReview => Reviews = 0
  BY <1>0, <1>1, WorkDiffers DEF LoopInv, Reviewed
<1>7. Routed'
  BY <1>1, <1>2, <1>3 DEF LoopInv, Routed
<1>8. CheckedFirst' /\ RepairsAreFirst'
  BY <1>1 DEF LoopInv, CheckedFirst, RepairsAreFirst
<1>9. FindingsOK'
  BY <1>1 DEF LoopInv, FindingsOK, UnderRepair, facts
<1>10. Unreviewed' /\ AcceptedHasPatch'
  BY <1>0, <1>1, <1>4, <1>5, <1>6 DEF LoopInv, Unreviewed, AcceptedHasPatch, Looping, facts
<1>11. Reviewed'
  BY <1>0, <1>1, <1>4, <1>5, <1>6, WorkDiffers
  DEF LoopInv, Reviewed, Unreviewed, facts, UnderRepair
<1>12. Diagnosed'
  <2>1. failed[FirstRef] >= 1 \/ rejection = "NONE"
    BY DEF LoopInv, Diagnosed
  <2>. QED
    BY <1>1, <1>4, <2>1 DEF LoopInv, Diagnosed, Looping, facts
<1>13. RechecksArePaid'
  <2>1. route = Rechecking => asked["ROUTE_SOL_RECHECK"] < repairs
    BY <1>0, <1>1, <1>5, <1>6, WorkDiffers DEF LoopInv, Reviewed, RechecksArePaid, Looping
  <2>2. repairs \in Nat
    BY <1>0 DEF WorkTypes
  <2>. QED
    BY <1>1, <1>4, <2>1, <2>2 DEF LoopInv, RechecksArePaid, Looping, facts, UnderRepair
<1>. QED
  BY <1>7, <1>8, <1>9, <1>10, <1>11, <1>12, <1>13 DEF LoopInv

\* An answered ask was for the call that was ordered.
LEMMA AnswerIs ==
    ASSUME TypeOK, LoopInv, pc = "answer", NEW r \in SolRoutes, route.decision = r.decision
    PROVE  route = r /\ asked[r.decision] >= 1
BY WorkFields DEF LoopInv, Routed, SolRoutes

\* A diagnosis comes before any review.
LEMMA DiagnoseKeeps == ASSUME TypeOK, LoopInv, Diagnose PROVE LoopInv'
<1>1. /\ pc = "answer" /\ pc' = "route" /\ ~accepted' /\ rejection' = "NONE"
      /\ UNCHANGED <<contract, state, route, failed, review, findings, active, repairs, patch, asked, ask>>
  BY DEF Diagnose, setup
<1>2. route = Diagnosis /\ state = "AWAITING_SOL_DIAGNOSE"
  BY <1>1, AnswerIs, WorkFields DEF Diagnose, SolRoutes, LoopInv, Routed
<1>3. ~(Reviews >= 1)
  BY <1>1, <1>2, WorkDiffers DEF LoopInv, Reviewed
<1>4. Routed' /\ CheckedFirst' /\ RepairsAreFirst'
  BY <1>1 DEF Routed, CheckedFirst, RepairsAreFirst
<1>5. FindingsOK'
  BY <1>1 DEF LoopInv, FindingsOK, UnderRepair
<1>6. Unreviewed' /\ AcceptedHasPatch' /\ Reviewed'
  BY <1>1, <1>2, <1>3 DEF LoopInv, Unreviewed, AcceptedHasPatch, Reviewed, Reviews, ReviewStates
<1>7. Diagnosed' /\ RechecksArePaid'
  BY <1>1, <1>2, WorkDiffers DEF LoopInv, Diagnosed, RechecksArePaid, Looping, UnderRepair
<1>. QED
  BY <1>4, <1>5, <1>6, <1>7 DEF LoopInv

\* What holds while the answer of the final review is awaited.
LEMMA ReviewAnswer ==
    ASSUME TypeOK, LoopInv, pc = "answer", route.decision = "ROUTE_SOL_FINAL_REVIEW"
    PROVE  /\ route = FinalReview /\ state = "AWAITING_SOL_FINAL_REVIEW"
           /\ Reviews = 1 /\ ask = patch.id
           /\ \A f \in Findings : findings[f].status = "NONE"
<1>1. route = FinalReview /\ Reviews >= 1
  BY AnswerIs, WorkFields DEF SolRoutes, Reviews
<1>. QED
  BY <1>1, WorkFields DEF LoopInv, Routed, Reviewed

\* A passed review accepts the patch it was asked about.
LEMMA PassKeeps == ASSUME TypeOK, LoopInv, PassReview PROVE LoopInv'
<1>1. /\ pc = "answer" /\ pc' = "route" /\ accepted' /\ review'.verdict = "PASSED"
      /\ UNCHANGED <<contract, state, route, rejection, failed, findings, active, work>>
  BY DEF PassReview, setup
<1>2. /\ state = "AWAITING_SOL_FINAL_REVIEW" /\ Reviews = 1 /\ ask = patch.id
      /\ \A f \in Findings : findings[f].status = "NONE"
  BY ReviewAnswer DEF PassReview
<1>3. Routed' /\ CheckedFirst' /\ RepairsAreFirst'
  BY <1>1 DEF Routed, CheckedFirst, RepairsAreFirst
<1>4. FindingsOK'
  BY <1>1 DEF LoopInv, FindingsOK, UnderRepair
<1>5. Unreviewed' /\ AcceptedHasPatch'
  BY <1>1, <1>2 DEF LoopInv, Unreviewed, AcceptedHasPatch, Reviews, work
<1>6. Reviewed'
  <2>1. PassedReview'
    BY <1>1, <1>2 DEF PassedReview
  <2>. QED
    BY <1>1, <1>2, <2>1 DEF LoopInv, Reviewed, Reviews, work
<1>7. Diagnosed'
  <2>1. asked["ROUTE_SOL_DIAGNOSE"] = 1 /\ rejection = "SEMANTIC" => failed[FirstRef] >= 2
    BY <1>1, ReviewAnswer, WorkDiffers DEF PassReview, LoopInv, Diagnosed, Looping
  <2>. QED
    BY <1>1, <2>1 DEF LoopInv, Diagnosed, work
<1>8. RechecksArePaid'
  BY <1>1, <1>2 DEF LoopInv, RechecksArePaid, UnderRepair, work
<1>. QED
  BY <1>3, <1>4, <1>5, <1>6, <1>7, <1>8 DEF LoopInv

\* A failed review opens its findings and binds one of them.
LEMMA FailKeeps ==
    ASSUME TypeOK, LoopInv, NEW fresh \in SUBSET Findings, NEW selected \in Findings,
           NEW ref \in [Findings -> Refs], FailReview(fresh, selected, ref)
    PROVE  LoopInv'
<1>0. FactTypes
  BY TypeGroups
<1>1. /\ pc = "answer" /\ pc' = "route" /\ ~accepted' /\ review'.verdict = "FINDING"
      /\ active' = selected /\ selected \in fresh /\ bound'
      /\ UNCHANGED <<contract, state, route, rejection, repairs, attempts, patch, asked, ask>>
  BY DEF FailReview, setup
<1>2. /\ state = "AWAITING_SOL_FINAL_REVIEW" /\ Reviews = 1 /\ ask = patch.id /\ route = FinalReview
      /\ \A f \in Findings : findings[f].status = "NONE"
  BY ReviewAnswer DEF FailReview
<1>3. \A f \in Findings : \/ /\ f \in fresh
                             /\ findings'[f].status = "OPEN" /\ findings'[f].origin = "FINAL_REVIEW"
                             /\ findings'[f].cycles = 0 /\ findings'[f].rechecks = 0
                          \/ f \notin fresh /\ findings'[f] = findings[f]
  <2>1. findings' = [f \in Findings |-> IF f \in fresh THEN Raised(ref[f]) ELSE findings[f]]
    BY DEF FailReview, Raised
  <2>. QED
    BY <2>1, FreshFinding
<1>4. \A f \in Findings : ~UnderRepair(f)'
  BY <1>2, <1>3 DEF UnderRepair
<1>5. Routed' /\ CheckedFirst' /\ RepairsAreFirst'
  BY <1>1 DEF Routed, CheckedFirst, RepairsAreFirst
<1>6. FindingsOK'
  BY <1>2, <1>3, <1>4 DEF LoopInv, FindingsOK
<1>7. Unreviewed' /\ AcceptedHasPatch'
  BY <1>1, <1>2 DEF LoopInv, Unreviewed, AcceptedHasPatch, Reviews
<1>8. Reviewed'
  <2>1. FailedReview'
    BY <1>1, <1>2, <1>3 DEF FailedReview, OpenFindings
  <2>. QED
    BY <1>1, <1>2, <2>1 DEF LoopInv, Reviewed, Reviews
<1>9. Diagnosed'
  <2>1. failed[FirstRef] \in Nat /\ failed'[FirstRef] >= failed[FirstRef] /\ failed'[FirstRef] \in Nat
    <3>1. failed \in [Criteria -> Nat] /\ NoRef \in Criteria /\ FirstRef \in Criteria
      BY <1>0, FirstRefAssumption DEF FactTypes, Criteria
    <3>2. failed' = [failed EXCEPT ![NoRef] = @ + 1]
      BY DEF FailReview
    <3>. QED
      BY <3>1, <3>2
  <2>2. asked["ROUTE_SOL_DIAGNOSE"] = 1 /\ rejection = "SEMANTIC" => failed[FirstRef] >= 2
    BY <1>1, <1>2, WorkDiffers DEF LoopInv, Diagnosed, Looping
  <2>. QED
    BY <1>1, <2>1, <2>2 DEF LoopInv, Diagnosed
<1>10. RechecksArePaid'
  BY <1>1, <1>4 DEF LoopInv, RechecksArePaid
<1>. QED
  BY <1>5, <1>6, <1>7, <1>8, <1>9, <1>10 DEF LoopInv

\* A recheck ends the repair of the active finding, one way or the other.
LEMMA RecheckKeeps ==
    ASSUME TypeOK, LoopInv, NEW resolved \in BOOLEAN, Recheck(resolved)
    PROVE  LoopInv'
<1>0. FactTypes /\ route = Rechecking /\ active \in Findings /\ UnderRepair(active) /\ Reviews = 1
  BY TypeGroups, RecheckHasFinding DEF Recheck, LoopInv
<1>1. /\ pc = "answer" /\ pc' = "route" /\ accepted' = resolved
      /\ review' = [verdict |-> IF resolved THEN "PASSED" ELSE "FINDING", ids |-> {active}]
      /\ active' = IF resolved THEN NoFinding ELSE active
      /\ UNCHANGED <<contract, state, route, rejection, failed, repairs, attempts, patch, asked, ask>>
  BY DEF Recheck, setup
<1>2. /\ \A f \in Findings : f # active => findings'[f] = findings[f]
      /\ findings'[active].rechecks = 1 /\ findings'[active].cycles = 1
      /\ findings'[active].origin = findings[active].origin
      /\ findings'[active].status = IF resolved THEN "CLOSED" ELSE "OPEN"
  <2>1. findings[active].rechecks = 0 /\ findings[active].cycles = 1 /\ findings[active].status = "OPEN"
    <3>1. findings[active].cycles \in Nat
      BY <1>0 DEF FactTypes, FindingRecord
    <3>. QED
      BY <1>0, <3>1 DEF LoopInv, FindingsOK, UnderRepair
  <2>. QED
    BY <1>0, <2>1, RecheckEffect
<1>3. \A f \in Findings : ~UnderRepair(f)'
  BY <1>2 DEF UnderRepair, LoopInv, FindingsOK
<1>4. state = "AWAITING_SOL_RECHECK" /\ ask = patch.id
  BY <1>0, <1>1, WorkFields DEF LoopInv, Routed, Reviewed
<1>5. Routed' /\ CheckedFirst' /\ RepairsAreFirst'
  BY <1>1 DEF Routed, CheckedFirst, RepairsAreFirst
<1>6. FindingsOK'
  <2>1. findings[active].status = "OPEN"
    BY <1>0 DEF UnderRepair
  <2>. QED
    BY <1>0, <1>2, <1>3, <2>1 DEF LoopInv, FindingsOK
<1>7. Unreviewed' /\ AcceptedHasPatch'
  BY <1>0, <1>1 DEF LoopInv, Unreviewed, AcceptedHasPatch, Reviews
<1>8. Reviewed'
  <2>1. resolved => ResolvedRecheck'
    BY <1>0, <1>1, <1>2, <1>4 DEF ResolvedRecheck
  <2>2. ~resolved => FailedRecheck'
    BY <1>0, <1>1, <1>2, <1>4 DEF FailedRecheck, OpenFindings
  <2>. QED
    BY <1>0, <1>1, <1>4, <2>1, <2>2 DEF LoopInv, Reviewed, Reviews
<1>9. Diagnosed'
  BY <1>0, <1>1, WorkDiffers DEF LoopInv, Diagnosed, Looping
<1>10. RechecksArePaid'
  BY <1>1, <1>3 DEF LoopInv, RechecksArePaid
<1>. QED
  BY <1>5, <1>6, <1>7, <1>8, <1>9, <1>10 DEF LoopInv

\* A step between two places of the loop: what it leaves to the end of the unit.
Turns == pc \in Looping /\ pc' \in Looping /\ UNCHANGED <<setup, ending>>

\* A step out of the loop.
Leaves == /\ pc \in Looping
          /\ UNCHANGED <<setup, facts, work, written, lifecycle>>
          /\ \/ pc' = "close" /\ error' = error
             \/ pc' = "failed" /\ error' # "NONE" /\ disposition' = disposition

\* Every step of the controller is a turn, leaves the loop, or comes after it.
LEMMA StepForms ==
    ASSUME Next
    PROVE  \/ Turns
           \/ Leaves
           \/ \E clean \in BOOLEAN : Close(clean)
           \/ Record
           \/ \E saved \in BOOLEAN : Catch(saved)
           \/ \E outcome \in {"COMPLETED", "INCOMPLETE_LEDGER"} : Finish(outcome)
           \/ pc \in {"close", "record"} /\ Fails
<1>. USE DEF Looping
<1>1. CASE Route
  <2>1. UNCHANGED <<setup, facts, work>>
    BY <1>1 DEF Route
  <2>. QED
    BY <1>1, <2>1, RouteForms DEF Turns, Leaves, ending
<1>2. CASE GiveUp \/ Denied
  BY <1>2 DEF GiveUp, Denied, Settle, Leaves
<1>3. CASE Dispatch
  <2>1. CASE Refuse
    BY <1>3, <2>1 DEF Dispatch, Refuse, Throw, Leaves, facts, work
  <2>2. CASE SendImplement \/ SendSol
    BY <1>3, <2>2 DEF Dispatch, SendImplement, SendSol, Turns
  <2>3. ASSUME NEW f \in Findings, SendRepair(f) PROVE Turns
    BY <1>3, <2>3 DEF Dispatch, SendRepair, Turns
  <2>. QED
    BY <1>3, <2>1, <2>2, <2>3 DEF Dispatch
<1>4. CASE Worker
  BY <1>4 DEF Worker, AcceptAttempt, RejectAttempt, Turns
<1>5. CASE Sol
  <2>1. CASE SolFails \/ CheckContract
    BY <2>1 DEF SolFails, CheckContract, Settle, Leaves
  <2>2. CASE Ask \/ Diagnose \/ PassReview
    BY <2>2 DEF Ask, Diagnose, PassReview, Turns
  <2>3. ASSUME NEW fresh \in SUBSET Findings, NEW selected \in Findings,
               NEW ref \in [Findings -> Refs], FailReview(fresh, selected, ref)
        PROVE  Turns
    BY <2>3 DEF FailReview, Turns
  <2>4. ASSUME NEW resolved \in BOOLEAN, Recheck(resolved) PROVE Turns
    BY <2>4 DEF Recheck, Turns
  <2>. QED
    BY <1>5, <2>1, <2>2, <2>3, <2>4 DEF Sol
<1>6. CASE Fails
  BY <1>6 DEF Fails, Throw, Leaves
<1>. QED
  BY <1>1, <1>2, <1>3, <1>4, <1>5, <1>6 DEF Next, Progress, Ending

\* Every step keeps what the turns keep.
LEMMA LoopStep == TypeOK /\ LoopInv /\ Next => LoopInv'
<1>. SUFFICES ASSUME TypeOK, LoopInv, Next PROVE LoopInv'
  OBVIOUS
<1>1. CASE Route
  <2>1. pc' # "dispatch" => pc' \notin Looping /\ UNCHANGED <<contract, facts, work>>
    BY <1>1, RouteForms DEF Looping
  <2>. QED
    BY <1>1, <2>1, RouteKeeps, LoopLeft
<1>2. CASE Leaves
  BY <1>2, LoopLeft DEF Leaves, Looping, setup
<1>3. CASE Dispatch /\ ~Leaves
  <2>1. CASE Refuse
    BY <1>3, <2>1 DEF Dispatch, Refuse, Throw, Leaves, Looping, facts, work
  <2>2. CASE SendImplement \/ SendSol
    BY <1>3, <2>2, SendKeeps
  <2>3. ASSUME NEW f \in Findings, SendRepair(f) PROVE LoopInv'
    BY <1>3, <2>3, RepairKeeps
  <2>. QED
    BY <1>3, <2>1, <2>2, <2>3 DEF Dispatch
<1>4. CASE Worker
  BY <1>4, AcceptKeeps, RejectKeeps DEF Worker
<1>5. CASE Sol /\ ~Leaves
  <2>1. ~SolFails /\ ~CheckContract
    BY <1>5 DEF SolFails, CheckContract, Settle, Leaves, Looping
  <2>. QED
    BY <1>5, <2>1, AskKeeps, DiagnoseKeeps, PassKeeps, FailKeeps, RecheckKeeps DEF Sol
<1>6. CASE Ending \/ Fails \/ GiveUp \/ Denied
  <2>1. pc' \notin Looping /\ UNCHANGED <<setup, facts, work>>
    BY <1>6 DEF Ending, Close, Record, Catch, Finish, Fails, GiveUp, Denied, Settle, Throw, Looping
  <2>. QED
    BY <2>1, LoopLeft DEF setup
<1>. QED
  BY <1>1, <1>2, <1>3, <1>4, <1>5, <1>6 DEF Next, Progress
-----------------------------------------------------------------------------
(* The end. *)

\* What a record adds to those on disk.
LEMMA RecordedMore ==
    ASSUME written \in Seq(Records), NEW x, written' = Append(written, x), NEW kind
    PROVE  Recorded(kind)' <=> Recorded(kind) \/ x = kind
<1>1. /\ Len(written) \in Nat /\ Len(written') = Len(written) + 1
      /\ written'[Len(written) + 1] = x
      /\ \A n \in 1 .. Len(written) : written'[n] = written[n]
  OBVIOUS
<1>. QED
  BY <1>1 DEF Recorded

\* An approval that the policy lets the controller decide on is earned.
LEMMA VerdictIsEarned ==
    ASSUME TypeOK, LoopInv, Route, pc' = "close", disposition' \in Approvals
    PROVE  /\ OpenFindings = {}
           /\ disposition' = "REVIEW_APPROVED" => Earned
           /\ disposition' = "SEMANTICALLY_ACCEPTED" => contract # "HIGH_RISK"
<1>1. /\ pc = "route" /\ route' \in Routes(Context) /\ route'.decision = "ROUTE_COMPLETE"
      /\ disposition' = Verdict
  BY RouteForms DEF Approvals
<1>2. OpenFindings = {}
  BY <1>1 DEF Verdict, Approvals
<1>3. contract \in Contracts /\ FactTypes /\ Reviews \in Nat
  BY TypeGroups DEF TypeOK, Reviews, Calls
<1>4. contract # "REVIEW_REQUIRED" /\ (contract = "HIGH_RISK" => state \in ReviewStates)
  BY <1>1, <1>3, PolicyEnd, ContextFields, RiskRead
<1>5. contract = "HIGH_RISK" => Earned
  <2>1. \A f \in Findings : findings[f].status \in {"NONE", "CLOSED"}
    BY <1>2, <1>3 DEF OpenFindings, FactTypes, FindingRecord
  <2>2. state \in ReviewStates => Reviews = 1 /\ ask = patch.id /\ patch.id # 0
    BY <1>1, <1>3 DEF LoopInv, Unreviewed, Reviewed, AcceptedHasPatch
  <2>. QED
    BY <1>4, <2>1, <2>2 DEF Earned
<1>. QED
  BY <1>1, <1>2, <1>3, <1>4, <1>5, ContractsAssumption DEF Verdict, Approvals

\* The turns of the loop leave the end alone.
LEMMA TurnsKeep == ASSUME TypeOK, EndInv, Turns PROVE EndInv'
<1>1. /\ disposition' = "REJECTED" /\ written' = <<>> /\ error' = "NONE" /\ pc' \in Looping
  BY DEF EndInv, Decided, Written, Turns, ending, Looping
<1>2. \A kind : ~Recorded(kind)'
  BY <1>1 DEF Recorded
<1>3. Decided'
  BY <1>1, <1>2 DEF Decided, Approvals
<1>4. Written' /\ SentWorkIsBound'
  BY <1>1 DEF Written, Looping, SentWorkIsBound
<1>. QED
  BY <1>3, <1>4 DEF EndInv

\* Only a repair before the final review is refused for want of a finding.
LEMMA RefusedRepair ==
    ASSUME TypeOK, LoopInv, Dispatch, Refuse
    PROVE  Reviews = 0 /\ route.role = "REPAIR"
<1>1. /\ pc = "dispatch" /\ route \in WorkerRoutes \cup SolRoutes /\ Reviews \in Nat
  BY DEF Dispatch, LoopInv, Routed, TypeOK, Calls, Reviews
<1>2. ASSUME route.decision = "ROUTE_SOL_RECHECK", active \notin OpenFindings PROVE FALSE
  <2>1. route = Rechecking
    BY <1>1, <1>2, WorkFields DEF WorkerRoutes, SolRoutes, Calls
  <2>2. Reviews >= 1
    BY <1>1, <2>1 DEF LoopInv, Unreviewed, Looping
  <2>3. active \in Findings /\ UnderRepair(active)
    BY <1>1, <2>1, <2>2 DEF LoopInv, Reviewed
  <2>. QED
    BY <1>2, <2>3 DEF UnderRepair, OpenFindings
<1>3. /\ route.role = "REPAIR"
      /\ IF active = NoFinding THEN \A f \in OpenFindings : findings[f].cycles # 0
                               ELSE active \notin OpenFindings \/ ~bound
  BY <1>2 DEF Refuse
<1>4. route = Repairing
  BY <1>1, <1>3, WorkFields DEF WorkerRoutes
<1>5. \A f \in OpenFindings : findings[f].cycles = 0
  BY <1>1, <1>4 DEF LoopInv, RepairsAreFirst
<1>6. ~(Reviews >= 1)
  BY <1>1, <1>3, <1>4, <1>5 DEF LoopInv, Reviewed
<1>. QED
  BY <1>1, <1>3, <1>6

\* What the end of the loop decides.
LEMMA LeavesDecide ==
    ASSUME TypeOK, LoopInv, EndInv, Next, Leaves
    PROVE  /\ pc' = "close" /\ disposition' \in Approvals =>
                 /\ OpenFindings = {}
                 /\ disposition' = "REVIEW_APPROVED" => Earned
                 /\ disposition' = "SEMANTICALLY_ACCEPTED" => contract # "HIGH_RISK"
           /\ error' = "SOL_ASK_INVALID" => Reviews = 0 /\ route.role = "REPAIR" /\ route' = route
<1>0. disposition = "REJECTED" /\ error = "NONE" /\ pc \in Looping
  BY DEF EndInv, Decided, Written, Leaves, Looping
<1>1. CASE Route
  BY <1>0, <1>1, VerdictIsEarned, RouteForms DEF Leaves, ending
<1>2. CASE GiveUp \/ Denied \/ SolFails \/ CheckContract
  BY <1>0, <1>2 DEF GiveUp, Denied, SolFails, CheckContract, Settle, Approvals
<1>3. CASE Dispatch
  <2>1. Refuse
    BY <1>3 DEF Dispatch, SendImplement, SendRepair, SendSol, Leaves
  <2>. QED
    BY <1>3, <2>1, RefusedRepair DEF Dispatch, Refuse, Throw
<1>4. CASE Fails
  BY <1>0, <1>4 DEF Fails, Throw
<1>5. CASE Worker \/ Ask \/ Diagnose \/ PassReview
  BY <1>5 DEF Worker, AcceptAttempt, RejectAttempt, Ask, Diagnose, PassReview, Leaves
<1>6. ASSUME NEW fresh \in SUBSET Findings, NEW selected \in Findings,
             NEW ref \in [Findings -> Refs], FailReview(fresh, selected, ref)
      PROVE  FALSE
  BY <1>6 DEF FailReview, Leaves
<1>7. ASSUME NEW resolved \in BOOLEAN, Recheck(resolved) PROVE FALSE
  BY <1>7 DEF Recheck, Leaves
<1>8. ~Ending
  BY <1>0 DEF Ending, Close, Record, Catch, Finish, Looping
<1>. QED
  BY <1>1, <1>2, <1>3, <1>4, <1>5, <1>6, <1>7, <1>8 DEF Next, Progress, Sol

\* The end of the loop has decided rightly, and recorded nothing yet.
LEMMA LeavesKeep == ASSUME TypeOK, LoopInv, EndInv, Next, Leaves PROVE EndInv'
<1>1. /\ written' = <<>> /\ error = "NONE" /\ pc' \in {"close", "failed"}
      /\ pc' = "close" => error' = "NONE"
      /\ pc' = "failed" => error' # "NONE"
  BY DEF EndInv, Written, Leaves, Looping
<1>2. \A kind : ~Recorded(kind)'
  BY <1>1 DEF Recorded
<1>3. UNCHANGED <<contract, facts, work>>
  BY DEF Leaves, setup
<1>4. /\ OpenFindings' = OpenFindings /\ Earned' = Earned
  BY <1>3 DEF OpenFindings, Earned, Reviews, facts, work
<1>5. Decided'
  BY <1>1, <1>2, <1>3, <1>4, LeavesDecide DEF Decided, Looping, Approvals
<1>6. Written'
  BY <1>1 DEF Written, Looping
<1>7. SentWorkIsBound'
  BY <1>3, LeavesDecide DEF SentWorkIsBound, work, Reviews
<1>. QED
  BY <1>5, <1>6, <1>7 DEF EndInv

\* Nothing decided so far is touched after the loop.
LEMMA EndKeeps ==
    ASSUME UNCHANGED <<setup, route, facts, work>>
    PROVE  /\ OpenFindings' = OpenFindings /\ (Earned' <=> Earned)
           /\ UNCHANGED <<contract, seam>> /\ Reviews' = Reviews
BY DEF OpenFindings, Earned, Reviews, facts, work, setup

\* The last checks only take approvals back.
LEMMA CloseKeeps == ASSUME TypeOK, EndInv, NEW clean \in BOOLEAN, Close(clean) PROVE EndInv'
<1>1. /\ pc = "close" /\ pc' = "record" /\ UNCHANGED <<setup, route, facts, work, error, written>>
      /\ disposition' = disposition \/ disposition' = "REJECTED"
      /\ disposition' = "REVIEW_APPROVED" => ~seam
  BY DEF Close
<1>2. written = <<>> /\ error = "NONE" /\ disposition' \in Dispositions
  BY <1>1, TypeGroups DEF EndInv, Written, EndTypes, Dispositions
<1>3. \A kind : ~Recorded(kind)'
  BY <1>1, <1>2 DEF Recorded
<1>4. Decided'
  BY <1>1, <1>3, EndKeeps DEF EndInv, Decided, Looping, Approvals
<1>5. Written'
  <2>1. Len(Plan(disposition')) \in {2, 4, 5}
    BY <1>2, PlanType
  <2>2. Len(written') = 0 /\ error' = "NONE"
    BY <1>1, <1>2
  <2>3. Len(written') < Len(Plan(disposition'))
    BY <2>1, <2>2
  <2>4. Plan(disposition)' = Plan(disposition')
    BY DEF Plan
  <2>. QED
    BY <1>1, <2>2, <2>3, <2>4 DEF Written, Looping
<1>6. SentWorkIsBound'
  BY <1>1, <1>2 DEF SentWorkIsBound
<1>. QED
  BY <1>4, <1>5, <1>6 DEF EndInv

\* Records that agree with all of a plan are the plan.
LEMMA SameSequence ==
    ASSUME NEW s \in Seq(Records), NEW t \in Seq(Records), Len(s) = Len(t),
           \A n \in 1 .. Len(t) : s[n] = t[n]
    PROVE  s = t
OBVIOUS

\* The approval is recorded by the one disposition, a candidate by two.
LEMMA PlanRecords ==
    ASSUME NEW d \in Dispositions, NEW n \in 1 .. Len(Plan(d))
    PROVE  /\ Plan(d)[n] = "REVIEW_APPROVED" => d = "REVIEW_APPROVED"
           /\ Plan(d)[n] = "candidate" => d \in Approvals
<1>1. CASE d \in Approvals
  <2>1. CASE d = "SEMANTICALLY_ACCEPTED"
    <3>1. Len(<<"PATCH_VALID", "SEMANTICALLY_ACCEPTED", "candidate", "unit">>) = 4
      OBVIOUS
    <3>2. Len(Plan(d)) = 4
      BY <2>1, <3>1, PlanFields
    <3>3. n \in {1, 2, 3, 4}
      BY <3>2
    <3>. QED
      BY <1>1, <2>1, <3>3, PlanFields
  <2>. QED
    BY <1>1, <2>1 DEF Approvals
<1>2. CASE d \in {"REJECTED", "REVIEW_REQUIRED"}
  <2>1. Len(<<d, "unit">>) = 2
    OBVIOUS
  <2>2. Plan(d) = <<d, "unit">>
    BY <1>2, PlanFields
  <2>3. Plan(d)[1] = d /\ Plan(d)[2] = "unit" /\ Len(Plan(d)) = 2
    BY <2>1, <2>2
  <2>4. n \in {1, 2}
    BY <2>3
  <2>. QED
    BY <1>2, <2>3, <2>4
<1>. QED
  BY <1>1, <1>2 DEF Dispositions

\* What is being recorded has been decided.
LEMMA RecordKeeps == ASSUME TypeOK, EndInv, Record PROVE EndInv'
<1>. DEFINE n == Len(written) + 1
            x == Plan(disposition)[n]
<1>1. /\ pc = "record" /\ UNCHANGED <<setup, route, facts, work, disposition, error>>
      /\ Len(written) < Len(Plan(disposition)) /\ written' = Append(written, x)
      /\ pc' = IF n = Len(Plan(disposition)) THEN "finish" ELSE "record"
  BY DEF Record
<1>2. /\ written \in Seq(Records) /\ disposition \in Dispositions
      /\ Plan(disposition) \in Seq(Records) /\ Len(Plan(disposition)) \in Nat
      /\ error = "NONE"
  BY <1>1, TypeGroups, PlanType DEF EndInv, Written, EndTypes
<1>3. n \in 1 .. Len(Plan(disposition)) /\ n \in Nat
  BY <1>1, <1>2
<1>. HIDE DEF x
<1>4. x = "REVIEW_APPROVED" => disposition = "REVIEW_APPROVED"
  BY <1>2, <1>3, PlanRecords DEF x
<1>5. x = "candidate" => disposition \in Approvals
  BY <1>2, <1>3, PlanRecords DEF x
<1>6. \A kind : Recorded(kind)' <=> Recorded(kind) \/ x = kind
  BY <1>1, <1>2, RecordedMore
<1>7. Decided'
  <2>1. /\ disposition \in Approvals => OpenFindings = {}
        /\ disposition = "REVIEW_APPROVED" => Earned /\ ~seam
        /\ disposition = "SEMANTICALLY_ACCEPTED" => contract # "HIGH_RISK"
    BY <1>1 DEF EndInv, Decided
  <2>2. pc' \notin Looping
    BY <1>1 DEF Looping
  <2>3. Recorded("REVIEW_APPROVED")' => Earned /\ ~seam
    BY <1>4, <1>6, <2>1 DEF EndInv, Decided
  <2>4. Recorded("candidate")' => OpenFindings = {} /\ (contract = "HIGH_RISK" => Earned)
    BY <1>5, <1>6, <2>1 DEF EndInv, Decided, Approvals
  <2>5. /\ OpenFindings' = OpenFindings /\ (Earned' <=> Earned)
        /\ UNCHANGED <<contract, seam, disposition>>
    BY <1>1, EndKeeps
  <2>. QED
    BY <2>1, <2>2, <2>3, <2>4, <2>5 DEF Decided
<1>8. Written'
  <2>1. Plan(disposition)' = Plan(disposition) /\ error' = "NONE"
    BY <1>1, <1>2 DEF Plan
  <2>2. /\ Len(written') = n /\ written' \in Seq(Records)
        /\ written'[n] = x /\ \A k \in 1 .. Len(written) : written'[k] = written[k]
    <3>1. x \in Records
      BY <1>2, <1>3 DEF x
    <3>. QED
      BY <1>1, <1>2, <3>1
  <2>3. \A k \in 1 .. n : written'[k] = Plan(disposition)[k]
    <3>1. \A k \in 1 .. Len(written) : written[k] = Plan(disposition)[k]
      BY <1>1 DEF EndInv, Written
    <3>. QED
      BY <1>2, <2>2, <3>1 DEF x
  <2>4. CASE n = Len(Plan(disposition))
    <3>1. written' = Plan(disposition)
      BY <1>2, <2>2, <2>3, <2>4, SameSequence
    <3>. QED
      BY <1>1, <2>1, <2>4, <3>1 DEF Written, Looping
  <2>5. CASE n # Len(Plan(disposition))
    <3>1. n < Len(Plan(disposition))
      BY <1>2, <1>3, <2>5
    <3>. QED
      BY <1>1, <2>1, <2>2, <2>3, <2>5, <3>1 DEF Written, Looping
  <2>. QED
    BY <2>4, <2>5
<1>9. SentWorkIsBound'
  BY <1>1, <1>2 DEF SentWorkIsBound
<1>. QED
  BY <1>7, <1>8, <1>9 DEF EndInv

\* A unit that threw is rejected; what it recorded before stays true.
LEMMA CatchKeeps == ASSUME TypeOK, EndInv, NEW saved \in BOOLEAN, Catch(saved) PROVE EndInv'
<1>1. /\ pc = "failed" /\ pc' = "finish" /\ disposition' = "REJECTED"
      /\ UNCHANGED <<setup, route, facts, work, error>>
      /\ written' = IF saved THEN Append(written, "REJECTED") ELSE written
  BY DEF Catch
<1>2. written \in Seq(Records) /\ error # "NONE"
  BY <1>1, TypeGroups DEF EndInv, Written, EndTypes
<1>3. /\ Recorded("REVIEW_APPROVED")' <=> Recorded("REVIEW_APPROVED")
      /\ Recorded("candidate")' <=> Recorded("candidate")
  <2>1. CASE saved
    BY <1>1, <1>2, <2>1, RecordedMore
  <2>2. CASE ~saved
    BY <1>1, <2>2 DEF Recorded
  <2>. QED
    BY <2>1, <2>2
<1>4. Decided'
  BY <1>1, <1>3, EndKeeps DEF EndInv, Decided, Looping, Approvals
<1>5. Written'
  BY <1>1, <1>2 DEF Written, Looping
<1>6. SentWorkIsBound'
  BY <1>1 DEF EndInv, SentWorkIsBound, work
<1>. QED
  BY <1>4, <1>5, <1>6 DEF EndInv

\* Finalizing decides nothing.
LEMMA FinishKeeps == ASSUME EndInv, NEW outcome, Finish(outcome) PROVE EndInv'
<1>1. /\ pc = "finish" /\ pc' = "done"
      /\ UNCHANGED <<setup, route, facts, work, disposition, error, written>>
  BY DEF Finish
<1>2. Plan(disposition)' = Plan(disposition) /\ \A kind : Recorded(kind)' <=> Recorded(kind)
  BY <1>1 DEF Plan, Recorded
<1>3. Decided'
  BY <1>1, <1>2, EndKeeps DEF EndInv, Decided, Looping
<1>4. Written'
  BY <1>1, <1>2 DEF EndInv, Written, Looping
<1>5. SentWorkIsBound'
  BY <1>1 DEF EndInv, SentWorkIsBound, work
<1>. QED
  BY <1>3, <1>4, <1>5 DEF EndInv

\* A failure after the loop records nothing more.
LEMMA FailsKeep == ASSUME EndInv, pc \in {"close", "record"}, Fails PROVE EndInv'
<1>1. /\ pc' = "failed" /\ error' = "IO"
      /\ UNCHANGED <<setup, route, facts, work, disposition, written>>
  BY DEF Fails, Throw
<1>2. \A kind : Recorded(kind)' <=> Recorded(kind)
  BY <1>1 DEF Recorded
<1>3. Decided'
  BY <1>1, <1>2, EndKeeps DEF EndInv, Decided, Looping
<1>4. Written' /\ SentWorkIsBound'
  BY <1>1 DEF Written, Looping, SentWorkIsBound
<1>. QED
  BY <1>3, <1>4 DEF EndInv
-----------------------------------------------------------------------------
(* The invariant, and what follows from it. *)

\* The unit starts with nothing done and nothing decided.
LEMMA InitInv == Init => IInv
<1>. SUFFICES ASSUME Init PROVE IInv
  OBVIOUS
<1>1. /\ pc = "route" /\ state = "ROUTING_READY" /\ ~accepted /\ patch.id = 0 /\ rejection = "NONE"
      /\ \A c \in Calls : asked[c] = 0
      /\ \A f \in Findings : /\ findings[f].status = "NONE" /\ findings[f].cycles = 0
                             /\ findings[f].rechecks = 0
      /\ active = NoFinding /\ repairs = 0
      /\ disposition = "REJECTED" /\ error = "NONE" /\ written = <<>>
  BY DEF Init, NoPatch, Absent
<1>2. \A kind : ~Recorded(kind)
  BY <1>1 DEF Recorded
<1>3. /\ \A f \in Findings : ~UnderRepair(f)
      /\ Reviews = 0 /\ asked["ROUTE_SOL_DIAGNOSE"] = 0 /\ asked["ROUTE_SOL_RECHECK"] = 0
  BY <1>1 DEF UnderRepair, Reviews, Calls
<1>4. Routed /\ CheckedFirst /\ FindingsOK
  BY <1>1, <1>3 DEF Routed, CheckedFirst, FindingsOK
<1>5. Unreviewed /\ AcceptedHasPatch /\ Reviewed
  BY <1>1, <1>3 DEF Unreviewed, AcceptedHasPatch, Reviewed, ReviewStates
<1>6. RepairsAreFirst /\ Diagnosed /\ RechecksArePaid
  BY <1>1, <1>3 DEF RepairsAreFirst, Diagnosed, RechecksArePaid
<1>7. EndInv
  BY <1>1, <1>2 DEF EndInv, Decided, Written, SentWorkIsBound, Looping, Approvals
<1>. QED
  BY InitType, <1>4, <1>5, <1>6, <1>7 DEF IInv, LoopInv

\* A step that changes nothing keeps the invariant.
LEMMA StutterInv == IInv /\ UNCHANGED vars => IInv'
<1>. SUFFICES ASSUME IInv, UNCHANGED vars PROVE IInv'
  OBVIOUS
<1>. USE DEF vars, setup, facts, work, ending
<1>1. TypeOK'
  BY DEF IInv, TypeOK
<1>2. Routed' /\ CheckedFirst' /\ FindingsOK'
  BY DEF IInv, LoopInv, Routed, CheckedFirst, FindingsOK, UnderRepair
<1>3. Unreviewed' /\ AcceptedHasPatch'
  BY DEF IInv, LoopInv, Unreviewed, AcceptedHasPatch, Reviews
<1>4. Reviewed'
  BY DEF IInv, LoopInv, Reviewed, Reviews, PassedReview, FailedReview, AfterRepair, ResolvedRecheck,
         FailedRecheck, OpenFindings, UnderRepair
<1>5. RepairsAreFirst' /\ Diagnosed' /\ RechecksArePaid'
  BY DEF IInv, LoopInv, RepairsAreFirst, Diagnosed, RechecksArePaid, OpenFindings, UnderRepair
<1>6. Decided'
  BY DEF IInv, EndInv, Decided, Recorded, Earned, Reviews, OpenFindings
<1>7. Written' /\ SentWorkIsBound'
  BY DEF IInv, EndInv, Written, SentWorkIsBound, Plan
<1>. QED
  BY <1>1, <1>2, <1>3, <1>4, <1>5, <1>6, <1>7 DEF IInv, LoopInv, EndInv

\* Every step of the controller keeps the invariant.
LEMMA StepInv == IInv /\ Next => IInv'
<1>. SUFFICES ASSUME IInv, Next PROVE IInv'
  OBVIOUS
<1>0. TypeOK /\ LoopInv /\ EndInv
  BY DEF IInv
<1>1. TypeOK'
  <2>1. PlaceTypes' /\ FactTypes' /\ WorkTypes' /\ EndTypes'
    BY <1>0, FactStep, WorkStep, EndStep, PlaceStep DEF LoopInv
  <2>. QED
    BY <2>1 DEF TypeOK, PlaceTypes, FactTypes, WorkTypes, EndTypes, Dispositions, Records
<1>2. LoopInv'
  BY <1>0, LoopStep
<1>3. EndInv'
  BY <1>0, StepForms, TurnsKeep, LeavesKeep, CloseKeeps, RecordKeeps, CatchKeeps, FinishKeeps, FailsKeep
<1>. QED
  BY <1>1, <1>2, <1>3 DEF IInv

\* The inductive invariant of the controller.
THEOREM Invariant == Spec => []IInv
<1>1. IInv /\ [Next]_vars => IInv'
  BY StepInv, StutterInv
<1>. QED
  BY InitInv, <1>1, PTL DEF Spec

\* Every variable of the controller keeps its type.
THEOREM TypeCorrect == Spec => []TypeOK
<1>1. IInv => TypeOK
  BY DEF IInv
<1>. QED
  BY Invariant, <1>1, PTL

\* An approval on disk was reviewed, outside a test seam, and every finding of
\* the review was repaired once, rechecked once and closed.
THEOREM ApprovalsAreEarned == Spec => []ApprovalIsEarned
<1>1. IInv => ApprovalIsEarned
  <2>. SUFFICES ASSUME IInv, Recorded("REVIEW_APPROVED") PROVE ApprovalIsEarned
    BY DEF ApprovalIsEarned
  <2>1. Earned /\ ~seam
    BY DEF IInv, EndInv, Decided
  <2>. QED
    BY <2>1 DEF IInv, LoopInv, FindingsOK, Earned, ApprovalIsEarned, Reviews
<1>. QED
  BY Invariant, <1>1, PTL

\* Each finding is repaired and rechecked at most once, one finding at a time.
THEOREM RepairsOneAtATime == Spec => []OneRepairAtATime
<1>1. IInv => OneRepairAtATime
  BY DEF IInv, LoopInv, FindingsOK, OneRepairAtATime
<1>. QED
  BY Invariant, <1>1, PTL

\* One diagnosis, one final review, and no recheck without a repair of its own.
THEOREM SolAskedOnce == Spec => []SolIsAskedOnce
<1>1. IInv => SolIsAskedOnce
  <2>. SUFFICES ASSUME IInv PROVE SolIsAskedOnce
    OBVIOUS
  <2>1. Reviews \in Nat
    BY DEF IInv, TypeOK, Calls, Reviews
  <2>2. Reviews <= 1
    BY <2>1 DEF IInv, LoopInv, Reviewed
  <2>. QED
    BY <2>2 DEF IInv, LoopInv, Diagnosed, RechecksArePaid, SolIsAskedOnce, Reviews
<1>. QED
  BY Invariant, <1>1, PTL

\* The patch of a high-risk candidate is the one SOL was asked about last.
THEOREM CandidatesWereReviewed == Spec => []CandidateWasReviewed
<1>1. IInv => CandidateWasReviewed
  BY DEF IInv, EndInv, Decided, Earned, CandidateWasReviewed
<1>. QED
  BY Invariant, <1>1, PTL

\* An answer of ok stands on a complete plan of records, and on no failure.
THEOREM OkStandsOnDisk == Spec => []OkIsOnDisk
<1>1. IInv => OkIsOnDisk
  <2>. SUFFICES ASSUME IInv, pc = "done", disposition \in Approvals
                PROVE  error = "NONE" /\ written = Plan(disposition)
    BY DEF OkIsOnDisk
  <2>1. error = "NONE"
    BY DEF IInv, EndInv, Written, Approvals
  <2>. QED
    BY <2>1 DEF IInv, EndInv, Written
<1>. QED
  BY Invariant, <1>1, PTL

\* The controller refuses to send no recheck, and after the review no repair.
THEOREM WorkSentIsBound == Spec => []SentWorkIsBound
<1>1. IInv => SentWorkIsBound
  BY DEF IInv, EndInv
<1>. QED
  BY Invariant, <1>1, PTL
-----------------------------------------------------------------------------
(* The promise of the final review. *)

\* The stage of a finding, read from its record.
LEMMA StageIs ==
    ASSUME NEW f \in Findings, findings[f] \in FindingRecord
    PROVE  /\ findings[f].status = "NONE" => Stage(f) = "none"
           /\ findings[f].status = "CLOSED" => Stage(f) = "closed"
           /\ findings[f].status = "OPEN" /\ findings[f].cycles = 0 => Stage(f) = "open"
           /\ UnderRepair(f) => Stage(f) = "repair"
           /\ findings[f].status = "OPEN" /\ findings[f].cycles = 1 /\ findings[f].rechecks = 1 =>
                 Stage(f) = "survived"
<1>1. UnderRepair(f) => findings[f].status = "OPEN" /\ findings[f].cycles # 0 /\ findings[f].rechecks # 1
  BY DEF UnderRepair, FindingRecord
<1>2. 0 # 1
  OBVIOUS
<1>. QED
  BY <1>1, <1>2, Zenon DEF Stage

\* The stages of the findings all start at none.
LEMMA PromiseInit == Init => Promise!Init
<1>. SUFFICES ASSUME Init PROVE Promise!Init
  OBVIOUS
<1>1. FactTypes /\ \A f \in Findings : findings[f].status = "NONE"
  BY InitType, TypeGroups DEF Init, Absent
<1>2. \A f \in Findings : Stage(f) = "none"
  BY <1>1, StageIs DEF FactTypes
<1>3. Recorded("candidate") = FALSE
  BY DEF Init, Recorded
<1>. QED
  BY <1>2, <1>3 DEF Promise!Init

\* A step that leaves the findings alone offers a candidate, or changes nothing.
LEMMA Offering ==
    ASSUME IInv, IInv', UNCHANGED findings, Recorded("candidate") => Recorded("candidate")'
    PROVE  [Promise!Next]_(Promise!reviewVars)
<1>1. \A f \in Findings : Stage(f)' = Stage(f)
  BY DEF Stage, UnderRepair
<1>2. CASE Recorded("candidate")'
  <2>1. OpenFindings' = {} /\ FactTypes
    BY <1>2, TypeGroups DEF IInv, EndInv, Decided
  <2>2. \A f \in Findings : findings[f] \in FindingRecord /\ findings[f].status \in {"NONE", "CLOSED"}
    BY <2>1 DEF OpenFindings, FactTypes, FindingRecord
  <2>3. \A f \in Findings : Stage(f) \in {"none", "closed"}
    BY <2>2, StageIs
  <2>4. Promise!Offer
    BY <1>1, <1>2, <2>3 DEF Promise!Offer
  <2>. QED
    BY <2>4 DEF Promise!Next
<1>3. CASE ~Recorded("candidate")'
  <2>1. ~Recorded("candidate")
    BY <1>3
  <2>2. UNCHANGED Recorded("candidate")
    BY <1>3, <2>1 DEF Recorded
  <2>3. UNCHANGED Promise!reviewVars
    BY <1>1, <2>2 DEF Promise!reviewVars
  <2>. QED
    BY <2>3
<1>. QED
  BY <1>2, <1>3

\* The repair of a finding is the one under way.
LEMMA RepairRefines ==
    ASSUME IInv, Dispatch, NEW f \in Findings, SendRepair(f)
    PROVE  Promise!Next
<1>0. TypeOK /\ LoopInv /\ EndInv /\ FactTypes
  BY TypeGroups DEF IInv
<1>1. /\ pc = "dispatch" /\ route = Repairing
      /\ findings[f].status = "OPEN" /\ findings[f].cycles = 0 /\ findings[f].rechecks = 0
      /\ \A g \in Findings : ~UnderRepair(g)
  BY <1>0, RepairIsFirst DEF SendRepair
<1>2. ~Recorded("candidate") /\ ~Recorded("candidate")'
  BY <1>0, <1>1 DEF EndInv, Decided, Looping, Recorded, SendRepair, ending
<1>3. \A g \in Findings : Stage(g) \in {"none", "open", "closed"}
  <2>1. \A g \in Findings : findings[g].status = "OPEN" => findings[g].cycles = 0
    BY <1>0, <1>1 DEF LoopInv, RepairsAreFirst, OpenFindings
  <2>2. \A g \in Findings : findings[g] \in FindingRecord /\ findings[g].status \in {"NONE", "OPEN", "CLOSED"}
    BY <1>0 DEF FactTypes, FindingRecord
  <2>. QED
    BY <2>1, <2>2, StageIs
<1>4. Stage(f) = "open"
  BY <1>0, <1>1, StageIs DEF FactTypes
<1>5. \A g \in Findings : Stage(g)' = IF g = f THEN "repair" ELSE Stage(g)
  <2>1. /\ findings' \in [Findings -> FindingRecord]
        /\ \A g \in Findings : g # f => findings'[g] = findings[g]
        /\ UnderRepair(f)'
    BY <1>0, <1>1, RepairEffect DEF UnderRepair
  <2>2. \A g \in Findings : g # f => Stage(g)' = Stage(g)
    BY <2>1 DEF Stage, UnderRepair
  <2>3. findings'[f].status = "OPEN" /\ findings'[f].cycles >= 1 /\ findings'[f].rechecks = 0
        /\ findings'[f].cycles # 0
    BY <2>1 DEF UnderRepair
  <2>4. Stage(f)' = "repair"
    BY <2>1, <2>3, Zenon DEF Stage
  <2>. QED
    BY <2>2, <2>4
<1>6. UNCHANGED Recorded("candidate")
  BY <1>2 DEF Recorded
<1>7. Promise!Repair(f)
  BY <1>2, <1>6, <1>3, <1>4, <1>5 DEF Promise!Repair
<1>. QED
  BY <1>7 DEF Promise!Next

\* A failed review raises its findings.
LEMMA FailRefines ==
    ASSUME IInv, NEW fresh \in SUBSET Findings, NEW selected \in Findings,
           NEW ref \in [Findings -> Refs], FailReview(fresh, selected, ref)
    PROVE  Promise!Next
<1>0. TypeOK /\ LoopInv /\ EndInv /\ FactTypes
  BY TypeGroups DEF IInv
<1>1. /\ pc = "answer" /\ written' = written /\ selected \in fresh
      /\ findings' = [f \in Findings |-> IF f \in fresh THEN Raised(ref[f]) ELSE findings[f]]
      /\ \A f \in Findings : findings[f].status = "NONE"
  BY <1>0, ReviewAnswer DEF FailReview, ending, Raised
<1>2. ~Recorded("candidate") /\ UNCHANGED Recorded("candidate")
  BY <1>0, <1>1 DEF EndInv, Decided, Looping, Recorded
<1>3. \A f \in Findings : Stage(f) = "none"
  BY <1>0, <1>1, StageIs DEF FactTypes
<1>4. ASSUME NEW f \in Findings PROVE Stage(f)' = IF f \in fresh THEN "open" ELSE "none"
  <2>1. CASE f \in fresh
    <3>1. findings'[f].status = "OPEN" /\ findings'[f].cycles = 0
      BY <1>1, <2>1, FreshFinding
    <3>2. ~UnderRepair(f)'
      BY <3>1 DEF UnderRepair
    <3>. QED
      BY <2>1, <3>1, <3>2, Zenon DEF Stage
  <2>2. CASE f \notin fresh
    <3>1. findings'[f] = findings[f]
      BY <1>1, <2>2
    <3>. QED
      BY <1>3, <2>2, <3>1 DEF Stage, UnderRepair
  <2>. QED
    BY <2>1, <2>2
<1>5. Promise!Raise(fresh)
  BY <1>1, <1>2, <1>3, <1>4 DEF Promise!Raise
<1>. QED
  BY <1>5 DEF Promise!Next

\* A recheck closes the finding under repair, or leaves it as one that survived.
LEMMA RecheckRefines ==
    ASSUME IInv, NEW resolved \in BOOLEAN, Recheck(resolved)
    PROVE  Promise!Next
<1>. DEFINE outcome == IF resolved THEN "closed" ELSE "survived"
<1>0. TypeOK /\ LoopInv /\ EndInv /\ FactTypes
  BY TypeGroups DEF IInv
<1>1. pc = "answer" /\ written' = written /\ active \in Findings /\ UnderRepair(active)
  BY <1>0, RecheckHasFinding DEF Recheck, LoopInv, ending
<1>2. ~Recorded("candidate") /\ UNCHANGED Recorded("candidate")
  BY <1>0, <1>1 DEF EndInv, Decided, Looping, Recorded
<1>3. Stage(active) = "repair"
  BY <1>0, <1>1, StageIs DEF FactTypes
<1>4. ASSUME NEW f \in Findings PROVE Stage(f)' = IF f = active THEN outcome ELSE Stage(f)
  <2>1. CASE f # active
    <3>1. findings'[f] = findings[f]
      BY <1>0, <1>1, <2>1, RecheckEffect
    <3>. QED
      BY <2>1, <3>1 DEF Stage, UnderRepair
  <2>2. CASE f = active
    <3>1. findings[active] \in FindingRecord /\ findings[active].status = "OPEN"
          /\ findings[active].cycles >= 1 /\ findings[active].rechecks = 0
      BY <1>0, <1>1 DEF FactTypes, UnderRepair
    <3>2. /\ findings'[f].status = IF resolved THEN "CLOSED" ELSE "OPEN"
          /\ findings'[f].cycles # 0 /\ findings'[f].rechecks # 0
      BY <1>0, <1>1, <2>2, <3>1, RecheckEffect DEF FindingRecord
    <3>3. ~UnderRepair(f)'
      BY <3>2 DEF UnderRepair
    <3>4. CASE resolved
      <4>1. findings'[f].status = "CLOSED" /\ findings'[f].status # "NONE" /\ findings'[f].status # "OPEN"
        BY <3>2, <3>4
      <4>. QED
        BY <2>2, <3>3, <3>4, <4>1, Zenon DEF Stage
    <3>5. CASE ~resolved
      <4>1. findings'[f].status = "OPEN" /\ findings'[f].status # "NONE" /\ findings'[f].status # "CLOSED"
        BY <3>2, <3>5
      <4>. QED
        BY <2>2, <3>2, <3>3, <3>5, <4>1, Zenon DEF Stage
    <3>. QED
      BY <3>4, <3>5
  <2>. QED
    BY <2>1, <2>2
<1>. HIDE DEF outcome
<1>5. Promise!Recheck(active, outcome)
  BY <1>1, <1>2, <1>3, <1>4 DEF Promise!Recheck
<1>6. outcome \in {"closed", "survived"}
  BY DEF outcome
<1>. QED
  BY <1>1, <1>5, <1>6 DEF Promise!Next

\* Every step of the controller is one of the promise, or leaves it unchanged.
LEMMA PromiseStep == IInv /\ IInv' /\ [Next]_vars => [Promise!Next]_(Promise!reviewVars)
<1>. SUFFICES ASSUME IInv, IInv', [Next]_vars PROVE [Promise!Next]_(Promise!reviewVars)
  OBVIOUS
<1>1. CASE UNCHANGED vars
  <2>1. UNCHANGED findings /\ UNCHANGED written
    BY <1>1 DEF vars, facts, ending
  <2>2. Recorded("candidate") => Recorded("candidate")'
    BY <2>1 DEF Recorded
  <2>. QED
    BY <2>1, <2>2, Offering
<1>2. CASE \E f \in Findings : Dispatch /\ SendRepair(f)
  BY <1>2, RepairRefines
<1>3. CASE \E fresh \in SUBSET Findings, selected \in Findings, ref \in [Findings -> Refs] :
              FailReview(fresh, selected, ref)
  BY <1>3, FailRefines
<1>4. CASE \E resolved \in BOOLEAN : Recheck(resolved)
  BY <1>4, RecheckRefines
<1>5. CASE Next /\ UNCHANGED findings
  <2>1. written \in Seq(Records)
    BY TypeGroups DEF IInv, EndTypes
  <2>2. written' = written \/ \E x : written' = Append(written, x)
    BY <1>5, StepForms DEF Turns, Leaves, ending, Close, Record, Catch, Finish, Fails, Throw
  <2>3. Recorded("candidate") => Recorded("candidate")'
    BY <2>1, <2>2, RecordedMore DEF Recorded
  <2>. QED
    BY <1>5, <2>3, Offering
<1>6. Next => \/ UNCHANGED findings
              \/ \E f \in Findings : Dispatch /\ SendRepair(f)
              \/ \E fresh \in SUBSET Findings, selected \in Findings, ref \in [Findings -> Refs] :
                    FailReview(fresh, selected, ref)
              \/ \E resolved \in BOOLEAN : Recheck(resolved)
  BY DEF Next, Progress, Route, GiveUp, Denied, Dispatch, SendImplement, SendSol, Refuse, Worker,
         AcceptAttempt, RejectAttempt, Sol, Ask, SolFails, Diagnose, CheckContract, PassReview, Ending,
         Close, Record, Catch, Finish, Fails, facts
<1>. QED
  BY <1>1, <1>2, <1>3, <1>4, <1>5, <1>6

\* The controller implements the promise of the final review.
THEOREM Refinement == Spec => KeepsPromise
<1>1. Init => Promise!Init
  BY PromiseInit
<1>2. IInv /\ IInv' /\ [Next]_vars => [Promise!Next]_(Promise!reviewVars)
  BY PromiseStep
<1>. QED
  BY Invariant, <1>1, <1>2, PTL DEF Spec, KeepsPromise, Promise!Spec
-----------------------------------------------------------------------------
(* The budget. *)

Used == attempts + asked["ROUTE_SOL_CONTRACT_CHECK"] + asked["ROUTE_SOL_DIAGNOSE"]
          + asked["ROUTE_SOL_FINAL_REVIEW"] + asked["ROUTE_SOL_RECHECK"]

\* Every call that may still be made has been paid for.
Paid == /\ contract = "REVIEW_REQUIRED" => attempts = 0
        /\ spent <= UnitCalls /\ spent <= RunCalls
        /\ pc = "dispatch" => spent < UnitCalls /\ spent < RunCalls
        /\ Used <= spent
        /\ pc \in {"worker", "sol"} => Used < spent

\* One more ask is one more call used.
LEMMA AskIsUse == TypeOK /\ LoopInv /\ Ask => Used' = Used + 1 /\ Used \in Nat
<1>. SUFFICES ASSUME TypeOK, LoopInv, Ask PROVE Used' = Used + 1 /\ Used \in Nat
  OBVIOUS
<1>1. WorkTypes /\ route.decision \in Calls /\ attempts' = attempts
  BY TypeGroups, WorkFields DEF LoopInv, Routed, Ask
<1>2. /\ asked'[route.decision] = asked[route.decision] + 1
      /\ \A c \in Calls \ {route.decision} : asked'[c] = asked[c]
      /\ \A c \in Calls : asked[c] \in Nat
  BY <1>1, Counts DEF Ask, WorkTypes
<1>. QED
  BY <1>1, <1>2 DEF Used, Calls, WorkTypes

\* Every step of the controller stays within the budget.
LEMMA PaidStep == IInv /\ Paid /\ Next => Paid'
<1>. SUFFICES ASSUME IInv, Paid, Next PROVE Paid'
  OBVIOUS
<1>0. TypeOK /\ LoopInv /\ WorkTypes /\ spent \in Nat /\ UnitCalls \in Nat /\ RunCalls \in Nat
  BY TypeGroups, LimitsAssumption DEF IInv, TypeOK
<1>1. Used \in Nat
  BY <1>0 DEF Used, WorkTypes, Calls
<1>2. ASSUME UNCHANGED <<contract, spent, attempts, asked>>, pc' \notin {"dispatch", "worker", "sol"}
      PROVE  Paid'
  BY <1>2 DEF Paid, Used
<1>3. CASE Route
  <2>1. UNCHANGED <<contract, spent, attempts, asked>>
    BY <1>3, RouteForms DEF work
  <2>2. \/ pc' = "dispatch" /\ spent < UnitCalls /\ spent < RunCalls
        \/ pc' \notin {"dispatch", "worker", "sol"}
    BY <1>3, RouteForms DEF Exhausted
  <2>. QED
    BY <2>1, <2>2 DEF Paid, Used
<1>4. CASE Dispatch
  <2>1. /\ pc = "dispatch" /\ pc' \in {"worker", "sol", "failed"} /\ spent' = spent + 1
        /\ UNCHANGED <<contract, attempts, asked>>
    BY <1>4 DEF Dispatch, SendImplement, SendRepair, SendSol, Refuse, Throw, setup
  <2>. QED
    BY <1>0, <1>1, <2>1 DEF Paid, Used
<1>5. CASE Worker
  <2>1. /\ pc = "worker" /\ pc' = "route" /\ attempts' = attempts + 1
        /\ UNCHANGED <<contract, spent, asked>>
    BY <1>5 DEF Worker, AcceptAttempt, RejectAttempt, LeavePatch, setup
  <2>2. contract # "REVIEW_REQUIRED"
    BY <1>0, <2>1, WorkDiffers DEF LoopInv, Routed, CheckedFirst, WorkerRoutes, SolRoutes
  <2>3. Used' = Used + 1
    BY <1>0, <2>1 DEF Used, WorkTypes, Calls
  <2>. QED
    BY <1>0, <1>1, <2>1, <2>2, <2>3 DEF Paid
<1>6. CASE Ask
  <2>1. /\ pc = "sol" /\ pc' = "answer" /\ UNCHANGED <<contract, spent, attempts>>
    BY <1>6 DEF Ask, setup
  <2>. QED
    BY <1>0, <1>1, <1>6, <2>1, AskIsUse DEF Paid
<1>7. CASE Sol /\ ~Ask
  BY <1>2, <1>7 DEF Sol, SolFails, Diagnose, CheckContract, PassReview, FailReview, Recheck, Settle,
                    setup, work
<1>8. CASE Ending \/ Fails \/ GiveUp \/ Denied
  BY <1>2, <1>8 DEF Ending, Close, Record, Catch, Finish, Fails, GiveUp, Denied, Settle, Throw, setup, work
<1>. QED
  BY <1>3, <1>4, <1>5, <1>6, <1>7, <1>8 DEF Next, Progress

\* Attempts and asks together stay within both caps of the budget, and a
\* contract that has to be checked is never implemented.
THEOREM BudgetHolds == Spec => []CallsAreBounded
<1>1. Init => Paid
  BY LimitsAssumption DEF Init, Paid, Used, Calls
<1>2. IInv /\ Paid /\ [Next]_vars => Paid'
  <2>. SUFFICES ASSUME IInv, Paid, [Next]_vars PROVE Paid'
    OBVIOUS
  <2>1. CASE UNCHANGED vars
    BY <2>1 DEF vars, setup, work, Paid, Used
  <2>. QED
    BY <2>1, PaidStep
<1>3. Paid => CallsAreBounded
  BY DEF Paid, Used, CallsAreBounded
<1>. QED
  BY Invariant, <1>1, <1>2, <1>3, PTL DEF Spec
-----------------------------------------------------------------------------
(* The end of a unit. *)

\* How far a unit is from its end: the turns it has left, the stages of the
\* turn it is in, and the records it has yet to write.
Measure(place, turn, records) ==
    CASE place = "route"    -> 20 + 5 * (MaxSteps - turn)
      [] place = "dispatch" -> 23 + 5 * (MaxSteps - turn)
      [] place = "worker"   -> 22 + 5 * (MaxSteps - turn)
      [] place = "sol"      -> 22 + 5 * (MaxSteps - turn)
      [] place = "answer"   -> 21 + 5 * (MaxSteps - turn)
      [] place = "close"    -> 10
      [] place = "record"   -> 9 - Len(records)
      [] place = "failed"   -> 2
      [] place = "finish"   -> 1
      [] place = "done"     -> 0

ToGo == Measure(pc, step, written)

\* The measure at each place.
LEMMA Measures ==
    ASSUME NEW n, NEW s
    PROVE  /\ Measure("route", n, s) = 20 + 5 * (MaxSteps - n)
           /\ Measure("dispatch", n, s) = 23 + 5 * (MaxSteps - n)
           /\ Measure("worker", n, s) = 22 + 5 * (MaxSteps - n)
           /\ Measure("sol", n, s) = 22 + 5 * (MaxSteps - n)
           /\ Measure("answer", n, s) = 21 + 5 * (MaxSteps - n)
           /\ Measure("close", n, s) = 10
           /\ Measure("record", n, s) = 9 - Len(s)
           /\ Measure("failed", n, s) = 2
           /\ Measure("finish", n, s) = 1
           /\ Measure("done", n, s) = 0
  BY DEF Measure

\* The longest plan has five records.
LEMMA PlanIsShort == ASSUME TypeOK, EndInv, pc = "record" PROVE Len(written) \in 0 .. 4
<1>. DEFINE l == Len(written)
            m == Len(Plan(disposition))
<1>1. l < m
  BY DEF EndInv, Written
<1>2. m \in {2, 4, 5}
  BY PlanType DEF TypeOK, Dispositions
<1>3. l \in Nat
  BY DEF TypeOK
<1>. HIDE DEF l, m
<1>4. l \in 0 .. 4
  BY <1>1, <1>2, <1>3
<1>. QED
  BY <1>4 DEF l

\* What the measure is while records are written.
LEMMA NineLess == ASSUME NEW l \in 0 .. 4 PROVE 9 - l \in 5 .. 9 /\ 9 - (l + 1) = (9 - l) - 1
  OBVIOUS

\* What is left is a natural number.
LEMMA LeftIsNat == ASSUME TypeOK, EndInv PROVE ToGo \in Nat
<1>1. step \in 0 .. MaxSteps /\ MaxSteps \in Nat
  BY LimitsAssumption DEF TypeOK
<1>2. CASE pc = "record"
  <2>1. Len(written) \in 0 .. 4
    BY <1>2, PlanIsShort
  <2>2. ToGo = 9 - Len(written)
    BY <1>2, Measures DEF ToGo
  <2>. QED
    BY <2>1, <2>2
<1>3. CASE pc # "record"
  BY <1>1, <1>3, Measures DEF ToGo, TypeOK
<1>. QED
  BY <1>2, <1>3

\* Every step but those that change nothing brings the unit nearer its end.
LEMMA LessToGo == ASSUME TypeOK, EndInv, Next PROVE ToGo' < ToGo
<1>1. step \in 0 .. MaxSteps /\ MaxSteps \in Nat /\ ToGo \in Nat
  BY LimitsAssumption, LeftIsNat DEF TypeOK
<1>2. /\ pc = "route" => ToGo = 20 + 5 * (MaxSteps - step)
      /\ pc = "dispatch" => ToGo = 23 + 5 * (MaxSteps - step)
      /\ pc \in {"worker", "sol"} => ToGo = 22 + 5 * (MaxSteps - step)
      /\ pc = "answer" => ToGo = 21 + 5 * (MaxSteps - step)
      /\ pc = "close" => ToGo = 10
      /\ pc = "record" => ToGo = 9 - Len(written)
      /\ pc = "failed" => ToGo = 2
      /\ pc = "finish" => ToGo = 1
  BY Measures DEF ToGo
<1>n. /\ pc' = "route" => ToGo' = 20 + 5 * (MaxSteps - step')
      /\ pc' = "dispatch" => ToGo' = 23 + 5 * (MaxSteps - step')
      /\ pc' \in {"worker", "sol"} => ToGo' = 22 + 5 * (MaxSteps - step')
      /\ pc' = "answer" => ToGo' = 21 + 5 * (MaxSteps - step')
      /\ pc' = "close" => ToGo' = 10
      /\ pc' = "record" => ToGo' = 9 - Len(written')
      /\ pc' = "failed" => ToGo' = 2
      /\ pc' = "finish" => ToGo' = 1
      /\ pc' = "done" => ToGo' = 0
  BY Measures DEF ToGo
<1>3. CASE Route
  <2>1. pc = "route" /\ step < MaxSteps /\ step' = step + 1 /\ pc' \in {"close", "dispatch", "failed"}
    BY <1>3 DEF Route, RouteToEnd, RouteToWork, RouteThrows, Settle, Throw
  <2>. QED
    BY <1>1, <1>2, <2>1, <1>n
<1>4. CASE GiveUp \/ Denied \/ SolFails \/ CheckContract
  <2>1. pc \in {"route", "dispatch", "sol", "answer"} /\ pc' = "close"
    BY <1>4 DEF GiveUp, Denied, SolFails, CheckContract, Settle
  <2>. QED
    BY <1>1, <1>2, <2>1, <1>n
<1>5. CASE Dispatch
  <2>1. pc = "dispatch" /\ step' = step /\ pc' \in {"worker", "sol", "failed"}
    BY <1>5 DEF Dispatch, SendImplement, SendRepair, SendSol, Refuse, Throw
  <2>. QED
    BY <1>1, <1>2, <2>1, <1>n
<1>6. CASE Ask
  <2>1. pc = "sol" /\ step' = step /\ pc' = "answer"
    BY <1>6 DEF Ask
  <2>. QED
    BY <1>1, <1>2, <2>1, <1>n
<1>7. CASE \/ Worker \/ Diagnose \/ PassReview
           \/ \E fresh \in SUBSET Findings, selected \in Findings, ref \in [Findings -> Refs] :
                 FailReview(fresh, selected, ref)
           \/ \E resolved \in BOOLEAN : Recheck(resolved)
  <2>1. pc \in {"worker", "answer"} /\ step' = step /\ pc' = "route"
    BY <1>7 DEF Worker, AcceptAttempt, RejectAttempt, Diagnose, PassReview, FailReview, Recheck
  <2>. QED
    BY <1>1, <1>2, <2>1, <1>n
<1>8. CASE \E clean \in BOOLEAN : Close(clean)
  <2>1. pc = "close" /\ pc' = "record" /\ written' = written /\ written = <<>>
    BY <1>8 DEF Close, EndInv, Written
  <2>. QED
    BY <1>2, <2>1, <1>n
<1>9. CASE Record
  <2>1. pc = "record" /\ pc' \in {"finish", "record"} /\ Len(written') = Len(written) + 1
    BY <1>9 DEF Record, TypeOK
  <2>2. Len(written) \in 0 .. 4
    BY <2>1, PlanIsShort
  <2>3. ToGo = 9 - Len(written)
    BY <1>2, <2>1, <1>n
  <2>4. ToGo' = 1 \/ ToGo' = 9 - Len(written')
    BY <1>2, <2>1, <1>n
  <2>5. ToGo \in 5 .. 9
    BY <2>2, <2>3, NineLess
  <2>6. 9 - Len(written') = ToGo - 1
    BY <2>1, <2>2, <2>3, NineLess
  <2>. QED
    BY <2>4, <2>5, <2>6
<1>10. CASE \/ \E saved \in BOOLEAN : Catch(saved)
            \/ \E outcome \in {"COMPLETED", "INCOMPLETE_LEDGER"} : Finish(outcome)
  <2>1. \/ pc = "failed" /\ pc' = "finish"
        \/ pc = "finish" /\ pc' = "done"
    BY <1>10 DEF Catch, Finish
  <2>. QED
    BY <1>2, <2>1, <1>n
<1>11. CASE Fails
  <2>1. pc \in {"route", "dispatch", "worker", "sol", "answer", "close", "record"} /\ pc' = "failed"
    BY <1>11 DEF Fails, Throw
  <2>2. ToGo' = 2
    BY <1>2, <2>1, <1>n
  <2>3. CASE pc = "record"
    <3>1. Len(written) \in 0 .. 4
      BY <2>3, PlanIsShort
    <3>2. ToGo = 9 - Len(written)
      BY <1>2, <2>3, <1>n
    <3>3. ToGo \in 5 .. 9
      BY <3>1, <3>2, NineLess
    <3>. QED
      BY <2>2, <3>3
  <2>4. CASE pc # "record"
    BY <1>1, <1>2, <2>1, <2>2, <2>4, <1>n
  <2>. QED
    BY <2>3, <2>4
<1>. QED
  BY <1>3, <1>4, <1>5, <1>6, <1>7, <1>8, <1>9, <1>10, <1>11 DEF Next, Progress, Sol, Ending

(* No loop of the controller circles: every step, of a unit that fails or  *)
(* succeeds, leaves less to do than there was, so a unit takes at most     *)
(* 20 + 5 * MaxSteps of them.  What UnitEnds needs besides is that a step  *)
(* is taken while the unit has not ended.                                  *)
THEOREM UnitWindsDown == Spec => [](ToGo \in Nat) /\ [][ToGo' < ToGo]_vars
<1>1. IInv => ToGo \in Nat
  BY LeftIsNat DEF IInv
<1>2. IInv /\ [Next]_vars => [ToGo' < ToGo]_vars
  BY LessToGo DEF IInv
<1>. QED
  BY Invariant, <1>1, <1>2, PTL DEF Spec
=============================================================================
