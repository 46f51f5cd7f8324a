----------------------------- MODULE Controller -----------------------------
(***************************************************************************)
(* One work unit: the loop of runController in src/src/controller/         *)
(* orchestrator.mjs.  It routes, spends a call, lets a worker or SOL work, *)
(* turns what came back into facts for the next route, and at the end      *)
(* records a disposition, perhaps a candidate, and finalizes the run.      *)
(*                                                                         *)
(* Workers, SOL, the providers, the cleanup sweep and the disk are the     *)
(* environment: every outcome the code distinguishes is a choice.  Patches *)
(* are numbered by the attempt that left them; 0 is no patch.              *)
(***************************************************************************)
EXTENDS Routing, Sequences

CONSTANTS
    FirstRef,       \* the contract's first side-effect criterion
    Contracts,      \* kinds of contract the project may configure
    UnitCalls,      \* budgets.unitCalls
    RunCalls,       \* budgets.runCalls
    MaxSteps        \* MAX_CONTROLLER_STEPS

ASSUME FirstRefAssumption == FirstRef \in Refs
ASSUME ContractsAssumption == Contracts \subseteq {"LOW_RISK", "HIGH_RISK", "REVIEW_REQUIRED"}
ASSUME LimitsAssumption == UnitCalls \in Nat /\ RunCalls \in Nat /\ MaxSteps \in Nat

VARIABLES
    pc,             \* where the controller is
    contract,       \* the compiled contract of the run
    seam,           \* a test seam is in use: the run is not authoritative
    step,           \* turns of the loop
    spent,          \* calls the budget tracker consumed
    state,          \* escalation state
    route,          \* the decision being carried out
    accepted, rejection, failed, credible, diagnosed, review, findings, active,
    repairs,        \* targeted repairs dispatched
    bound,          \* repairBinding and repairContract belong to the active finding
    attempts,       \* worker attempts that returned
    patch,          \* patchRecord: the attempt it is from, and what was made of it
    asked,          \* compiled SOL asks per call type
    ask,            \* the patch the last ask is about
    disposition,    \* finalDisposition
    error,          \* why the try block was left, if it threw
    written,        \* terminal records on disk, in order
    lifecycle       \* what finalize said

facts == <<accepted, rejection, failed, credible, diagnosed, review, findings, active>>
work == <<repairs, bound, attempts, patch, asked, ask>>
setup == <<contract, seam>>
ending == <<disposition, error, written, lifecycle>>
vars == <<pc, setup, step, spent, state, route, facts, work, ending>>

Calls == {"ROUTE_SOL_CONTRACT_CHECK", "ROUTE_SOL_DIAGNOSE", "ROUTE_SOL_FINAL_REVIEW",
          "ROUTE_SOL_RECHECK"}
Approvals == {"SEMANTICALLY_ACCEPTED", "REVIEW_APPROVED"}

NoPatch == [id |-> 0, valid |-> FALSE, accepted |-> FALSE]
NoReview == [verdict |-> "NONE", ids |-> {}]
Absent(r) == [status |-> "NONE", origin |-> "NONE", cycles |-> 0, rechecks |-> 0, ref |-> r]

Exhausted == ~(spent < UnitCalls /\ spent < RunCalls)

\* routeContext
Context == [state |-> state, exhausted |-> Exhausted, contract |-> contract,
            observed |-> FALSE, escalation |-> "NONE", accepted |-> accepted,
            rejection |-> rejection, failed |-> failed, credible |-> credible,
            diagnosed |-> diagnosed, review |-> review, findings |-> findings,
            active |-> active]

OpenFindings == {f \in Findings : findings[f].status = "OPEN"}

Init ==
    /\ pc = "route"
    /\ contract \in Contracts
    /\ seam \in BOOLEAN
    /\ step = 0
    /\ spent = 0
    /\ state = "ROUTING_READY"
    /\ route = Thrown
    /\ accepted = FALSE
    /\ rejection = "NONE"
    /\ failed = [r \in Criteria |-> 0]
    /\ credible = "NONE"
    /\ diagnosed = FALSE
    /\ review = NoReview
    /\ findings = [f \in Findings |-> Absent(FirstRef)]
    /\ active = NoFinding
    /\ repairs = 0
    /\ bound = FALSE
    /\ attempts = 0
    /\ patch = NoPatch
    /\ asked = [c \in Calls |-> 0]
    /\ ask = 0
    /\ disposition = "REJECTED"
    /\ error = "NONE"
    /\ written = <<>>
    /\ lifecycle = "NONE"

--------------------------------------------------------------------------
(* Routing *)

\* Leave the loop with a disposition
Settle(d) == /\ pc' = "close"
             /\ disposition' = d
             /\ UNCHANGED <<error, written, lifecycle>>

\* Leave the try block
Throw(e) == /\ pc' = "failed"
            /\ error' = e
            /\ UNCHANGED <<disposition, written, lifecycle>>

Verdict == IF OpenFindings # {} THEN "REJECTED"
           ELSE IF contract = "LOW_RISK" THEN "SEMANTICALLY_ACCEPTED"
           ELSE "REVIEW_APPROVED"

\* A decision that ends the unit
RouteToEnd(r) ==
    /\ r.decision \in {"ROUTE_COMPLETE", "STOP_BUDGET", "STOP_STUCK", "FAIL_NO_SUBSTITUTE"}
    /\ Settle(IF r.decision = "ROUTE_COMPLETE" THEN Verdict ELSE "REJECTED")
    /\ UNCHANGED state

\* A decision to be carried out
RouteToWork(r) ==
    /\ r.role \in {"IMPLEMENT", "REPAIR", "SOL"}
    /\ pc' = "dispatch"
    /\ state' = r.next
    /\ UNCHANGED ending

RouteThrows(r) ==
    /\ r = Thrown
    /\ Throw("ROUTING")
    /\ UNCHANGED state

Route ==
    /\ pc = "route"
    /\ step < MaxSteps
    /\ step' = step + 1
    /\ \E r \in Routes(Context) :
          /\ route' = r
          /\ RouteToEnd(r) \/ RouteToWork(r) \/ RouteThrows(r)
    /\ UNCHANGED <<setup, spent, facts, work>>

\* Faulty: the bound on the turns is off by one, and no turn is left to take
GiveUpLate ==
    /\ pc = "route"
    /\ step > MaxSteps
    /\ Settle(disposition)
    /\ UNCHANGED <<setup, step, spent, state, route, facts, work>>

\* The loop has made its last turn: the initial disposition stands
GiveUp ==
    /\ pc = "route"
    /\ step = MaxSteps
    /\ Settle(disposition)
    /\ UNCHANGED <<setup, step, spent, state, route, facts, work>>

--------------------------------------------------------------------------
(* Dispatch *)

\* External provider permission was not granted
Denied ==
    /\ pc = "dispatch"
    /\ Settle("REJECTED")
    /\ UNCHANGED <<setup, step, spent, state, route, facts, work>>

SendImplement ==
    /\ route.role = "IMPLEMENT"
    /\ pc' = "worker"
    /\ UNCHANGED <<facts, repairs, bound, ending>>

\* Faulty: the finding taken up does not become the active one
SendRepairUnbound(f) ==
    /\ route.role = "REPAIR"
    /\ findings[f].status = "OPEN"
    /\ IF active = NoFinding THEN findings[f].cycles = 0 ELSE f = active /\ bound
    /\ findings' = [findings EXCEPT ![f].cycles = @ + 1]
    /\ repairs' = repairs + 1
    /\ bound' = TRUE
    /\ pc' = "worker"
    /\ UNCHANGED <<accepted, rejection, failed, credible, diagnosed, review, active, ending>>

\* A repair works on the active finding, or takes up one not yet repaired and
\* binds it
SendRepair(f) ==
    /\ route.role = "REPAIR"
    /\ findings[f].status = "OPEN"
    /\ IF active = NoFinding THEN findings[f].cycles = 0 ELSE f = active /\ bound
    /\ active' = f
    /\ findings' = [findings EXCEPT ![f].cycles = @ + 1]
    /\ repairs' = repairs + 1
    /\ bound' = TRUE
    /\ pc' = "worker"
    /\ UNCHANGED <<accepted, rejection, failed, credible, diagnosed, review, ending>>

\* A recheck is bound to the active finding
SendSol ==
    /\ route.role = "SOL"
    /\ route.decision = "ROUTE_SOL_RECHECK" => active \in OpenFindings
    /\ pc' = "sol"
    /\ UNCHANGED <<facts, repairs, bound, ending>>

\* A repair without a finding to bind, or a recheck without the active one
Refuse ==
    /\ \/ /\ route.role = "REPAIR"
          /\ IF active = NoFinding THEN \A f \in OpenFindings : findings[f].cycles # 0
                                   ELSE active \notin OpenFindings \/ ~bound
       \/ route.decision = "ROUTE_SOL_RECHECK" /\ active \notin OpenFindings
    /\ Throw("SOL_ASK_INVALID")
    /\ UNCHANGED <<facts, repairs, bound>>

\* budget.consume() comes before the binding is checked
Dispatch ==
    /\ pc = "dispatch"
    /\ spent' = spent + 1
    /\ \/ SendImplement
       \/ \E f \in Findings : SendRepair(f)
       \/ SendSol
       \/ Refuse
    /\ UNCHANGED <<setup, step, state, route, attempts, patch, asked, ask>>

--------------------------------------------------------------------------
(* Worker *)

\* executeWorkerAttempt kept patch evidence, which need not be valid
LeavePatch(recorded, valid, acceptedPatch) ==
    /\ attempts' = attempts + 1
    /\ IF recorded
       THEN patch' = [id |-> attempts + 1, valid |-> valid, accepted |-> acceptedPatch]
       ELSE UNCHANGED patch

AcceptAttempt ==
    /\ pc = "worker"
    /\ LeavePatch(TRUE, TRUE, TRUE)
    /\ accepted' = TRUE
    /\ rejection' = "NONE"
    /\ pc' = "route"
    /\ UNCHANGED <<setup, step, spent, state, route, failed, credible, diagnosed, review,
                   findings, active, repairs, bound, asked, ask, ending>>

\* code: SEMANTIC_REJECTION_CODES, or one of the others
RejectAttempt(recorded, valid, transport, code) ==
    /\ pc = "worker"
    /\ valid => recorded
    /\ LeavePatch(recorded, valid, FALSE)
    /\ accepted' = FALSE
    /\ rejection' = code
    /\ failed' = [failed EXCEPT ![FirstRef] = @ + 1]
    /\ credible' = IF valid /\ transport THEN "YES" ELSE "NO"
    /\ pc' = "route"
    /\ UNCHANGED <<setup, step, spent, state, route, diagnosed, review, findings, active,
                   repairs, bound, asked, ask, ending>>

--------------------------------------------------------------------------
(* SOL *)

\* makeSolAsk: the facts are those of patchRecord
Ask ==
    /\ pc = "sol"
    /\ asked' = [asked EXCEPT ![route.decision] = @ + 1]
    /\ ask' = patch.id
    /\ pc' = "answer"
    /\ UNCHANGED <<setup, step, spent, state, route, facts, repairs, bound, attempts, patch,
                   ending>>

\* No ask could be compiled, the transport failed, or the response was refused
SolFails ==
    /\ pc \in {"sol", "answer"}
    /\ Settle("REJECTED")
    /\ UNCHANGED <<setup, step, spent, state, route, facts, work>>

\* CAUSE_IDENTIFIED makes way for one more implementation; its repair contract
\* takes the place of any other
Diagnose ==
    /\ pc = "answer"
    /\ route.decision = "ROUTE_SOL_DIAGNOSE"
    /\ diagnosed' = TRUE
    /\ accepted' = FALSE
    /\ rejection' = "NONE"
    /\ bound' = FALSE
    /\ pc' = "route"
    /\ UNCHANGED <<setup, step, spent, state, route, failed, credible, review, findings,
                   active, repairs, attempts, patch, asked, ask,
                   ending>>

CheckContract ==
    /\ pc = "answer"
    /\ route.decision = "ROUTE_SOL_CONTRACT_CHECK"
    /\ Settle("REVIEW_REQUIRED")
    /\ UNCHANGED <<setup, step, spent, state, route, facts, work>>

PassReview ==
    /\ pc = "answer"
    /\ route.decision = "ROUTE_SOL_FINAL_REVIEW"
    /\ review' = [verdict |-> "PASSED", ids |-> {}]
    /\ accepted' = TRUE
    /\ pc' = "route"
    /\ UNCHANGED <<setup, step, spent, state, route, rejection, failed, credible, diagnosed,
                   findings, active, work, ending>>

\* Faulty: the bound finding counts as repaired before a repair was sent
FailReviewRepaired(fresh, selected, ref) ==
    /\ pc = "answer"
    /\ route.decision = "ROUTE_SOL_FINAL_REVIEW"
    /\ selected \in fresh
    /\ \A f \in fresh : findings[f].status = "NONE"
    /\ findings' = [f \in Findings |->
                        IF f \in fresh
                        THEN [Absent(ref[f]) EXCEPT !.status = "OPEN", !.origin = "FINAL_REVIEW",
                                                    !.cycles = 1]
                        ELSE findings[f]]
    /\ active' = selected
    /\ bound' = TRUE
    /\ review' = [verdict |-> "FINDING", ids |-> fresh]
    /\ accepted' = FALSE
    /\ failed' = [failed EXCEPT ![NoRef] = @ + 1]
    /\ credible' = "YES"
    /\ pc' = "route"
    /\ UNCHANGED <<setup, step, spent, state, route, rejection, diagnosed,
                   repairs, attempts, patch, asked, ask, ending>>

\* The findings of a FAIL become open records; the first is bound to a repair.
\* The binding ticket of a checklist finding has no lockedRequirementRef: the
\* failure is counted, but against no criterion of the contract
FailReview(fresh, selected, ref) ==
    /\ pc = "answer"
    /\ route.decision = "ROUTE_SOL_FINAL_REVIEW"
    /\ selected \in fresh
    /\ \A f \in fresh : findings[f].status = "NONE"
    /\ findings' = [f \in Findings |->
                        IF f \in fresh
                        THEN [Absent(ref[f]) EXCEPT !.status = "OPEN", !.origin = "FINAL_REVIEW"]
                        ELSE findings[f]]
    /\ active' = selected
    /\ bound' = TRUE
    /\ review' = [verdict |-> "FINDING", ids |-> fresh]
    /\ accepted' = FALSE
    /\ failed' = [failed EXCEPT ![NoRef] = @ + 1]
    /\ credible' = "YES"
    /\ pc' = "route"
    /\ UNCHANGED <<setup, step, spent, state, route, rejection, diagnosed,
                   repairs, attempts, patch, asked, ask, ending>>

\* Faulty: a resolved finding stays the active one
RecheckKeepsActive(resolved) ==
    /\ pc = "answer"
    /\ route.decision = "ROUTE_SOL_RECHECK"
    /\ findings' = [findings EXCEPT ![active].rechecks = @ + 1,
                                    ![active].status = IF resolved THEN "CLOSED" ELSE @]
    /\ review' = [verdict |-> IF resolved THEN "PASSED" ELSE "FINDING", ids |-> {active}]
    /\ accepted' = resolved
    /\ bound' = (bound /\ ~resolved)
    /\ pc' = "route"
    /\ UNCHANGED <<setup, step, spent, state, route, rejection, failed, credible, diagnosed,
                   active, repairs, attempts, patch, asked, ask,
                   ending>>

\* The active finding is closed or has survived; new findings are written to
\* findings.jsonl, and to no variable of the loop
Recheck(resolved) ==
    /\ pc = "answer"
    /\ route.decision = "ROUTE_SOL_RECHECK"
    /\ findings' = [findings EXCEPT ![active].rechecks = @ + 1,
                                    ![active].status = IF resolved THEN "CLOSED" ELSE @]
    /\ review' = [verdict |-> IF resolved THEN "PASSED" ELSE "FINDING", ids |-> {active}]
    /\ accepted' = resolved
    /\ bound' = (bound /\ ~resolved)
    /\ active' = IF resolved THEN NoFinding ELSE active
    /\ pc' = "route"
    /\ UNCHANGED <<setup, step, spent, state, route, rejection, failed, credible, diagnosed,
                   repairs, attempts, patch, asked, ask, ending>>

--------------------------------------------------------------------------
(* The end *)

\* Faulty: a run with a test seam keeps its approval
CloseWithSeam(clean) ==
    /\ pc = "close"
    /\ disposition' = IF \/ ~clean
                         \/ disposition \in Approvals /\ OpenFindings # {}
                      THEN "REJECTED" ELSE disposition
    /\ pc' = "record"
    /\ UNCHANGED <<setup, step, spent, state, route, facts, work, error, written, lifecycle>>

\* Test seam, credential store and transport sweep, open findings: each turns
\* an approval into a rejection before anything is recorded
Close(clean) ==
    /\ pc = "close"
    /\ disposition' = IF \/ ~clean
                         \/ disposition = "REVIEW_APPROVED" /\ seam
                         \/ disposition \in Approvals /\ OpenFindings # {}
                      THEN "REJECTED" ELSE disposition
    /\ pc' = "record"
    /\ UNCHANGED <<setup, step, spent, state, route, facts, work, error, written, lifecycle>>

Plan(d) ==
    CASE d = "SEMANTICALLY_ACCEPTED" ->
            <<"PATCH_VALID", "SEMANTICALLY_ACCEPTED", "candidate", "unit">>
      [] d = "REVIEW_APPROVED" ->
            <<"PATCH_VALID", "SEMANTICALLY_ACCEPTED", "candidate", "REVIEW_APPROVED", "unit">>
      [] OTHER -> <<d, "unit">>

Record ==
    /\ pc = "record"
    /\ Len(written) < Len(Plan(disposition))
    /\ written' = Append(written, Plan(disposition)[Len(written) + 1])
    /\ pc' = IF Len(written) + 1 = Len(Plan(disposition)) THEN "finish" ELSE "record"
    /\ UNCHANGED <<setup, step, spent, state, route, facts, work, disposition, error, lifecycle>>

\* Anything else in the try block may throw: the worktree, an attempt, a write
Fails ==
    /\ pc \in {"route", "dispatch", "worker", "sol", "answer", "close", "record"}
    /\ Throw("IO")
    /\ UNCHANGED <<setup, step, spent, state, route, facts, work>>

\* Faulty: the disposition of a unit that threw stands
CatchForgets(saved) ==
    /\ pc = "failed"
    /\ written' = IF saved THEN Append(written, "REJECTED") ELSE written
    /\ pc' = "finish"
    /\ UNCHANGED <<setup, step, spent, state, route, facts, work, disposition, error, lifecycle>>

\* The catch block; its own write may fail too
Catch(saved) ==
    /\ pc = "failed"
    /\ disposition' = "REJECTED"
    /\ written' = IF saved THEN Append(written, "REJECTED") ELSE written
    /\ pc' = "finish"
    /\ UNCHANGED <<setup, step, spent, state, route, facts, work, error, lifecycle>>

\* The sweep and RunStore.finalize, after which the result is reported
Finish(outcome) ==
    /\ pc = "finish"
    /\ lifecycle' = outcome
    /\ pc' = "done"
    /\ UNCHANGED <<setup, step, spent, state, route, facts, work, disposition, error, written>>

Worker == \/ AcceptAttempt
          \/ \E recorded, valid, transport \in BOOLEAN, code \in {"SEMANTIC", "OTHER"} :
                RejectAttempt(recorded, valid, transport, code)

Sol == \/ Ask \/ SolFails \/ Diagnose \/ CheckContract \/ PassReview
       \/ \E fresh \in SUBSET Findings, selected \in Findings, ref \in [Findings -> Refs] :
             FailReview(fresh, selected, ref)
       \/ \E resolved \in BOOLEAN : Recheck(resolved)

Ending == \/ \E clean \in BOOLEAN : Close(clean)
          \/ Record
          \/ \E saved \in BOOLEAN : Catch(saved)
          \/ \E outcome \in {"COMPLETED", "INCOMPLETE_LEDGER"} : Finish(outcome)

Progress == Route \/ GiveUp \/ Denied \/ Dispatch \/ Worker \/ Sol \/ Ending

Next == Progress \/ Fails

Spec == Init /\ [][Next]_vars

\* Nothing else runs in the process, and every await of the loop has a timeout
\* or ends with its process; that anything throws is never relied on.
FairSpec == Spec /\ WF_vars(Progress)

--------------------------------------------------------------------------
(* Properties *)

FindingRecord == [status : {"NONE", "OPEN", "CLOSED"}, origin : {"NONE", "FINAL_REVIEW"},
                  cycles : Nat, rechecks : Nat, ref : Refs]

RouteRecord == [decision : {"ROUTE_IMPLEMENT_FLASH", "ROUTE_IMPLEMENT_FLASH_MAX",
                            "ROUTE_IMPLEMENT_PRO_MAX", "ROUTE_COMPLETE", "STOP_STUCK", "STOP_BUDGET",
                            "FAIL_NO_SUBSTITUTE", "THROWN"} \cup Calls,
                role : {"IMPLEMENT", "REPAIR", "SOL", "NONE"}, next : States \cup {"NONE"}]

Recorded(kind) == \E n \in 1 .. Len(written) : written[n] = kind

\* A finding whose one repair has been sent and awaits its recheck
UnderRepair(f) == /\ findings[f].status = "OPEN"
                  /\ findings[f].cycles >= 1
                  /\ findings[f].rechecks = 0

TypeOK ==
    /\ pc \in {"route", "dispatch", "worker", "sol", "answer", "close", "record", "failed",
               "finish", "done"}
    /\ contract \in Contracts /\ seam \in BOOLEAN
    /\ step \in 0 .. MaxSteps /\ spent \in Nat
    /\ state \in States
    /\ route \in RouteRecord
    /\ accepted \in BOOLEAN /\ rejection \in {"NONE", "SEMANTIC", "OTHER"}
    /\ failed \in [Criteria -> Nat] /\ credible \in {"NONE", "YES", "NO"}
    /\ diagnosed \in BOOLEAN
    /\ review \in [verdict : {"NONE", "PASSED", "FINDING"}, ids : SUBSET Findings]
    /\ findings \in [Findings -> FindingRecord] /\ active \in Findings \cup {NoFinding}
    /\ repairs \in Nat /\ bound \in BOOLEAN /\ attempts \in Nat
    /\ patch \in [id : Nat, valid : BOOLEAN, accepted : BOOLEAN]
    /\ asked \in [Calls -> Nat] /\ ask \in Nat
    /\ disposition \in Approvals \cup {"REJECTED", "REVIEW_REQUIRED"}
    /\ error \in {"NONE", "ROUTING", "SOL_ASK_INVALID", "IO"}
    /\ written \in Seq(Approvals \cup {"REJECTED", "REVIEW_REQUIRED", "PATCH_VALID",
                                      "candidate", "unit"})
    /\ lifecycle \in {"NONE", "COMPLETED", "INCOMPLETE_LEDGER"}

\* However the unit went, REVIEW_APPROVED reaches the disk only for a contract
\* of high risk that had its final review, outside a test seam, and when every
\* finding ever raised was repaired once, rechecked once and closed.
ApprovalIsEarned ==
    Recorded("REVIEW_APPROVED") =>
        /\ contract = "HIGH_RISK" /\ ~seam
        /\ asked["ROUTE_SOL_FINAL_REVIEW"] = 1
        /\ \A f \in Findings : findings[f].status # "NONE" =>
              findings[f].status = "CLOSED" /\ findings[f].cycles = 1 /\ findings[f].rechecks = 1

\* Defects are repaired one at a time, each at most once, and each repair is
\* rechecked at most once; the one under repair is the active one.
OneRepairAtATime ==
    \A f \in Findings :
        /\ findings[f].rechecks <= findings[f].cycles /\ findings[f].cycles <= 1
        /\ UnderRepair(f) => f = active

\* SOL is asked for one diagnosis and one final review at most, and for a
\* recheck only after a repair: an unlucky worker cannot make the loop circle.
SolIsAskedOnce ==
    /\ asked["ROUTE_SOL_DIAGNOSE"] <= 1
    /\ asked["ROUTE_SOL_FINAL_REVIEW"] <= 1
    /\ asked["ROUTE_SOL_RECHECK"] <= repairs

\* The last thing SOL was asked about before a high-risk candidate is recorded
\* is the very patch the candidate records.
CandidateWasReviewed ==
    Recorded("candidate") /\ contract = "HIGH_RISK" => ask = patch.id /\ patch.id # 0

\* A contract with unresolved high-risk semantics is never implemented, and the
\* budget's hard caps bound the attempts and the asks together.
CallsAreBounded ==
    /\ contract = "REVIEW_REQUIRED" => attempts = 0
    /\ spent <= UnitCalls /\ spent <= RunCalls
    /\ attempts + asked["ROUTE_SOL_CONTRACT_CHECK"] + asked["ROUTE_SOL_DIAGNOSE"]
         + asked["ROUTE_SOL_FINAL_REVIEW"] + asked["ROUTE_SOL_RECHECK"] <= spent

\* runController answers ok only when every record of the approval is on disk,
\* none of a rejection is, and the run was finalized.
OkIsOnDisk ==
    pc = "done" /\ disposition \in Approvals /\ lifecycle # "INCOMPLETE_LEDGER" =>
        error = "NONE" /\ written = Plan(disposition)

\* The policy never sends a recheck, and after the final review never a repair,
\* that the controller then has to refuse for want of a finding.
SentWorkIsBound ==
    error = "SOL_ASK_INVALID" => asked["ROUTE_SOL_FINAL_REVIEW"] = 0 /\ route.role = "REPAIR"

\* Every unit ends, whatever workers, SOL and the disk do.
UnitEnds == <>(pc = "done")

\* How far the repair of a finding is
Stage(f) == CASE findings[f].status = "NONE" -> "none"
              [] findings[f].status = "CLOSED" -> "closed"
              [] findings[f].status = "OPEN" /\ findings[f].cycles = 0 -> "open"
              [] UnderRepair(f) -> "repair"
              [] OTHER -> "survived"

\* The controller implements the promise of the final review.
Promise == INSTANCE FindingReview WITH
    stage <- [f \in Findings |-> Stage(f)],
    offered <- Recorded("candidate")

\* Every behaviour of the controller, seen as the stages of its findings and
\* the candidate on record, is one FindingReview allows.
KeepsPromise == Promise!Spec

--------------------------------------------------------------------------
(* What the documents say, and the code does not do *)

\* docs: a patch that failed its validation is never taken for a valid one.
ValidPatchesOnly == Recorded("PATCH_VALID") => patch.valid
=============================================================================
