----------------------------- MODULE SolAttempt -----------------------------
(***************************************************************************)
(* The SOL invocations of one run, executeSolAttempt of src/src/           *)
(* controller/orchestrator.mjs, over the surfaces of SolTransport: spawn,  *)
(* quiescence, observation, cleanup, gate, proof, and only then parsing,   *)
(* the response and its acceptance; and the end of the run, by the         *)
(* controller or by an operator.                                           *)
(***************************************************************************)
EXTENDS SolTransport

CONSTANT NoInv      \* no invocation

ASSUME NoInvAssumption == NoInv \notin Invs

VARIABLES
    attempt,        \* the invocation in progress; good: nothing seen so far speaks against it
    proof,          \* evidence/<id>.json: "none", "torn", "failed" or "passed" (the gate)
    response,       \* invocations whose compiled response is on disk
    semantic,       \* invocations whose semantic acceptance is on disk
    ledger          \* where the lifecycle of each invocation is in the ledger

records == <<proof, response, semantic, ledger>>
transportVars == <<run, surfaces, pi, holder, pc, again, recollection, crashes>>
vars == <<transportVars, attempt, records>>

Attempts == [inv : Invs \cup {NoInv}, quiet : {"unknown", "verified", "unverified"},
             good : BOOLEAN, clean : BOOLEAN, passed : BOOLEAN,
             next : {"cleaned", "complete", "failed"}]
Fresh(i) == [inv |-> i, quiet |-> "unknown", good |-> FALSE, clean |-> FALSE,
             passed |-> FALSE, next |-> "cleaned"]
This == attempt.inv
Note(field, value) == attempt' = [attempt EXCEPT ![field] = value]
At(place) == pc[Controller] = place
Step(from, to) == At(from) /\ Goto(Controller, to)
Outside == UNCHANGED <<run, surfaces, pi, holder, again, recollection, crashes>>

Init == /\ InitTransport
        /\ attempt = Fresh(NoInv)
        /\ proof = [i \in Invs |-> "none"]
        /\ response = {}
        /\ semantic = {}
        /\ ledger = [i \in Invs |-> "none"]

\* An append to the ledger enters and leaves the lock, and is refused on a closed run.
Appendable == holder = None /\ run = "OPEN"
Append(i, event) == Appendable /\ ledger' = [ledger EXCEPT ![i] = event]
AppendRefused == (holder = None /\ run # "OPEN") \/ Fault("ledger")

-----------------------------------------------------------------------------
(* From the ask to the end of the process. *)

Begin(i) == /\ Step("idle", IF memory = "none" THEN "acquire" ELSE "prepare")
            /\ ledger[i] = "none"
            /\ Append(i, "STARTED")
            /\ attempt' = Fresh(i)
            /\ Outside /\ UNCHANGED <<proof, response, semantic>>

\* The end of the loop, or an exception that reaches the finally block of the run.
Finish == /\ Step("idle", "closing")
          /\ Outside /\ UNCHANGED <<attempt, records>>

Abandon == /\ At("idle") \/ At("complete") \/ At("assess")
           /\ AppendRefused
           /\ Goto(Controller, "closing")
           /\ again' = [again EXCEPT ![Controller] = TRUE]
           /\ UNCHANGED <<run, surfaces, pi, holder, recollection, crashes, attempt, records>>

SpawnRefused == /\ Step("prepared", "settled")
                /\ Outside /\ UNCHANGED <<attempt, records>>

\* The call settles by exit, error, timeout or SIGKILL; other processes of the group may live.
Settle == /\ Step("running", "settled")
          /\ \E good \in BOOLEAN : Note("good", good)
          /\ Outside /\ UNCHANGED records

\* What the supervisor proves: no process of the invocation is left.
Quiet == /\ pi' = Killed({This})
         /\ transports' = [transports EXCEPT ![This] = IF @ = "spawned" THEN "absent" ELSE @]
         /\ Note("quiet", "verified")
         /\ UNCHANGED <<run, surfaces, holder, again, memory, crashes, records>>

Unquiet == /\ Fault("unverified")
           /\ pi' \in {pi, Killed({This})}
           /\ Note("quiet", "unverified")
           /\ UNCHANGED <<run, surfaces, holder, again, recollection, crashes, records>>

Quiesce == Step("settled", "quiet") /\ Quiet
QuiesceUnrecorded == Fault("evidence") /\ Step("settled", "caught") /\ Quiet
QuiesceFails == Step("settled", "unquiet") /\ Unquiet

\* complete(FAILURE) and assess(REJECTED), then the exception.
RejectUnquiet == /\ Step("unquiet", "caught")
                 /\ \/ Append(This, "REJECTED")
                    \/ Fault("ledger") /\ Append(This, "COMPLETED")
                    \/ AppendRefused /\ UNCHANGED ledger
                 /\ Outside /\ UNCHANGED <<attempt, proof, response, semantic>>

-----------------------------------------------------------------------------
(* From the observation of the surfaces to the answer. *)

\* refreshFromDisk: the copy of the credentials can be read again.
Reloaded == store = "credentials"

\* inspectSolTransportSurface: the directories of store and invocation are as they were laid out.
SurfaceHolds == roots[This] = "marked"

\* The scan of the raw output for credentials may object as well.
Observe == /\ Step("quiet", "cleaning")
           /\ \E good \in BOOLEAN : /\ good => attempt.good /\ Reloaded /\ SurfaceHolds
                                    /\ attempt' = [attempt EXCEPT !.good = good, !.next = "cleaned"]
           /\ Outside /\ UNCHANGED records

\* cleanupInvocationTransport, and where its caller goes on.
CleanupBegins == RemoveTransport(This) /\ UNCHANGED <<attempt, records>>

CleanupEnds == /\ Step("uprooting", attempt.next)
               /\ DropRoot(This) /\ Left(This)
               /\ holder' = None
               /\ Note("clean", attempt.clean \/ attempt.next = "cleaned")
               /\ UNCHANGED <<run, store, marker, pi, again, memory, crashes, records>>

CleanupSkipped == /\ Step("cleaning", attempt.next)
                  /\ transports[This] \in {"none", "removed"}
                  /\ Outside /\ UNCHANGED <<attempt, records>>

CleanupFails == /\ Goto(Controller, attempt.next)
                /\ \/ /\ At("cleaning")
                      /\ transports[This] \notin {"none", "removed"}
                      /\ (holder = None /\ ~Removable(This)) \/ Fault("lock")
                      /\ UNCHANGED <<holder, transports>>
                   \/ At("uprooting") /\ Fault("remove") /\ holder' = None /\ Stuck
                /\ Note("clean", FALSE)
                /\ UNCHANGED <<run, surfaces, pi, again, memory, crashes, records>>

\* assessSolTransportResult over every observed fact.
Gate == attempt.quiet = "verified" /\ attempt.good /\ attempt.clean

\* Faulty: the output is parsed and answered before its proof is on disk.
ProveLater == /\ Step("cleaned", IF Gate THEN "parse" ELSE "cleaning")
              /\ attempt' = [attempt EXCEPT !.passed = Gate, !.good = Gate, !.next = "complete"]
              /\ Outside /\ UNCHANGED records

\* The proof is durable before anything is parsed.
Prove == /\ Step("cleaned", IF Gate THEN "parse" ELSE "cleaning")
         /\ proof' = [proof EXCEPT ![This] = IF Gate THEN "passed" ELSE "failed"]
         /\ attempt' = [attempt EXCEPT !.passed = Gate, !.good = Gate, !.next = "complete"]
         /\ Outside /\ UNCHANGED <<response, semantic, ledger>>

ProofFails == /\ Step("cleaned", "caught")
              /\ Fault("evidence")
              /\ proof' \in {proof, [proof EXCEPT ![This] = "torn"]}
              /\ Note("passed", Gate)
              /\ Outside /\ UNCHANGED <<response, semantic, ledger>>

\* Parsing, the scan of the parsed values, and the second gate.
Parse == /\ Step("parse", "cleaning")
         /\ \E accepted \in BOOLEAN : Note("good", accepted)
         /\ Outside /\ UNCHANGED records

Complete == /\ Step("complete", "answer")
            /\ Append(This, "COMPLETED")
            /\ Outside /\ UNCHANGED <<attempt, proof, response, semantic>>

\* compileSolResponse, for an answer without any error so far.
Answerable == attempt.good /\ attempt.clean

Answer == /\ Step("answer", "semantic")
          /\ Answerable
          /\ response' = response \cup {This}
          /\ Outside /\ UNCHANGED <<attempt, proof, semantic, ledger>>

\* The response does not compile, or the ticket made from it does not.
Unanswerable == /\ Step("answer", "assess")
                /\ \/ UNCHANGED response
                   \/ Answerable /\ response' = response \cup {This}
                /\ Note("good", FALSE)
                /\ Outside /\ UNCHANGED <<proof, semantic, ledger>>

\* persistSolSemanticAcceptance reads the proof back.
Accept == /\ Step("semantic", "assess")
          /\ proof[This] = "passed"
          /\ semantic' = semantic \cup {This}
          /\ Outside /\ UNCHANGED <<attempt, proof, response, ledger>>

AcceptFails == /\ Step("semantic", "assess")
               /\ proof[This] # "passed" \/ Fault("evidence")
               /\ Note("good", FALSE)
               /\ Outside /\ UNCHANGED records

Assess == /\ Step("assess", "idle")
          /\ Append(This, IF attempt.good THEN "ACCEPTED" ELSE "REJECTED")
          /\ attempt' = Fresh(NoInv)
          /\ Outside /\ UNCHANGED <<proof, response, semantic>>

-----------------------------------------------------------------------------
(* The catch block: quiescence, cleanup, evidence, reconciliation. *)

CatchQuiesce == /\ Step("caught", "cleaning")
                /\ attempt.quiet = "unknown"
                /\ \/ /\ pi' = Killed({This})
                      /\ transports' = [transports EXCEPT ![This] = IF @ = "spawned" THEN "absent" ELSE @]
                      /\ attempt' = [attempt EXCEPT !.quiet = "verified", !.next = "failed"]
                   \/ /\ Fault("unverified")
                      /\ attempt' = [attempt EXCEPT !.quiet = "unverified", !.next = "failed"]
                      /\ UNCHANGED <<pi, transports>>
                /\ UNCHANGED <<run, surfaces, holder, again, memory, crashes, records>>

CatchQuiet == /\ Step("caught", "cleaning")
              /\ attempt.quiet # "unknown"
              /\ Note("next", "failed")
              /\ Outside /\ UNCHANGED records

\* Best effort: the file is created exclusively, and only with a transport.
RecordFailure == /\ Step("failed", "reconcile")
                 /\ \/ UNCHANGED proof
                    \/ /\ transports[This] # "none" /\ proof[This] = "none"
                       /\ proof' = [proof EXCEPT ![This] = IF attempt.passed THEN "passed" ELSE "failed"]
                 /\ Outside /\ UNCHANGED <<attempt, response, semantic, ledger>>

ReconcileFailure == /\ At("reconcile")
                    /\ Goto(Controller, "closing")
                    /\ again' = [again EXCEPT ![Controller] = TRUE]
                    /\ \/ ledger[This] = "STARTED" /\ Append(This, "RECONCILED")
                       \/ ledger[This] # "STARTED" /\ UNCHANGED ledger
                       \/ AppendRefused /\ UNCHANGED ledger
                    /\ UNCHANGED <<run, surfaces, pi, holder, recollection, crashes,
                                   attempt, proof, response, semantic>>

-----------------------------------------------------------------------------
(* The end of the run. *)

NothingToClose == /\ Step("closing", "closed")
                  /\ memory # "retained"
                  /\ Outside /\ UNCHANGED <<attempt, records>>

\* reconcileOrphans in the finally block; then the controller sweeps and finalizes.
ReconcileOrphans == /\ At("closed")
                    /\ Goto(Controller, "sweep")
                    /\ again' = [again EXCEPT ![Controller] = FALSE]
                    /\ \/ /\ Appendable
                          /\ ledger' = [i \in Invs |-> IF ledger[i] = "STARTED" THEN "RECONCILED" ELSE ledger[i]]
                       \/ AppendRefused /\ UNCHANGED ledger
                    /\ UNCHANGED <<run, surfaces, pi, holder, recollection, crashes,
                                   attempt, proof, response, semantic>>

Surface == \/ AcquireStore \/ AcquireRefused \/ MarkStore \/ MarkStoreFails
           \/ CopyCredentials \/ CopyFails \/ UndoStore \/ UndoMarker \/ UndoFails
           \/ PrepareRefused \/ EmptyStore \/ EmptyCredentials \/ EmptyMarker \/ EmptyingFails
           \/ Prepare(This) \/ MarkRoot(This) \/ MarkRootFails(This) \/ Spawn(This)
           \/ \E i \in Invs : EmptyTransport(i) \/ PiExits(i)

Attempt == \/ Finish \/ Abandon \/ SpawnRefused \/ Settle
           \/ Quiesce \/ QuiesceUnrecorded \/ QuiesceFails \/ RejectUnquiet
           \/ Observe \/ CleanupBegins \/ CleanupEnds \/ CleanupSkipped \/ CleanupFails
           \/ Prove \/ ProofFails \/ Parse \/ Complete
           \/ Answer \/ Unanswerable \/ Accept \/ AcceptFails \/ Assess
           \/ CatchQuiesce \/ CatchQuiet \/ RecordFailure \/ ReconcileFailure
           \/ NothingToClose \/ ReconcileOrphans
           \/ \E i \in Invs : Begin(i)

Next == \/ Surface /\ UNCHANGED <<attempt, records>>
        \/ Attempt
        \/ \E p \in Procs : Sweeps(p) /\ UNCHANGED <<attempt, records>>

Spec == Init /\ [][Next]_vars

-----------------------------------------------------------------------------
(* Properties. *)

PcStates == {"idle", "acquire", "marking", "copying", "undoing", "unmarking", "prepare", "rooting",
             "prepared", "running", "settled", "quiet", "unquiet", "cleaning", "uprooting", "cleaned",
             "parse", "complete", "answer", "semantic", "assess", "caught", "failed", "reconcile",
             "closing", "emptying", "unstoring", "closed", "sweep", "removing", "swept", "out", "ended"}

\* Types.
TypeOK == /\ run \in {"OPEN", "TERMINAL"}
          /\ store \in {"absent", "bare", "credentials"}
          /\ marker \in {"absent", "torn", "durable"}
          /\ roots \in [Invs -> {"absent", "unmarked", "marked"}]
          /\ pi \in [Invs -> {"none", "running", "gone"}]
          /\ holder \in Procs \cup {None}
          /\ pc \in [Procs -> PcStates]
          /\ again \in [Procs -> BOOLEAN]
          /\ memory \in {"none", "retained", "retired"}
          /\ transports \in [Invs -> TransportStates]
          /\ crashes \in 0..MaxCrashes
          /\ attempt \in Attempts
          /\ proof \in [Invs -> {"none", "torn", "failed", "passed"}]
          /\ response \in SUBSET Invs
          /\ semantic \in SUBSET Invs
          /\ ledger \in [Invs -> {"none", "STARTED", "COMPLETED", "ACCEPTED", "REJECTED", "RECONCILED"}]

\* Wherever a process dies or a removal stops, credential bytes on disk have their durable
\* marker: recovery can always tell whose they are.
CredentialsAreMarked == store = "credentials" => marker = "durable"

\* A run that has ended has no surface left and never gains one, whoever ended it and
\* whatever its controller was doing.
TerminalRunIsClean == run = "TERMINAL" => store = "absent" /\ marker = "absent" /\ RootsGone

\* While a Pi process runs, the marker by which a sweep finds it is on disk: nobody removes
\* the surface of a process that is not yet proven absent.
SurfacesOutliveProcesses == \A i \in Invs : pi[i] = "running" => roots[i] = "marked"

\* A response is on disk only for an invocation whose passed proof is, whose process is gone
\* and whose directory was removed; the ledger accepts only what is bound by a semantic record.
ResponsesAreProven == /\ \A i \in response : proof[i] = "passed" /\ pi[i] = "gone" /\ roots[i] = "absent"
                      /\ \A i \in Invs : ledger[i] = "ACCEPTED" => i \in semantic /\ i \in response

Custody == IF store # "absent" THEN "held"
           ELSE IF memory = "none" THEN "none" ELSE "given up"

CC == INSTANCE CredentialCustody WITH custody <- Custody

\* The credentials are taken once, on an open run, and given up before it ends.
ImplementsCustody == CC!Spec

\* Left behind by a process that died or failed: an unmarked directory, or a store without
\* the marker that binds it.  No sweep touches anything then.
Wedged == /\ holder = None
          /\ \/ store # "absent" /\ marker # "durable"
             \/ marker # "durable" /\ Marked # {}
             \/ \E i \in Invs : roots[i] = "unmarked"

\* Operators go on and try again; what may fail does not fail for ever.
Mishap(p) == \/ (SweepRefused(p) \/ SweepDenied(p)) /\ ~Unbound /\ run = "OPEN"
             \/ SweepFails(p) \/ EndingFails(p)

FairSpec == /\ Spec
            /\ WF_vars(\E p \in Operators : Sweeps(p) /\ UNCHANGED <<attempt, records>>)
            /\ <>[][\A p \in Operators : ~Mishap(p)]_vars

\* What a dead controller and sweeps that stopped half-way leave behind is removed in the end,
\* and the run ends, unless what they left carries no marker.
DeadRunsEnd == pc[Controller] = "ended" ~> (run = "TERMINAL" \/ Wedged)
=============================================================================
