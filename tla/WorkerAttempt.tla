---------------------------- MODULE WorkerAttempt ----------------------------
(***************************************************************************)
(* Worker attempts one after the other in one disposable worktree,         *)
(* executeWorkerAttempt of src/src/controller/orchestrator.mjs over the    *)
(* broker and the supervisor: boundary, spawn, call, revocation, close,    *)
(* quiescence, completion, extraction of the patch, validation on a copy,  *)
(* assessment.  A process of any attempt that lives may write the          *)
(* worktree, and ask the broker.                                           *)
(***************************************************************************)
EXTENDS ProviderBroker

CONSTANTS
    Failing,        \* steps of the controller that may fail: subset of Steps
    MaxWrites       \* how often the worktree changes

Steps == {"broker", "boundary", "config", "spawn", "record"}
ASSUME FailingAssumption == Failing \subseteq Steps
ASSUME WritesAssumption == MaxWrites \in Nat

VARIABLES
    pc,             \* where the controller is
    outcome,        \* the call in progress: "none", "bad", or "good" (status 0, in time)
    worktree,       \* its version
    wrote,          \* the last version of a process of each invocation that had not escaped
    patch,          \* the version in the patch artifact of each invocation, or NoPatch
    sound,          \* nothing observed after the call speaks against the attempt
    ledger          \* of each invocation

NoPatch == MaxWrites + 1

attemptVars == <<pc, outcome, patch, sound, ledger>>
vars == <<proc, sup, brokerVars, worktree, wrote, attemptVars>>

Init == /\ InitSupervisor
        /\ InitBroker
        /\ pc = "idle"
        /\ outcome = "none"
        /\ worktree = 0
        /\ wrote = [i \in Invs |-> 0]
        /\ patch = [i \in Invs |-> NoPatch]
        /\ sound = FALSE
        /\ ledger = [i \in Invs |-> "none"]

This == sup.inv
May(step) == step \in Failing
Goto(from, to) == pc = from /\ pc' = to
Note(status) == ledger' = [ledger EXCEPT ![This] = status]
Surroundings == UNCHANGED <<proc, worktree, wrote>>
Findings == UNCHANGED <<outcome, patch, sound>>

-----------------------------------------------------------------------------
(* Up to the spawn. *)

StartAttempt(i) == /\ Goto("idle", "broker")
                   /\ ledger[i] = "none"
                   /\ ledger' = [ledger EXCEPT ![i] = "STARTED"]
                   /\ sup' = Idle(i)
                   /\ outcome' = "none" /\ sound' = FALSE
                   /\ UNCHANGED <<patch, brokerVars>> /\ Surroundings

OpenBroker == /\ Goto("broker", "boundary")
              /\ StartBroker
              /\ UNCHANGED <<sup, ledger>> /\ Findings /\ Surroundings

NoBroker == /\ Goto("broker", "caught")
            /\ May("broker") \/ Ports \subseteq usedPorts
            /\ UNCHANGED <<sup, ledger, brokerVars>> /\ Findings /\ Surroundings

\* authorizeInvocationBoundary: profile, probes, capability, evidence.
Authorize == /\ Goto("boundary", "register")
             /\ Pin(This)
             /\ UNCHANGED <<sup, ledger>> /\ Findings /\ Surroundings

Unauthorized == /\ Goto("boundary", "caught")
                /\ May("boundary")
                /\ UNCHANGED <<sup, ledger, brokerVars>> /\ Findings /\ Surroundings

Register == /\ Goto("register", "config")
            /\ RegisterInvocation(This)
            /\ UNCHANGED <<sup, ledger>> /\ Findings /\ Surroundings

\* An exception before the spawn leaves the capability unrevoked: close forgets it.
NotCalled == /\ pc \in {"register", "config"} /\ pc' = "settled"
             /\ May("config")
             /\ outcome' = "bad"
             /\ UNCHANGED <<sup, ledger, brokerVars, patch, sound>> /\ Surroundings

\* assertSpawnCapabilityFresh, spawn, and begin() in onSpawn.
Spawn == /\ Goto("config", "calling")
         /\ \E p \in Pids : Begin(p)
         /\ UNCHANGED <<ledger, brokerVars, worktree, wrote>> /\ Findings

SpawnFails == /\ Goto("config", "settled")
              /\ May("spawn")
              /\ RevokeInvocation
              /\ outcome' = "bad"
              /\ UNCHANGED <<sup, ledger, patch, sound>> /\ Surroundings

-----------------------------------------------------------------------------
(* The call. *)

RootLives == sup.root # NoPid /\ proc[sup.root].inv = This

\* The timeout, or too much output: SIGTERM to the direct child, and no more than that.
TimeOut == /\ pc = "calling"
           /\ outcome = "none"
           /\ outcome' = "bad"
           /\ Term(IF RootLives THEN {sup.root} ELSE {})
           /\ UNCHANGED <<sup, ledger, brokerVars, worktree, wrote, pc, patch, sound>>

\* "close": the child has gone and nobody holds its pipes; then the token is revoked.
Settle == /\ Goto("calling", "settled")
          /\ ~RootLives
          /\ outcome' \in IF outcome = "none" THEN {"good", "bad"} ELSE {"bad"}
          /\ RevokeInvocation
          /\ UNCHANGED <<sup, ledger, patch, sound>> /\ Surroundings

\* persistBrokerEvidence.
RecordBroker == /\ Goto("settled", "closing")
                /\ UNCHANGED <<sup, ledger, brokerVars>> /\ Findings /\ Surroundings

RecordBrokerFails == /\ Goto("settled", "caught")
                     /\ May("record")
                     /\ UNCHANGED <<sup, ledger, brokerVars>> /\ Findings /\ Surroundings

Close == /\ Goto("closing", "quiescing")
         /\ CloseBroker
         /\ UNCHANGED <<sup, ledger>> /\ Findings /\ Surroundings

StartQuiesce == /\ pc \in {"quiescing", "caught"}
                /\ Quiesce
                /\ UNCHANGED <<pc, ledger, brokerVars, worktree, wrote>> /\ Findings

\* Faulty: the patch is taken although a process may be left.
RecordQuiescenceAnyway == /\ Goto("quiescing", "complete")
                          /\ sup.verdict # "none"
                          /\ UNCHANGED <<sup, ledger, brokerVars>> /\ Findings /\ Surroundings

\* persistProcessLifetimeEvidence, and the refusal to go on without the proof.
RecordQuiescence == /\ Goto("quiescing", IF sup.verdict = "verified" THEN "complete" ELSE "refuse")
                    /\ sup.verdict # "none"
                    /\ UNCHANGED <<sup, ledger, brokerVars>> /\ Findings /\ Surroundings

RecordQuiescenceFails == /\ Goto("quiescing", "caught")
                         /\ sup.verdict # "none"
                         /\ May("record")
                         /\ UNCHANGED <<sup, ledger, brokerVars>> /\ Findings /\ Surroundings

\* complete(FAILURE) and assess(REJECTED), or less than that.
RefuseAttempt == /\ Goto("refuse", "caught")
                 /\ \/ Note("REJECTED")
                    \/ May("record") /\ (Note("COMPLETED") \/ UNCHANGED ledger)
                 /\ UNCHANGED <<sup, brokerVars>> /\ Findings /\ Surroundings

\* The catch block: quiescence (StartQuiesce), broker, reconciliation; the run fails closed.
Catch == /\ Goto("caught", "failed")
         /\ sup.verdict # "none"
         /\ CloseBroker
         /\ \/ ledger[This] = "STARTED" /\ Note("RECONCILED")
            \/ (ledger[This] # "STARTED" \/ May("record")) /\ UNCHANGED ledger
         /\ UNCHANGED sup /\ Findings /\ Surroundings

-----------------------------------------------------------------------------
(* From completion to assessment. *)

Complete == /\ Goto("complete", "extract")
            /\ Note("COMPLETED")
            /\ sound' = (outcome = "good")
            /\ UNCHANGED <<sup, brokerVars, outcome, patch>> /\ Surroundings

\* inspectWorkerExit, then collectAndPersistEvidence; either may find fault, or find nothing.
Extract == /\ Goto("extract", "judge")
           /\ \E found, good \in BOOLEAN : /\ patch' = [patch EXCEPT ![This] = IF found THEN worktree ELSE NoPatch]
                                           /\ sound' = (sound /\ found /\ good)
           /\ UNCHANGED <<sup, ledger, brokerVars, outcome>> /\ Surroundings

\* One command of runValidationsOnCopy, on base and patch, never on the worktree.
Validate == /\ Goto("judge", "testing")
            /\ patch[This] # NoPatch
            /\ UNCHANGED <<sup, ledger, brokerVars>> /\ Findings /\ Surroundings

ValidationEnds == /\ Goto("testing", "judge")
                  /\ \E passed \in BOOLEAN : sound' = (sound /\ passed)
                  /\ UNCHANGED <<sup, ledger, brokerVars, outcome, patch>> /\ Surroundings

\* Secret scan, hand-off, semantic validator; accepted only when everything was sound.
Assess == /\ Goto("judge", "idle")
          /\ \E good \in BOOLEAN :
                Note(IF sound /\ good THEN "ACCEPTED" ELSE "REJECTED")
          /\ outcome' = "none" /\ sound' = FALSE
          /\ UNCHANGED <<sup, brokerVars, patch>> /\ Surroundings

\* The ledger refuses: reconcileOrphans of the run closes what is open.
LedgerFails == /\ pc \in {"complete", "judge"}
               /\ pc' = "failed"
               /\ May("record")
               /\ \/ Note("RECONCILED")
                  \/ UNCHANGED ledger
               /\ UNCHANGED <<sup, brokerVars>> /\ Findings /\ Surroundings

-----------------------------------------------------------------------------
(* The whole. *)

Write(p) == /\ Live(p)
            /\ worktree < MaxWrites
            /\ worktree' = worktree + 1
            /\ wrote' = IF proc[p].grouped \/ proc[p].marked \/ (proc[p].seen /\ proc[p].inv = This)
                        THEN [wrote EXCEPT ![proc[p].inv] = worktree'] ELSE wrote
            /\ UNCHANGED <<proc, sup, brokerVars, attemptVars>>

Outside == UNCHANGED <<brokerVars, worktree, wrote, attemptVars>>

Processes == \E p \in Pids :
                \/ Write(p)
                \/ (\E c \in Pids : Fork(p, c)) /\ Outside
                \/ (LeaveGroup(p) \/ DropMarker(p) \/ Exit(p)) /\ Outside
                \/ Ask(p) /\ UNCHANGED <<worktree, wrote, attemptVars>>

Requests == (\E r \in held : Respond(r)) /\ UNCHANGED <<worktree, wrote, attemptVars>>

Supervisor == (Poll \/ ReadRows \/ ReadMarkersFirst \/ ReadMarkersAgain \/ GraceEnds
               \/ ReadMarkersLast \/ ReadFails) /\ Outside

Controller == \/ \E i \in Invs : StartAttempt(i)
              \/ OpenBroker \/ NoBroker \/ Authorize \/ Unauthorized \/ Register \/ NotCalled
              \/ Spawn \/ SpawnFails \/ TimeOut \/ Settle
              \/ RecordBroker \/ RecordBrokerFails \/ Close \/ StartQuiesce
              \/ RecordQuiescence \/ RecordQuiescenceFails \/ RefuseAttempt \/ Catch
              \/ Complete \/ Extract \/ Validate \/ ValidationEnds \/ Assess \/ LedgerFails

Next == Processes \/ Requests \/ Supervisor \/ Controller

Spec == Init /\ [][Next]_vars

-----------------------------------------------------------------------------
(* Properties. *)

\* Types.
TypeOK ==
    /\ proc \in [Pids -> [inv : Invs \cup {NoInv}, parent : Pids \cup {NoPid},
                          grouped : BOOLEAN, marked : BOOLEAN, seen : BOOLEAN]]
    /\ sup \in [inv : Invs \cup {NoInv}, root : Pids \cup {NoPid}, tracked : SUBSET Pids, blind : BOOLEAN,
                round : Rounds \cup {"off", "watching", "done"}, half : {"rows", "marks"}, seen : SUBSET Pids,
                verdict : {"none", "verified", "unverified"}]
    /\ broker \in [port : Ports \cup {NoPort}, inv : Invs \cup {NoInv}, revoked : BOOLEAN]
    /\ usedPorts \in SUBSET Ports /\ pinned \in [Invs -> Ports \cup {NoPort}]
    /\ held \in SUBSET (Invs \X Invs)
    /\ pc \in {"idle", "broker", "boundary", "register", "config", "calling", "settled", "closing",
               "quiescing", "refuse", "caught", "failed", "complete", "extract", "judge", "testing"}
    /\ outcome \in {"none", "good", "bad"}
    /\ worktree \in 0..MaxWrites /\ wrote \in [Invs -> 0..MaxWrites]
    /\ patch \in [Invs -> 0..NoPatch]
    /\ sound \in BOOLEAN
    /\ ledger \in [Invs -> {"none", "STARTED", "COMPLETED", "ACCEPTED", "REJECTED", "RECONCILED"}]

\* A verdict of quiescence means that whoever is left, or is started later, has shed the marker,
\* left the group and was in no scan: the three layers hide a process only together.
VerifiedMeansGone ==
    sup.verdict = "verified" => \A p \in Members \ {q \in Pids : ~Live(q)} :
                                    ~proc[p].marked /\ ~proc[p].grouped /\ ~proc[p].seen

\* A request under the capability of an invocation is one of its own processes': no survivor of
\* an earlier one reaches a later broker, though it can read the token.
TransportIsOwn == \A r \in held : r[1] = r[2]

\* Nothing a process still bound to its invocation writes comes after the patch of that invocation
\* is frozen, whatever is started, times out or survives.
PatchIsFinal == \A i \in Invs : patch[i] # NoPatch => wrote[i] <= patch[i]
=============================================================================
