-------------------------- MODULE SolAttemptProofs --------------------------
(***************************************************************************)
(* Proofs about the SOL attempts of a run.  Three things carry them: who   *)
(* changes a surface holds the lock of the run; an invocation goes through *)
(* its places once, so what is recorded of an earlier one stays; and a     *)
(* transport is removable only once its process is known to be gone.       *)
(***************************************************************************)
EXTENDS SolAttempt, TLAPS

USE DEF Goto, Step, At, Note, Outside, This, Fault, surfaces, recollection, records,
        TearRoot, DropRoot, Leaving, Left, Stuck, Fail, Append, Appendable, AppendRefused

-----------------------------------------------------------------------------
(* Types. *)

TransportTypes == /\ run \in {"OPEN", "TERMINAL"}
                  /\ store \in {"absent", "bare", "credentials"}
                  /\ marker \in {"absent", "torn", "durable"}
                  /\ roots \in [Invs -> {"absent", "unmarked", "marked"}]
                  /\ pi \in [Invs -> {"none", "running", "gone"}]
                  /\ holder \in Procs \cup {None}
                  /\ pc \in [Procs -> PcStates]
                  /\ again \in [Procs -> BOOLEAN]
                  /\ memory \in {"none", "retained", "retired"}
                  /\ transports \in [Invs -> TransportStates]
                  /\ crashes \in 0..MaxCrashes

RecordTypes == /\ attempt \in Attempts
               /\ proof \in [Invs -> {"none", "torn", "failed", "passed"}]
               /\ response \in SUBSET Invs
               /\ semantic \in SUBSET Invs
               /\ ledger \in [Invs -> {"none", "STARTED", "COMPLETED", "ACCEPTED", "REJECTED", "RECONCILED"}]

\* In these places of the controller an invocation is in progress.
Active == {"acquire", "marking", "copying", "undoing", "unmarking", "prepare", "rooting", "prepared",
           "running", "settled", "quiet", "unquiet", "cleaning", "uprooting", "cleaned", "parse",
           "complete", "answer", "semantic", "assess", "caught", "failed", "reconcile"}

\* What makes sense of This: it is an invocation, and the ledger has its start.
InProgress == /\ pc[Controller] \in Active => This \in Invs
              /\ This \in Invs => ledger[This] # "none"

LEMMA TypesSplit == TypeOK <=> TransportTypes /\ RecordTypes
BY DEF TypeOK, TransportTypes, RecordTypes

LEMMA ControllerIsProc == Controller \in Procs
BY DEF Procs

LEMMA KilledType == \A S : pi \in [Invs -> {"none", "running", "gone"}] =>
    /\ Killed(S) \in [Invs -> {"none", "running", "gone"}]
    /\ \A i \in Invs : Killed(S)[i] = IF i \in S /\ pi[i] = "running" THEN "gone" ELSE pi[i]
BY DEF Killed

LEMMA SurfaceTypes == TransportTypes /\ InProgress /\ Surface => TransportTypes'
<1>. SUFFICES ASSUME TransportTypes, InProgress, Surface PROVE TransportTypes'
  OBVIOUS
<1>. USE ControllerIsProc
<1>1. CASE AcquireStore \/ AcquireRefused
  BY <1>1 DEF AcquireStore, AcquireRefused, TransportTypes, PcStates
<1>2. CASE MarkStore \/ MarkStoreFails
  BY <1>2 DEF MarkStore, MarkStoreFails, TransportTypes, PcStates
<1>3. CASE CopyCredentials \/ CopyFails
  BY <1>3 DEF CopyCredentials, CopyFails, TransportTypes, PcStates
<1>4. CASE UndoStore \/ UndoMarker \/ UndoFails
  BY <1>4 DEF UndoStore, UndoMarker, UndoFails, TransportTypes, PcStates
<1>5. CASE PrepareRefused \/ EmptyStore
  BY <1>5 DEF PrepareRefused, EmptyStore, TransportTypes, PcStates
<1>6. CASE EmptyCredentials \/ EmptyMarker
  BY <1>6 DEF EmptyCredentials, EmptyMarker, ShrinkStore, TransportTypes, PcStates
<1>7. CASE EmptyingFails
  <2>1. transports' \in [Invs -> TransportStates]
    BY <1>7 DEF EmptyingFails, TransportTypes, TransportStates
  <2>. QED
    BY <1>7, <2>1 DEF EmptyingFails, TransportTypes, PcStates
<1>8. CASE Prepare(This) \/ MarkRoot(This) \/ MarkRootFails(This)
  BY <1>8 DEF Prepare, MarkRoot, MarkRootFails, TransportTypes, PcStates, TransportStates
<1>9. CASE Spawn(This)
  BY <1>9 DEF Spawn, TransportTypes, PcStates, TransportStates
<1>10. CASE \E i \in Invs : EmptyTransport(i) \/ PiExits(i)
  BY <1>10 DEF EmptyTransport, PiExits, TransportTypes, PcStates, TransportStates
<1>. QED
  BY <1>1, <1>2, <1>3, <1>4, <1>5, <1>6, <1>7, <1>8, <1>9, <1>10 DEF Surface

LEMMA SweepTypes == \A p \in Procs : TransportTypes /\ Sweeps(p) => TransportTypes'
<1>. SUFFICES ASSUME NEW p \in Procs, TransportTypes, Sweeps(p) PROVE TransportTypes'
  OBVIOUS
<1>. USE KilledType
<1>1. CASE CallOperator(p) \/ SweepDenied(p)
  BY <1>1 DEF CallOperator, SweepDenied, TransportTypes, PcStates
<1>2. CASE StartSweep(p) \/ SweepRefused(p)
  <2>1. pi' \in [Invs -> {"none", "running", "gone"}]
    BY <1>2 DEF StartSweep, SweepRefused, TransportTypes
  <2>. QED
    BY <1>2, <2>1 DEF StartSweep, SweepRefused, TransportTypes, PcStates
<1>3. CASE SweepRoot(p)
  BY <1>3 DEF SweepRoot, TransportTypes
<1>4. CASE SweepStore(p) \/ SweepMarker(p)
  BY <1>4 DEF SweepStore, SweepMarker, ShrinkStore, TransportTypes, PcStates
<1>5. CASE SweepFails(p) \/ EndSweep(p) \/ EndingFails(p)
  BY <1>5 DEF SweepFails, EndSweep, EndingFails, TransportTypes, PcStates
<1>6. CASE Crash(p)
  BY <1>6, CrashAssumption DEF Crash, TransportTypes, PcStates
<1>. QED
  BY <1>1, <1>2, <1>3, <1>4, <1>5, <1>6 DEF Sweeps

\* Places outside the lock between which the controller moves without touching a surface.
Desk == {"idle", "acquire", "prepare", "prepared", "running", "settled", "quiet", "unquiet", "cleaning",
         "cleaned", "parse", "complete", "answer", "semantic", "assess", "caught", "failed",
         "reconcile", "closing", "closed", "sweep"}

Paperwork == /\ pc[Controller] \in Desk
             /\ \E place \in Desk \ {"prepared"} : Goto(Controller, place)
             /\ pc'[Controller] \in {"acquire", "prepare"} => \E i \in Invs : Begin(i)
             /\ UNCHANGED <<run, surfaces, holder, memory, crashes>>

\* All that an attempt does to the surfaces is the cleanup of its directory.
LEMMA AttemptForms ==
    TransportTypes /\ RecordTypes /\ Attempt => Paperwork \/ CleanupBegins \/ CleanupEnds \/ CleanupFails
<1>. SUFFICES ASSUME TransportTypes, RecordTypes, Attempt, ~CleanupBegins, ~CleanupEnds, ~CleanupFails
              PROVE  Paperwork
  OBVIOUS
<1>. USE ControllerIsProc DEF Paperwork, Desk, TransportTypes
<1>1. CASE Finish \/ Abandon \/ SpawnRefused \/ Settle
  BY <1>1 DEF Finish, Abandon, SpawnRefused, Settle
<1>2. CASE Quiesce \/ QuiesceUnrecorded \/ QuiesceFails \/ RejectUnquiet
  BY <1>2 DEF Quiesce, QuiesceUnrecorded, QuiesceFails, RejectUnquiet, Quiet, Unquiet
<1>3. CASE Observe \/ CleanupSkipped
  BY <1>3 DEF Observe, CleanupSkipped, RecordTypes, Attempts
<1>4. CASE Prove \/ ProofFails \/ Parse \/ Complete
  BY <1>4 DEF Prove, ProofFails, Parse, Complete
<1>5. CASE Answer \/ Unanswerable \/ Accept \/ AcceptFails \/ Assess
  BY <1>5 DEF Answer, Unanswerable, Accept, AcceptFails, Assess
<1>6. CASE CatchQuiesce \/ CatchQuiet \/ RecordFailure \/ ReconcileFailure
  BY <1>6 DEF CatchQuiesce, CatchQuiet, RecordFailure, ReconcileFailure
<1>7. CASE NothingToClose \/ ReconcileOrphans
  BY <1>7 DEF NothingToClose, ReconcileOrphans
<1>8. CASE \E i \in Invs : Begin(i)
  <2>1. \E place \in {"acquire", "prepare"} : Step("idle", place) /\ Outside
    BY <1>8 DEF Begin
  <2>. QED
    BY <1>8, <2>1
<1>. QED
  BY <1>1, <1>2, <1>3, <1>4, <1>5, <1>6, <1>7, <1>8 DEF Attempt

\* Processes of the invocation end, and if that is proven, its transport may be removed.
Calls == /\ pi' \in {pi, Killed({This})}
         /\ \/ UNCHANGED transports
            \/ /\ pi' = Killed({This})
               /\ transports' = [transports EXCEPT ![This] = IF @ = "spawned" THEN "absent" ELSE @]

LEMMA AttemptCalls == Attempt => Calls \/ CleanupBegins \/ CleanupEnds \/ CleanupFails
<1>. SUFFICES ASSUME Attempt, ~CleanupBegins, ~CleanupEnds, ~CleanupFails PROVE Calls
  OBVIOUS
<1>. USE DEF Calls
<1>1. CASE Finish \/ Abandon \/ SpawnRefused \/ Settle \/ RejectUnquiet
  BY <1>1 DEF Finish, Abandon, SpawnRefused, Settle, RejectUnquiet
<1>2. CASE Quiesce \/ QuiesceUnrecorded \/ QuiesceFails
  BY <1>2 DEF Quiesce, QuiesceUnrecorded, QuiesceFails, Quiet, Unquiet
<1>3. CASE Observe \/ CleanupSkipped \/ Prove \/ ProofFails \/ Parse \/ Complete
  BY <1>3 DEF Observe, CleanupSkipped, Prove, ProofFails, Parse, Complete
<1>4. CASE Answer \/ Unanswerable \/ Accept \/ AcceptFails \/ Assess
  BY <1>4 DEF Answer, Unanswerable, Accept, AcceptFails, Assess
<1>5. CASE CatchQuiesce \/ CatchQuiet \/ RecordFailure \/ ReconcileFailure
  BY <1>5 DEF CatchQuiesce, CatchQuiet, RecordFailure, ReconcileFailure
<1>6. CASE NothingToClose \/ ReconcileOrphans \/ \E i \in Invs : Begin(i)
  BY <1>6 DEF NothingToClose, ReconcileOrphans, Begin
<1>. QED
  BY <1>1, <1>2, <1>3, <1>4, <1>5, <1>6 DEF Attempt

LEMMA AttemptTypes == TransportTypes /\ RecordTypes /\ InProgress /\ Attempt => TransportTypes'
<1>. SUFFICES ASSUME TransportTypes, RecordTypes, InProgress, Attempt PROVE TransportTypes'
  OBVIOUS
<1>. USE ControllerIsProc
<1>0. again' \in [Procs -> BOOLEAN]
  <2>1. UNCHANGED again \/ \E b \in BOOLEAN : again' = [again EXCEPT ![Controller] = b]
    BY DEF Attempt, Finish, Abandon, SpawnRefused, Settle, Quiesce, QuiesceUnrecorded, QuiesceFails,
           RejectUnquiet, Quiet, Unquiet, Observe, CleanupBegins, RemoveTransport, CleanupEnds, CleanupSkipped,
           CleanupFails, Prove, ProofFails, Parse, Complete, Answer, Unanswerable, Accept, AcceptFails,
           Assess, CatchQuiesce, CatchQuiet, RecordFailure, ReconcileFailure, NothingToClose,
           ReconcileOrphans, Begin
  <2>. QED
    BY <2>1 DEF TransportTypes
<1>1. CASE CleanupBegins
  BY <1>1 DEF CleanupBegins, RemoveTransport, TransportTypes, TransportStates, PcStates
<1>2. CASE CleanupEnds
  BY <1>2 DEF CleanupEnds, TransportTypes, TransportStates, PcStates, RecordTypes, Attempts
<1>3. CASE CleanupFails
  <2>1. transports' \in [Invs -> TransportStates]
    BY <1>3 DEF CleanupFails, TransportTypes, TransportStates
  <2>. QED
    BY <1>3, <2>1 DEF CleanupFails, TransportTypes, PcStates, RecordTypes, Attempts
<1>4. CASE Paperwork /\ Calls
  <2>1. /\ pi' \in [Invs -> {"none", "running", "gone"}]
        /\ transports' \in [Invs -> TransportStates]
    BY <1>4, KilledType DEF Calls, TransportTypes, TransportStates
  <2>. QED
    BY <1>0, <1>4, <2>1 DEF Paperwork, Desk, TransportTypes, PcStates
<1>. QED
  BY <1>1, <1>2, <1>3, <1>4, AttemptForms, AttemptCalls

LEMMA AttemptRecords == RecordTypes /\ InProgress /\ Attempt => RecordTypes'
<1>. SUFFICES ASSUME RecordTypes, InProgress, Attempt PROVE RecordTypes'
  OBVIOUS
<1>. USE DEF RecordTypes, Attempts
<1>1. CASE Finish \/ Abandon \/ SpawnRefused \/ Settle \/ Parse
  BY <1>1 DEF Finish, Abandon, SpawnRefused, Settle, Parse
<1>2. CASE Quiesce \/ QuiesceUnrecorded \/ QuiesceFails
  BY <1>2 DEF Quiesce, QuiesceUnrecorded, QuiesceFails, Quiet, Unquiet
<1>3. CASE Observe \/ CleanupSkipped \/ RejectUnquiet
  BY <1>3 DEF Observe, CleanupSkipped, RejectUnquiet
<1>4. CASE CleanupBegins \/ CleanupEnds \/ CleanupFails
  BY <1>4 DEF CleanupBegins, CleanupEnds, CleanupFails
<1>5. CASE Prove
  BY <1>5 DEF Prove, Gate
<1>6. CASE ProofFails
  BY <1>6 DEF ProofFails, Gate
<1>7. CASE Complete \/ Answer \/ Unanswerable
  BY <1>7 DEF Complete, Answer, Unanswerable, Active, InProgress
<1>8. CASE Accept \/ AcceptFails
  BY <1>8 DEF Accept, AcceptFails, Active, InProgress
<1>9. CASE Assess
  BY <1>9 DEF Assess, Fresh
<1>10. CASE CatchQuiesce \/ CatchQuiet
  BY <1>10 DEF CatchQuiesce, CatchQuiet
<1>11. CASE RecordFailure \/ ReconcileFailure
  BY <1>11 DEF RecordFailure, ReconcileFailure
<1>12. CASE NothingToClose \/ ReconcileOrphans
  BY <1>12 DEF NothingToClose, ReconcileOrphans
<1>13. CASE \E i \in Invs : Begin(i)
  BY <1>13 DEF Begin, Fresh
<1>. QED
  BY <1>1, <1>2, <1>3, <1>4, <1>5, <1>6, <1>7, <1>8, <1>9, <1>10, <1>11, <1>12, <1>13 DEF Attempt
-----------------------------------------------------------------------------
(* Who is where, in the lock, and for which invocation. *)

Seats == \A p \in Operators : pc[p] \in {"out", "sweep", "removing", "swept", "ended"}

\* The places that are inside the lock of the run.
InLock == {"marking", "copying", "undoing", "unmarking", "rooting", "uprooting",
           "emptying", "unstoring", "removing", "swept"}

LockHeld == \A p \in Procs : pc[p] \in InLock => holder = p

Order == TransportTypes /\ RecordTypes /\ InProgress /\ Seats /\ LockHeld

LEMMA SurfaceOrder == Order /\ Surface /\ UNCHANGED <<attempt, records>> => InProgress' /\ Seats' /\ LockHeld'
<1>. SUFFICES ASSUME Order, Surface, UNCHANGED <<attempt, records>> PROVE InProgress' /\ Seats' /\ LockHeld'
  OBVIOUS
<1>. USE ControllerIsProc, ProcessAssumption DEF Order, InProgress, Seats, LockHeld, InLock, Active, TransportTypes, Procs
<1>1. CASE AcquireStore \/ AcquireRefused
  BY <1>1 DEF AcquireStore, AcquireRefused
<1>2. CASE MarkStore \/ MarkStoreFails
  BY <1>2 DEF MarkStore, MarkStoreFails
<1>3. CASE CopyCredentials \/ CopyFails
  BY <1>3 DEF CopyCredentials, CopyFails
<1>4. CASE UndoStore \/ UndoMarker \/ UndoFails
  BY <1>4 DEF UndoStore, UndoMarker, UndoFails
<1>5. CASE PrepareRefused \/ EmptyStore
  BY <1>5 DEF PrepareRefused, EmptyStore
<1>6. CASE EmptyCredentials \/ EmptyMarker
  BY <1>6 DEF EmptyCredentials, EmptyMarker
<1>7. CASE EmptyingFails
  BY <1>7 DEF EmptyingFails
<1>8. CASE Prepare(This) \/ MarkRoot(This) \/ MarkRootFails(This)
  BY <1>8 DEF Prepare, MarkRoot, MarkRootFails
<1>9. CASE Spawn(This)
  BY <1>9 DEF Spawn
<1>10. CASE \E i \in Invs : EmptyTransport(i) \/ PiExits(i)
  BY <1>10 DEF EmptyTransport, PiExits
<1>. QED
  BY <1>1, <1>2, <1>3, <1>4, <1>5, <1>6, <1>7, <1>8, <1>9, <1>10 DEF Surface

LEMMA SweepOrder == \A p \in Procs : Order /\ Sweeps(p) /\ UNCHANGED <<attempt, records>> =>
                                         InProgress' /\ Seats' /\ LockHeld'
<1>. SUFFICES ASSUME NEW p \in Procs, Order, Sweeps(p), UNCHANGED <<attempt, records>>
              PROVE  InProgress' /\ Seats' /\ LockHeld'
  OBVIOUS
<1>. USE ControllerIsProc, ProcessAssumption DEF Order, InProgress, Seats, LockHeld, InLock, Active, TransportTypes, Procs
<1>1. CASE CallOperator(p) \/ SweepDenied(p)
  BY <1>1 DEF CallOperator, SweepDenied
<1>2. CASE StartSweep(p) \/ SweepRefused(p)
  BY <1>2 DEF StartSweep, SweepRefused, MayStart
<1>3. CASE SweepRoot(p) \/ SweepStore(p) \/ SweepMarker(p)
  BY <1>3 DEF SweepRoot, SweepStore, SweepMarker
<1>4. CASE SweepFails(p) \/ EndSweep(p) \/ EndingFails(p)
  BY <1>4 DEF SweepFails, EndSweep, EndingFails
<1>5. CASE Crash(p)
  BY <1>5 DEF Crash
<1>. QED
  BY <1>1, <1>2, <1>3, <1>4, <1>5 DEF Sweeps

LEMMA AttemptOrder == Order /\ Attempt => InProgress' /\ Seats' /\ LockHeld'
<1>. SUFFICES ASSUME Order, Attempt PROVE InProgress' /\ Seats' /\ LockHeld'
  OBVIOUS
<1>. USE ControllerIsProc, ProcessAssumption DEF Order
<1>1. Seats' /\ LockHeld'
  <2>. USE DEF Seats, LockHeld, InLock, TransportTypes, Procs
  <2>1. CASE CleanupBegins
    BY <2>1 DEF CleanupBegins, RemoveTransport
  <2>2. CASE CleanupEnds \/ CleanupFails
    BY <2>2 DEF CleanupEnds, CleanupFails, RecordTypes, Attempts
  <2>3. CASE Paperwork
    BY <2>3 DEF Paperwork, Desk
  <2>. QED
    BY <2>1, <2>2, <2>3, AttemptForms
<1>2. InProgress'
  <2>. USE DEF InProgress, Active, TransportTypes, RecordTypes, Attempts
  <2>1. CASE Finish \/ Abandon \/ SpawnRefused \/ Settle \/ Parse
    BY <2>1 DEF Finish, Abandon, SpawnRefused, Settle, Parse
  <2>2. CASE Quiesce \/ QuiesceUnrecorded \/ QuiesceFails
    BY <2>2 DEF Quiesce, QuiesceUnrecorded, QuiesceFails, Quiet, Unquiet
  <2>3. CASE Observe \/ CleanupSkipped \/ RejectUnquiet
    BY <2>3 DEF Observe, CleanupSkipped, RejectUnquiet
  <2>4. CASE CleanupBegins \/ CleanupEnds \/ CleanupFails
    BY <2>4 DEF CleanupBegins, RemoveTransport, CleanupEnds, CleanupFails
  <2>5. CASE Prove
    BY <2>5 DEF Prove
  <2>6. CASE ProofFails
    BY <2>6 DEF ProofFails
  <2>7. CASE Complete \/ Answer \/ Unanswerable
    BY <2>7 DEF Complete, Answer, Unanswerable
  <2>8. CASE Accept \/ AcceptFails
    BY <2>8 DEF Accept, AcceptFails
  <2>9. CASE Assess
    BY <2>9, NoInvAssumption DEF Assess, Fresh
  <2>10. CASE CatchQuiesce \/ CatchQuiet
    <3>1. attempt'.inv = attempt.inv
      BY <2>10 DEF CatchQuiesce, CatchQuiet
    <3>2. pc[Controller] = "caught" /\ UNCHANGED ledger
      BY <2>10 DEF CatchQuiesce, CatchQuiet
    <3>. QED
      BY <3>1, <3>2
  <2>11. CASE RecordFailure \/ ReconcileFailure
    BY <2>11 DEF RecordFailure, ReconcileFailure
  <2>12. CASE NothingToClose \/ ReconcileOrphans
    BY <2>12 DEF NothingToClose, ReconcileOrphans
  <2>13. CASE \E i \in Invs : Begin(i)
    BY <2>13 DEF Begin, Fresh
  <2>. QED
    BY <2>1, <2>2, <2>3, <2>4, <2>5, <2>6, <2>7, <2>8, <2>9, <2>10, <2>11, <2>12, <2>13 DEF Attempt
<1>. QED
  BY <1>1, <1>2

-----------------------------------------------------------------------------
(* The surfaces: what their writers know of them, and what is left when a sweep ends. *)

Clean == store = "absent" /\ marker = "absent" /\ RootsGone

Knowledge == /\ pc[Controller] \in {"marking", "copying"} => store # "absent"
             /\ pc[Controller] \in {"marking", "copying", "undoing", "unmarking", "rooting"} => run = "OPEN"
             /\ pc[Controller] \in {"copying", "undoing"} => marker = "durable"
             /\ pc[Controller] = "unmarking" => store = "absent"
             /\ pc[Controller] \in {"emptying", "unstoring"} => memory = "retained"
             /\ \A p \in Procs : pc[p] = "swept" => Clean

SurfaceInv == Knowledge /\ CredentialsAreMarked /\ TerminalRunIsClean

LEMMA SurfaceKeepsSurfaces == Order /\ SurfaceInv /\ Surface => SurfaceInv'
<1>. SUFFICES ASSUME Order, SurfaceInv, Surface PROVE SurfaceInv'
  OBVIOUS
<1>. USE ControllerIsProc, ProcessAssumption DEF Order, Seats, LockHeld, InLock, Procs, TransportTypes,
         SurfaceInv, Knowledge, Clean, RootsGone, CredentialsAreMarked, TerminalRunIsClean
<1>1. CASE AcquireStore \/ AcquireRefused
  BY <1>1 DEF AcquireStore, AcquireRefused, Acquirable
<1>2. CASE MarkStore \/ MarkStoreFails
  BY <1>2 DEF MarkStore, MarkStoreFails
<1>3. CASE CopyCredentials \/ CopyFails
  BY <1>3 DEF CopyCredentials, CopyFails
<1>4. CASE UndoStore \/ UndoMarker \/ UndoFails
  BY <1>4 DEF UndoStore, UndoMarker, UndoFails
<1>5. CASE PrepareRefused \/ EmptyStore
  BY <1>5 DEF PrepareRefused, EmptyStore
<1>6. CASE EmptyCredentials \/ EmptyMarker
  BY <1>6 DEF EmptyCredentials, EmptyMarker, ShrinkStore, StoreBound
<1>7. CASE EmptyingFails
  BY <1>7 DEF EmptyingFails
<1>8. CASE Prepare(This) \/ MarkRoot(This) \/ MarkRootFails(This)
  BY <1>8 DEF Prepare, MarkRoot, MarkRootFails
<1>9. CASE Spawn(This)
  BY <1>9 DEF Spawn
<1>10. CASE \E i \in Invs : EmptyTransport(i) \/ PiExits(i)
  BY <1>10 DEF EmptyTransport, PiExits, Removable, CanBeRemoved
<1>. QED
  BY <1>1, <1>2, <1>3, <1>4, <1>5, <1>6, <1>7, <1>8, <1>9, <1>10 DEF Surface

LEMMA SweepKeepsSurfaces == \A p \in Procs : Order /\ SurfaceInv /\ Sweeps(p) => SurfaceInv'
<1>. SUFFICES ASSUME NEW p \in Procs, Order, SurfaceInv, Sweeps(p) PROVE SurfaceInv'
  OBVIOUS
<1>. USE ControllerIsProc, ProcessAssumption DEF Order, Seats, LockHeld, InLock, Procs, TransportTypes,
         SurfaceInv, Knowledge, Clean, RootsGone, CredentialsAreMarked, TerminalRunIsClean
<1>1. CASE CallOperator(p) \/ SweepDenied(p)
  BY <1>1 DEF CallOperator, SweepDenied
<1>2. CASE StartSweep(p) \/ SweepRefused(p)
  BY <1>2 DEF StartSweep, SweepRefused, MayStart
<1>3. CASE SweepRoot(p)
  BY <1>3 DEF SweepRoot
<1>4. CASE SweepStore(p) \/ SweepMarker(p)
  BY <1>4 DEF SweepStore, SweepMarker, ShrinkStore
<1>5. CASE SweepFails(p) \/ EndSweep(p) \/ EndingFails(p)
  BY <1>5 DEF SweepFails, EndSweep, EndingFails
<1>6. CASE Crash(p)
  BY <1>6 DEF Crash
<1>. QED
  BY <1>1, <1>2, <1>3, <1>4, <1>5, <1>6 DEF Sweeps

LEMMA AttemptKeepsSurfaces == Order /\ SurfaceInv /\ Attempt => SurfaceInv'
<1>. SUFFICES ASSUME Order, SurfaceInv, Attempt PROVE SurfaceInv'
  OBVIOUS
<1>. USE ControllerIsProc, ProcessAssumption DEF Order, LockHeld, InLock, Procs, TransportTypes,
         SurfaceInv, Knowledge, Clean, RootsGone, CredentialsAreMarked, TerminalRunIsClean
<1>1. CASE CleanupBegins
  BY <1>1 DEF CleanupBegins, RemoveTransport, Removable
<1>2. CASE CleanupEnds \/ CleanupFails
  BY <1>2 DEF CleanupEnds, CleanupFails, RecordTypes, Attempts
<1>3. CASE Paperwork
  BY <1>3 DEF Paperwork, Desk
<1>. QED
  BY <1>1, <1>2, <1>3, AttemptForms

-----------------------------------------------------------------------------
(* The processes: a transport can be removed only when its process is gone, and no sweep passes *)
(* between the preparation of an invocation and its spawn.                                      *)

Starting == {"acquire", "marking", "copying", "prepare", "rooting"}

Transported == /\ \A i \in Invs : pi[i] = "running" => transports[i] = "spawned"
               /\ \A i \in Invs : transports[i] # "none" => ledger[i] # "none"
               /\ pc[Controller] \in Starting => transports[This] = "none"
               /\ pc[Controller] = "uprooting" => transports[This] = "leaving"

Prompt == /\ pc[Controller] = "prepared" => holder = None /\ roots[This] = "marked"
          /\ \A p \in Procs : pc[p] \in {"removing", "swept"} => \A i \in Invs : pi[i] # "running"
          /\ SurfacesOutliveProcesses

ProcessInv == Transported /\ (SpawnIsPrompt => Prompt)

LEMMA SurfaceKeepsProcesses == Order /\ ProcessInv /\ Surface /\ UNCHANGED <<attempt, records>> => ProcessInv'
<1>. SUFFICES ASSUME Order, ProcessInv, Surface, UNCHANGED <<attempt, records>> PROVE ProcessInv'
  OBVIOUS
<1>. USE ControllerIsProc, ProcessAssumption DEF Order, InProgress, Active, Seats, LockHeld, InLock, Procs,
         TransportTypes, ProcessInv, Transported, Starting, Prompt, SurfacesOutliveProcesses
<1>1. CASE AcquireStore \/ AcquireRefused
  BY <1>1 DEF AcquireStore, AcquireRefused, Acquirable
<1>2. CASE MarkStore \/ MarkStoreFails
  BY <1>2 DEF MarkStore, MarkStoreFails
<1>3. CASE CopyCredentials \/ CopyFails
  BY <1>3 DEF CopyCredentials, CopyFails
<1>4. CASE UndoStore \/ UndoMarker \/ UndoFails
  BY <1>4 DEF UndoStore, UndoMarker, UndoFails
<1>5. CASE PrepareRefused \/ EmptyStore
  BY <1>5 DEF PrepareRefused, EmptyStore
<1>6. CASE EmptyCredentials \/ EmptyMarker
  BY <1>6 DEF EmptyCredentials, EmptyMarker, ShrinkStore, StoreBound
<1>7. CASE EmptyingFails
  BY <1>7 DEF EmptyingFails
<1>8. CASE Prepare(This) \/ MarkRoot(This) \/ MarkRootFails(This)
  BY <1>8 DEF Prepare, MarkRoot, MarkRootFails
<1>9. CASE Spawn(This)
  BY <1>9 DEF Spawn
<1>10. CASE \E i \in Invs : EmptyTransport(i) \/ PiExits(i)
  BY <1>10 DEF EmptyTransport, PiExits, Removable, CanBeRemoved
<1>. QED
  BY <1>1, <1>2, <1>3, <1>4, <1>5, <1>6, <1>7, <1>8, <1>9, <1>10 DEF Surface

LEMMA SweepKeepsProcesses ==
    \A p \in Procs : Order /\ ProcessInv /\ Sweeps(p) /\ UNCHANGED <<attempt, records>> => ProcessInv'
<1>. SUFFICES ASSUME NEW p \in Procs, Order, ProcessInv, Sweeps(p), UNCHANGED <<attempt, records>>
              PROVE  ProcessInv'
  OBVIOUS
<1>. USE ControllerIsProc, ProcessAssumption, KilledType DEF Order, InProgress, Active, Seats, LockHeld, InLock,
         Procs, TransportTypes, ProcessInv, Transported, Starting, Prompt, SurfacesOutliveProcesses
<1>1. CASE CallOperator(p) \/ SweepDenied(p)
  BY <1>1 DEF CallOperator, SweepDenied
<1>2. CASE StartSweep(p) \/ SweepRefused(p)
  <2>1. PICK S \in SUBSET Marked : pi' = Killed(S) /\ (StartSweep(p) => S = Marked)
    BY <1>2 DEF StartSweep, SweepRefused
  <2>2. \A i \in Invs : pi'[i] = "running" => pi[i] = "running" /\ i \notin S
    BY <2>1
  <2>3. SpawnIsPrompt /\ StartSweep(p) => \A i \in Invs : pi'[i] # "running"
    BY <2>1, <2>2 DEF Marked
  <2>4. pc' = [pc EXCEPT ![p] = pc'[p]] /\ pc'[p] \in {"removing", "out", "ended"}
        /\ (pc'[p] = "removing" => StartSweep(p))
    BY <1>2 DEF StartSweep, SweepRefused
  <2>5. /\ UNCHANGED <<roots, transports>>
        /\ (SpawnIsPrompt => pc[Controller] # "prepared")
    BY <1>2 DEF StartSweep, SweepRefused, MayStart
  <2>. QED
    BY <2>2, <2>3, <2>4, <2>5
<1>3. CASE SweepRoot(p)
  BY <1>3 DEF SweepRoot
<1>4. CASE SweepStore(p) \/ SweepMarker(p)
  BY <1>4 DEF SweepStore, SweepMarker, ShrinkStore
<1>5. CASE SweepFails(p) \/ EndSweep(p) \/ EndingFails(p)
  BY <1>5 DEF SweepFails, EndSweep, EndingFails
<1>6. CASE Crash(p)
  BY <1>6 DEF Crash
<1>. QED
  BY <1>1, <1>2, <1>3, <1>4, <1>5, <1>6 DEF Sweeps

LEMMA LedgerStarts ==
    RecordTypes /\ InProgress /\ Attempt => \A i \in Invs : ledger[i] # "none" => ledger'[i] # "none"
<1>. SUFFICES ASSUME RecordTypes, Attempt, NEW i \in Invs, ledger[i] # "none" PROVE ledger'[i] # "none"
  OBVIOUS
<1>. QED
  BY DEF RecordTypes, Attempt, Finish, Abandon, SpawnRefused, Settle, Quiesce, QuiesceUnrecorded, QuiesceFails,
         RejectUnquiet, Quiet, Unquiet, Observe, CleanupBegins, CleanupEnds, CleanupSkipped,
         CleanupFails, Prove, ProofFails, Parse, Complete, Answer, Unanswerable, Accept, AcceptFails,
         Assess, CatchQuiesce, CatchQuiet, RecordFailure, ReconcileFailure, NothingToClose,
         ReconcileOrphans, Begin

LEMMA AttemptKeepsProcesses == Order /\ ProcessInv /\ Attempt => ProcessInv'
<1>. SUFFICES ASSUME Order, ProcessInv, Attempt PROVE ProcessInv'
  OBVIOUS
<1>. USE ControllerIsProc, ProcessAssumption, KilledType, LedgerStarts
         DEF Order, InProgress, Active, Seats, LockHeld, InLock, Procs, TransportTypes, RecordTypes, Attempts,
             ProcessInv, Transported, Starting, Prompt, SurfacesOutliveProcesses
<1>1. CASE CleanupBegins
  BY <1>1 DEF CleanupBegins, RemoveTransport, Removable, CanBeRemoved
<1>2. CASE CleanupEnds
  BY <1>2 DEF CleanupEnds
<1>3. CASE CleanupFails
  BY <1>3 DEF CleanupFails
<1>4. CASE \E i \in Invs : Begin(i)
  BY <1>4 DEF Begin, Fresh
<1>5. CASE Paperwork /\ Calls /\ ~(\E i \in Invs : Begin(i))
  <2>1. Transported'
    BY <1>5 DEF Paperwork, Desk, Calls
  <2>2. SpawnIsPrompt => Prompt'
    BY <1>5 DEF Paperwork, Desk, Calls
  <2>. QED
    BY <2>1, <2>2
<1>. QED
  BY <1>1, <1>2, <1>3, <1>4, <1>5, AttemptForms, AttemptCalls

-----------------------------------------------------------------------------
(* The answers: an invocation goes through its places once, and what is known of it in each place *)
(* is still so when its response is written.                                                      *)

\* Before a response can be on disk.
Unanswered == {"acquire", "marking", "copying", "undoing", "unmarking", "prepare", "rooting", "prepared",
               "running", "settled", "quiet", "unquiet", "cleaning", "uprooting", "cleaned", "parse",
               "complete", "answer", "caught"}

\* What the observations of an invocation in progress are worth.
Observed == /\ attempt.good => pi[This] # "none"
            /\ attempt.quiet = "verified" => pi[This] # "running"
            /\ attempt.clean => roots[This] = "absent"
            /\ attempt.next = "complete" /\ attempt.good => attempt.quiet = "verified" /\ proof[This] = "passed"

Course == /\ pc[Controller] \in Unanswered => This \notin response
          /\ pc[Controller] \in Starting \cup {"prepared"} => attempt = Fresh(This)
          /\ pc[Controller] = "running" => pi[This] # "none"
          /\ pc[Controller] \in {"running", "settled"} => attempt.next = "cleaned"
          /\ pc[Controller] = "cleaned" => attempt.next = "cleaned"
          /\ pc[Controller] = "parse" => attempt.next = "complete" /\ attempt.good
          /\ pc[Controller] \in {"complete", "answer"} => attempt.next = "complete"
          /\ pc[Controller] = "semantic" => This \in response
          /\ pc[Controller] = "assess" /\ attempt.good => This \in response /\ This \in semantic

AnswerInv == /\ ResponsesAreProven
             /\ \A i \in response : ledger[i] # "none"
             /\ This \in Invs => Observed
             /\ Course

LEMMA SurfaceKeepsAnswers == Order /\ AnswerInv /\ ProcessInv /\ Surface /\ UNCHANGED <<attempt, records>> => AnswerInv'
<1>. SUFFICES ASSUME Order, AnswerInv, ProcessInv, Surface, UNCHANGED <<attempt, records>> PROVE AnswerInv'
  OBVIOUS
<1>. USE ControllerIsProc DEF Order, InProgress, Active, TransportTypes, RecordTypes, Attempts, Fresh,
         AnswerInv, Observed, Course, Unanswered, Starting, ResponsesAreProven
<1>1. CASE AcquireStore \/ AcquireRefused
  BY <1>1 DEF AcquireStore, AcquireRefused
<1>2. CASE MarkStore \/ MarkStoreFails
  BY <1>2 DEF MarkStore, MarkStoreFails
<1>3. CASE CopyCredentials \/ CopyFails
  BY <1>3 DEF CopyCredentials, CopyFails
<1>4. CASE UndoStore \/ UndoMarker \/ UndoFails
  BY <1>4 DEF UndoStore, UndoMarker, UndoFails
<1>5. CASE PrepareRefused \/ EmptyStore
  BY <1>5 DEF PrepareRefused, EmptyStore
<1>6. CASE EmptyCredentials \/ EmptyMarker
  BY <1>6 DEF EmptyCredentials, EmptyMarker
<1>7. CASE EmptyingFails
  BY <1>7 DEF EmptyingFails
<1>8. CASE Prepare(This) \/ MarkRoot(This) \/ MarkRootFails(This)
  BY <1>8 DEF Prepare, MarkRoot, MarkRootFails
<1>9. CASE Spawn(This)
  BY <1>9 DEF Spawn
<1>10. CASE \E i \in Invs : EmptyTransport(i) \/ PiExits(i)
  BY <1>10 DEF EmptyTransport, PiExits, Removable, CanBeRemoved
<1>. QED
  BY <1>1, <1>2, <1>3, <1>4, <1>5, <1>6, <1>7, <1>8, <1>9, <1>10 DEF Surface

LEMMA SweepKeepsAnswers ==
    \A p \in Procs : Order /\ AnswerInv /\ Sweeps(p) /\ UNCHANGED <<attempt, records>> => AnswerInv'
<1>. SUFFICES ASSUME NEW p \in Procs, Order, AnswerInv, Sweeps(p), UNCHANGED <<attempt, records>>
              PROVE  AnswerInv'
  OBVIOUS
<1>. USE ControllerIsProc, KilledType DEF Order, InProgress, Active, TransportTypes, RecordTypes, Attempts,
         AnswerInv, Observed, Course, Unanswered, Starting, ResponsesAreProven
<1>1. CASE CallOperator(p) \/ SweepDenied(p)
  BY <1>1 DEF CallOperator, SweepDenied
<1>2. CASE StartSweep(p) \/ SweepRefused(p)
  BY <1>2 DEF StartSweep, SweepRefused, MayStart
<1>3. CASE SweepRoot(p)
  BY <1>3 DEF SweepRoot
<1>4. CASE SweepStore(p) \/ SweepMarker(p)
  BY <1>4 DEF SweepStore, SweepMarker
<1>5. CASE SweepFails(p) \/ EndSweep(p) \/ EndingFails(p)
  BY <1>5 DEF SweepFails, EndSweep, EndingFails
<1>6. CASE Crash(p)
  BY <1>6 DEF Crash
<1>. QED
  BY <1>1, <1>2, <1>3, <1>4, <1>5, <1>6 DEF Sweeps

LEMMA AttemptKeepsAnswers == Order /\ AnswerInv /\ ProcessInv /\ Attempt => AnswerInv'
<1>. SUFFICES ASSUME Order, AnswerInv, ProcessInv, Attempt PROVE AnswerInv'
  OBVIOUS
<1>. USE ControllerIsProc, KilledType DEF Order, InProgress, Active, TransportTypes, RecordTypes, Attempts,
         AnswerInv, Observed, Course, Unanswered, Starting, ResponsesAreProven
<1>1. CASE Finish \/ Abandon \/ SpawnRefused \/ NothingToClose
  BY <1>1 DEF Finish, Abandon, SpawnRefused, NothingToClose, Fresh
<1>2. CASE Settle \/ Parse
  BY <1>2 DEF Settle, Parse
<1>3. CASE Quiesce \/ QuiesceUnrecorded \/ QuiesceFails
  BY <1>3 DEF Quiesce, QuiesceUnrecorded, QuiesceFails, Quiet, Unquiet
<1>4. CASE RejectUnquiet \/ CleanupSkipped
  BY <1>4 DEF RejectUnquiet, CleanupSkipped
<1>5. CASE Observe
  BY <1>5 DEF Observe
<1>6. CASE CleanupBegins
  BY <1>6 DEF CleanupBegins, RemoveTransport, Removable
<1>7. CASE CleanupEnds
  BY <1>7 DEF CleanupEnds
<1>8. CASE CleanupFails
  BY <1>8 DEF CleanupFails
<1>9. CASE Prove
  BY <1>9 DEF Prove, Gate
<1>10. CASE ProofFails
  BY <1>10 DEF ProofFails
<1>11. CASE Complete \/ Answer \/ Unanswerable
  BY <1>11 DEF Complete, Answer, Unanswerable, Answerable
<1>12. CASE Accept \/ AcceptFails
  BY <1>12 DEF Accept, AcceptFails
<1>13. CASE Assess
  BY <1>13, NoInvAssumption DEF Assess, Fresh
<1>14. CASE CatchQuiesce \/ CatchQuiet
  <2>1. /\ attempt'.inv = attempt.inv /\ attempt'.good = attempt.good /\ attempt'.clean = attempt.clean
        /\ attempt'.next = "failed"
    BY <1>14 DEF CatchQuiesce, CatchQuiet
  <2>2. /\ pi' \in {pi, Killed({This})}
        /\ attempt'.quiet = "verified" => attempt.quiet = "verified" \/ pi' = Killed({This})
    BY <1>14 DEF CatchQuiesce, CatchQuiet
  <2>3. /\ pc[Controller] = "caught" /\ pc'[Controller] = "cleaning"
        /\ UNCHANGED <<roots, records>>
    BY <1>14 DEF CatchQuiesce, CatchQuiet
  <2>4. \A i \in Invs : (pi[i] # "none" => pi'[i] # "none") /\ (pi[i] = "gone" => pi'[i] = "gone")
    BY <2>2
  <2>5. ResponsesAreProven'
    BY <2>3, <2>4
  <2>6. This' \in Invs => Observed'
    BY <2>1, <2>2, <2>3, <2>4
  <2>. QED
    BY <2>1, <2>3, <2>5, <2>6
<1>15. CASE RecordFailure \/ ReconcileFailure
  BY <1>15 DEF RecordFailure, ReconcileFailure
<1>16. CASE ReconcileOrphans
  BY <1>16 DEF ReconcileOrphans
<1>17. CASE \E i \in Invs : Begin(i)
  BY <1>17 DEF Begin, Fresh
<1>. QED
  BY <1>1, <1>2, <1>3, <1>4, <1>5, <1>6, <1>7, <1>8, <1>9, <1>10, <1>11, <1>12, <1>13, <1>14, <1>15, <1>16,
     <1>17 DEF Attempt

-----------------------------------------------------------------------------
(* The whole. *)

IInv == Order /\ SurfaceInv /\ ProcessInv /\ AnswerInv

LEMMA Initially == Init => IInv
<1>. SUFFICES ASSUME Init PROVE IInv
  OBVIOUS
<1>. USE ControllerIsProc, NoInvAssumption, ProcessAssumption DEF Init, InitTransport
<1>1. TransportTypes
  BY CrashAssumption DEF TransportTypes, PcStates, TransportStates, Procs
<1>2. RecordTypes
  BY DEF RecordTypes, Attempts, Fresh
<1>3. InProgress /\ Seats /\ LockHeld
  BY DEF InProgress, Active, Seats, LockHeld, InLock, Procs, Fresh
<1>4. SurfaceInv
  BY DEF SurfaceInv, Knowledge, CredentialsAreMarked, TerminalRunIsClean, Procs
<1>5. ProcessInv
  BY DEF ProcessInv, Transported, Starting, Prompt, SurfacesOutliveProcesses, Procs
<1>6. AnswerInv
  BY DEF AnswerInv, ResponsesAreProven, Course, Unanswered, Starting, Fresh
<1>. QED
  BY <1>1, <1>2, <1>3, <1>4, <1>5, <1>6 DEF IInv, Order

LEMMA Continues == IInv /\ [Next]_vars => IInv'
<1>. SUFFICES ASSUME IInv, [Next]_vars PROVE IInv'
  OBVIOUS
<1>. USE DEF IInv
<1>1. CASE Surface /\ UNCHANGED <<attempt, records>>
  <2>1. RecordTypes'
    BY <1>1 DEF Order, RecordTypes, Attempts
  <2>. QED
    BY <1>1, <2>1, SurfaceTypes, SurfaceOrder, SurfaceKeepsSurfaces, SurfaceKeepsProcesses, SurfaceKeepsAnswers
       DEF Order
<1>2. CASE Attempt
  BY <1>2, AttemptTypes, AttemptRecords, AttemptOrder, AttemptKeepsSurfaces, AttemptKeepsProcesses,
     AttemptKeepsAnswers DEF Order
<1>3. CASE \E p \in Procs : Sweeps(p) /\ UNCHANGED <<attempt, records>>
  <2>1. RecordTypes'
    BY <1>3 DEF Order, RecordTypes, Attempts
  <2>. QED
    BY <1>3, <2>1, SweepTypes, SweepOrder, SweepKeepsSurfaces, SweepKeepsProcesses, SweepKeepsAnswers DEF Order
<1>4. CASE UNCHANGED vars
  <2>1. Order'
    BY <1>4 DEF vars, transportVars, Order, TransportTypes, RecordTypes, Attempts, InProgress, Seats, LockHeld
  <2>2. SurfaceInv'
    BY <1>4 DEF vars, transportVars, SurfaceInv, Knowledge, Clean, RootsGone, CredentialsAreMarked,
                TerminalRunIsClean
  <2>3. ProcessInv'
    BY <1>4 DEF vars, transportVars, ProcessInv, Transported, Prompt, SurfacesOutliveProcesses
  <2>4. AnswerInv'
    BY <1>4 DEF vars, transportVars, AnswerInv, ResponsesAreProven, Observed, Course
  <2>. QED
    BY <2>1, <2>2, <2>3, <2>4
<1>. QED
  BY <1>1, <1>2, <1>3, <1>4 DEF Next

LEMMA Always == Spec => []IInv
BY Initially, Continues, PTL DEF Spec

\* Every value stays in its type.
THEOREM TypeCorrect == Spec => []TypeOK
<1>1. IInv => TypeOK
  BY TypesSplit DEF IInv, Order
<1>. QED
  BY <1>1, Always, PTL

\* Wherever a process dies or a removal stops, credentials on disk have the marker that tells whose
\* they are.
THEOREM CredentialsStayMarked == Spec => []CredentialsAreMarked
<1>1. IInv => CredentialsAreMarked
  BY DEF IInv, SurfaceInv
<1>. QED
  BY <1>1, Always, PTL

\* A run that has ended has no surface left and gains none, whoever ended it and whatever its
\* controller was doing.
THEOREM EndedRunsAreClean == Spec => []TerminalRunIsClean
<1>1. IInv => TerminalRunIsClean
  BY DEF IInv, SurfaceInv
<1>. QED
  BY <1>1, Always, PTL

\* If no sweep begins between the preparation of an invocation and its spawn, nobody removes the
\* surface of a process that is not yet proven absent.
THEOREM LiveSurfacesStay == ASSUME SpawnIsPrompt PROVE Spec => []SurfacesOutliveProcesses
<1>1. IInv => SurfacesOutliveProcesses
  BY DEF IInv, ProcessInv, Prompt
<1>. QED
  BY <1>1, Always, PTL

\* No response is on disk without a passed proof of a process that is gone and a directory that is
\* removed, and the ledger accepts nothing else.
THEOREM AnswersAreProven == Spec => []ResponsesAreProven
<1>1. IInv => ResponsesAreProven
  BY DEF IInv, AnswerInv
<1>. QED
  BY <1>1, Always, PTL

-----------------------------------------------------------------------------
(* The custody of the credentials. *)

LEMMA CustodyBegins == Init => CC!Init
BY DEF Init, InitTransport, CC!Init, Custody

\* Whoever is in the middle of a removal by the controller remembers the store it removes.
LEMMA SurfaceCustody ==
    Order /\ SurfaceInv /\ Surface => CC!Take \/ CC!GiveBack \/ UNCHANGED <<run, Custody>>
<1>. SUFFICES ASSUME Order, SurfaceInv, Surface
              PROVE  CC!Take \/ CC!GiveBack \/ UNCHANGED <<run, Custody>>
  OBVIOUS
<1>. USE DEF SurfaceInv, Knowledge, Custody, CC!Take, CC!GiveBack, Order, TransportTypes
<1>1. CASE AcquireStore \/ AcquireRefused
  BY <1>1 DEF AcquireStore, AcquireRefused, Acquirable
<1>2. CASE MarkStore \/ MarkStoreFails
  BY <1>2 DEF MarkStore, MarkStoreFails
<1>3. CASE CopyCredentials \/ CopyFails
  BY <1>3 DEF CopyCredentials, CopyFails
<1>4. CASE UndoStore \/ UndoMarker \/ UndoFails
  BY <1>4 DEF UndoStore, UndoMarker, UndoFails
<1>5. CASE PrepareRefused \/ EmptyStore
  BY <1>5 DEF PrepareRefused, EmptyStore
<1>6. CASE EmptyCredentials \/ EmptyMarker
  BY <1>6 DEF EmptyCredentials, EmptyMarker, ShrinkStore, StoreBound
<1>7. CASE EmptyingFails
  BY <1>7 DEF EmptyingFails
<1>8. CASE Prepare(This) \/ MarkRoot(This) \/ MarkRootFails(This)
  BY <1>8 DEF Prepare, MarkRoot, MarkRootFails
<1>9. CASE Spawn(This)
  BY <1>9 DEF Spawn
<1>10. CASE \E i \in Invs : EmptyTransport(i) \/ PiExits(i)
  BY <1>10 DEF EmptyTransport, PiExits
<1>. QED
  BY <1>1, <1>2, <1>3, <1>4, <1>5, <1>6, <1>7, <1>8, <1>9, <1>10 DEF Surface

LEMMA SweepCustody ==
    \A p \in Procs : Order /\ SurfaceInv /\ Sweeps(p) => CC!GiveBack \/ CC!Close \/ UNCHANGED <<run, Custody>>
<1>. SUFFICES ASSUME NEW p \in Procs, Order, SurfaceInv, Sweeps(p)
              PROVE  CC!GiveBack \/ CC!Close \/ UNCHANGED <<run, Custody>>
  OBVIOUS
<1>. USE DEF SurfaceInv, Knowledge, Custody, CC!GiveBack, CC!Close, Order, TransportTypes
<1>1. CASE CallOperator(p) \/ SweepDenied(p)
  BY <1>1 DEF CallOperator, SweepDenied
<1>2. CASE StartSweep(p) \/ SweepRefused(p)
  BY <1>2 DEF StartSweep, SweepRefused
<1>3. CASE SweepRoot(p)
  BY <1>3 DEF SweepRoot
<1>4. CASE SweepStore(p) \/ SweepMarker(p)
  BY <1>4 DEF SweepStore, SweepMarker, ShrinkStore
<1>5. CASE SweepFails(p) \/ EndSweep(p) \/ EndingFails(p)
  BY <1>5 DEF SweepFails, EndSweep, EndingFails, Clean
<1>6. CASE Crash(p)
  BY <1>6 DEF Crash
<1>. QED
  BY <1>1, <1>2, <1>3, <1>4, <1>5, <1>6 DEF Sweeps

LEMMA CustodyContinues == IInv /\ [Next]_vars => [CC!Take \/ CC!GiveBack \/ CC!Close]_CC!vars
<1>. SUFFICES ASSUME IInv, [Next]_vars PROVE [CC!Take \/ CC!GiveBack \/ CC!Close]_CC!vars
  OBVIOUS
<1>. USE DEF IInv, CC!vars
<1>1. CASE Surface
  BY <1>1, SurfaceCustody
<1>2. CASE Attempt
  <2>1. UNCHANGED <<run, store, memory>>
    BY <1>2, AttemptForms DEF Order, Paperwork, CleanupBegins, RemoveTransport, CleanupEnds, CleanupFails
  <2>. QED
    BY <2>1 DEF Custody
<1>3. CASE \E p \in Procs : Sweeps(p)
  BY <1>3, SweepCustody
<1>4. CASE UNCHANGED vars
  BY <1>4 DEF vars, transportVars, Custody
<1>. QED
  BY <1>1, <1>2, <1>3, <1>4 DEF Next

\* The credentials of a run are taken once, while it is open, and given up before it is closed:
\* the transport implements that promise under every interleaving of its processes and failures.
THEOREM Refinement == Spec => ImplementsCustody
BY Always, CustodyBegins, CustodyContinues, PTL DEF Spec, ImplementsCustody, CC!Spec

=============================================================================
