---------------------------- MODULE SolTransport ----------------------------
(***************************************************************************)
(* The surfaces of the SOL transport of one run, src/src/controller/       *)
(* sol-transport.mjs: the isolated credential store with its marker        *)
(* outside, one directory per invocation with its marker inside, and the   *)
(* Pi processes that use them.  The controller of the run creates and      *)
(* removes surfaces; operators (recover, finalize, abort, the start of     *)
(* another run) sweep them.  All of it happens under the lock of the run,  *)
(* except the spawn of Pi.  Each step is one effect on disk, so that a     *)
(* process may die between any two.                                        *)
(***************************************************************************)
EXTENDS Naturals

CONSTANTS
    Invs,           \* SOL invocations the controller may make
    Controller,     \* the process that created the run
    Operators,      \* processes that end the run, or sweep it once it has ended
    None,           \* no process
    Faults,         \* what may fail: subset of AllFaults
    MaxCrashes,     \* how many processes die
    SpawnIsPrompt   \* no sweep begins between the preparation of an invocation and its spawn

\* marker: a marker is not written, or in part    auth: nor is the copy of the credentials
\* remove: a removal stops half-way               unverified: the process table is unreadable
\* lock: the lock's deadline passes               evidence, ledger: a record is not written
AllFaults == {"marker", "auth", "remove", "unverified", "lock", "evidence", "ledger"}

ASSUME ProcessAssumption == Controller \notin Operators /\ None \notin Operators \cup {Controller}
ASSUME FaultAssumption == Faults \subseteq AllFaults
ASSUME CrashAssumption == MaxCrashes \in Nat
ASSUME SpawnAssumption == SpawnIsPrompt \in BOOLEAN

VARIABLES
    run,            \* lifecycleState of run.json: "OPEN" or "TERMINAL"
    store,          \* the store directory: "absent", "bare" or "credentials"
    marker,         \* its marker: "absent", "torn" or "durable"
    roots,          \* directory of each invocation: "absent", "unmarked" or "marked"
    pi,             \* Pi processes of each invocation: "none", "running" or "gone"
    holder,         \* process in the run lock
    pc,             \* where each process is
    again,          \* it is in the second round of removing the store, or of sweeping
    memory,         \* what the controller remembers of the store: "none", "retained", "retired"
    transports,     \* what it remembers of each invocation's transport
    crashes

Procs == {Controller} \cup Operators
Fault(f) == f \in Faults
Goto(p, place) == pc' = [pc EXCEPT ![p] = place]
TransportStates == {"none", "prepared", "spawned", "absent", "leaving", "removed"}

surfaces == <<store, marker, roots>>
recollection == <<memory, transports>>

InitTransport == /\ run = "OPEN"
                 /\ store = "absent"
                 /\ marker = "absent"
                 /\ roots = [i \in Invs |-> "absent"]
                 /\ pi = [i \in Invs |-> "none"]
                 /\ holder = None
                 /\ pc = [p \in Procs |-> IF p = Controller THEN "idle" ELSE "out"]
                 /\ again = [p \in Procs |-> FALSE]
                 /\ memory = "none"
                 /\ transports = [i \in Invs |-> "none"]
                 /\ crashes = 0

-----------------------------------------------------------------------------
(* acquireCodexSolStore: directory, marker, credentials, in this order. *)

Acquirable == run = "OPEN" /\ memory = "none" /\ store = "absent"

AcquireStore == /\ pc[Controller] = "acquire"
                /\ holder = None
                /\ Acquirable
                /\ store' = "bare"
                /\ holder' = Controller
                /\ Goto(Controller, "marking")
                /\ UNCHANGED <<run, marker, roots, pi, again, recollection, crashes>>

AcquireRefused == /\ pc[Controller] = "acquire"
                  /\ (holder = None /\ ~Acquirable) \/ Fault("lock")
                  /\ Goto(Controller, "caught")
                  /\ UNCHANGED <<run, surfaces, pi, holder, again, recollection, crashes>>

MarkStore == /\ pc[Controller] = "marking"
             /\ marker = "absent"
             /\ marker' = "durable"
             /\ Goto(Controller, "copying")
             /\ UNCHANGED <<run, store, roots, pi, holder, again, recollection, crashes>>

\* The pinned Pi cannot be copied, a marker is there already, or it is not
\* written whole.  Nothing is undone: the inner try begins after the marker.
MarkStoreFails == /\ pc[Controller] = "marking"
                  /\ Fault("marker") \/ marker # "absent"
                  /\ marker' \in {marker} \cup (IF marker = "absent" THEN {"torn"} ELSE {})
                  /\ holder' = None
                  /\ Goto(Controller, "caught")
                  /\ UNCHANGED <<run, store, roots, pi, again, recollection, crashes>>

CopyCredentials == /\ pc[Controller] = "copying"
                   /\ store' = "credentials"
                   /\ memory' = "retained"
                   /\ holder' = None
                   /\ Goto(Controller, "prepare")
                   /\ UNCHANGED <<run, marker, roots, pi, again, transports, crashes>>

CopyFails == /\ pc[Controller] = "copying"
             /\ Fault("auth")
             /\ store' \in {"bare", "credentials"}
             /\ Goto(Controller, "undoing")
             /\ UNCHANGED <<run, marker, roots, pi, holder, again, recollection, crashes>>

UndoStore == /\ pc[Controller] = "undoing"
             /\ store' = "absent"
             /\ Goto(Controller, "unmarking")
             /\ UNCHANGED <<run, marker, roots, pi, holder, again, recollection, crashes>>

UndoMarker == /\ pc[Controller] = "unmarking"
              /\ marker' = "absent"
              /\ holder' = None
              /\ Goto(Controller, "caught")
              /\ UNCHANGED <<run, store, roots, pi, again, recollection, crashes>>

UndoFails == /\ pc[Controller] \in {"undoing", "unmarking"}
             /\ Fault("remove")
             /\ holder' = None
             /\ Goto(Controller, "caught")
             /\ UNCHANGED <<run, surfaces, pi, again, recollection, crashes>>

-----------------------------------------------------------------------------
(* prepareCodexSolInvocation and runSolPiProcess. *)

\* Faulty: the lifecycle is not read again under the lock.
PrepareUnchecked(i) == /\ pc[Controller] = "prepare"
                       /\ holder = None
                       /\ roots' = [roots EXCEPT ![i] = "unmarked"]
                       /\ holder' = Controller
                       /\ Goto(Controller, "rooting")
                       /\ UNCHANGED <<run, store, marker, pi, again, recollection, crashes>>

Prepare(i) == /\ pc[Controller] = "prepare"
              /\ holder = None
              /\ run = "OPEN"
              /\ roots' = [roots EXCEPT ![i] = "unmarked"]
              /\ holder' = Controller
              /\ Goto(Controller, "rooting")
              /\ UNCHANGED <<run, store, marker, pi, again, recollection, crashes>>

PrepareRefused == /\ pc[Controller] = "prepare"
                  /\ (holder = None /\ run # "OPEN") \/ Fault("lock")
                  /\ Goto(Controller, "caught")
                  /\ UNCHANGED <<run, surfaces, pi, holder, again, recollection, crashes>>

MarkRoot(i) == /\ pc[Controller] = "rooting"
               /\ roots' = [roots EXCEPT ![i] = "marked"]
               /\ transports' = [transports EXCEPT ![i] = "prepared"]
               /\ holder' = None
               /\ Goto(Controller, "prepared")
               /\ UNCHANGED <<run, store, marker, pi, again, memory, crashes>>

\* A failure before the transport is registered: its directory stays behind.
MarkRootFails(i) == /\ pc[Controller] = "rooting"
                    /\ Fault("marker")
                    /\ roots' \in {roots, [roots EXCEPT ![i] = "marked"]}
                    /\ holder' = None
                    /\ Goto(Controller, "caught")
                    /\ UNCHANGED <<run, store, marker, pi, again, recollection, crashes>>

Spawn(i) == /\ pc[Controller] = "prepared"
            /\ pi' = [pi EXCEPT ![i] = "running"]
            /\ transports' = [transports EXCEPT ![i] = "spawned"]
            /\ Goto(Controller, "running")
            /\ UNCHANGED <<run, surfaces, holder, again, memory, crashes>>

PiExits(i) == /\ pi[i] = "running"
              /\ pi' = [pi EXCEPT ![i] = "gone"]
              /\ UNCHANGED <<run, surfaces, holder, pc, again, recollection, crashes>>

-----------------------------------------------------------------------------
(* transport.remove and store.remove. *)

\* Faulty: the absence of the process is not waited for.
MayBeRunning(i) == transports[i] \in {"prepared", "spawned", "absent"}

\* confirmProcessAbsence was called, or a process that was never spawned.
CanBeRemoved(i) == transports[i] \in {"prepared", "absent"}
Removable(i) == CanBeRemoved(i) /\ roots[i] = "marked"
Registered == {i \in Invs : transports[i] \notin {"none", "removed"}}
StoreBound == store # "absent" /\ marker = "durable"

\* The marker inside goes first or with the rest; then the directory is absent.
TearRoot(i) == roots' = [roots EXCEPT ![i] = "unmarked"]
DropRoot(i) == roots' = [roots EXCEPT ![i] = "absent"]

\* transport.remove is in the middle of a removal.
Leaving(i) == transports' = [transports EXCEPT ![i] = "leaving"]
Left(i) == transports' = [transports EXCEPT ![i] = "removed"]
Stuck == transports' = [i \in Invs |-> IF transports[i] = "leaving" THEN "absent" ELSE transports[i]]

RemoveTransport(i) == /\ pc[Controller] = "cleaning"
                      /\ holder = None
                      /\ Removable(i)
                      /\ TearRoot(i) /\ Leaving(i)
                      /\ holder' = Controller
                      /\ Goto(Controller, "uprooting")
                      /\ UNCHANGED <<run, store, marker, pi, again, memory, crashes>>

EmptyStore == /\ pc[Controller] = "closing"
              /\ memory = "retained"
              /\ holder = None
              /\ holder' = Controller
              /\ Goto(Controller, "emptying")
              /\ UNCHANGED <<run, surfaces, pi, again, recollection, crashes>>

EmptyTransport(i) == /\ pc[Controller] = "emptying"
                     /\ i \in Registered
                     /\ \/ /\ \A j \in Invs : transports[j] # "leaving"
                           /\ Removable(i) /\ TearRoot(i) /\ Leaving(i)
                        \/ transports[i] = "leaving" /\ DropRoot(i) /\ Left(i)
                     /\ UNCHANGED <<run, store, marker, pi, holder, pc, again, memory, crashes>>

\* Credentials first, then the directory, and the marker outside it last.
ShrinkStore == store' = (IF store = "credentials" THEN "bare" ELSE "absent")

EmptyCredentials == /\ \/ pc[Controller] = "emptying" /\ Registered = {} /\ StoreBound
                       \/ pc[Controller] = "unstoring" /\ store # "absent"
                    /\ ShrinkStore
                    /\ Goto(Controller, "unstoring")
                    /\ UNCHANGED <<run, marker, roots, pi, holder, again, recollection, crashes>>

EmptyMarker == /\ pc[Controller] = "unstoring"
               /\ store = "absent"
               /\ marker' = "absent"
               /\ memory' = "retired"
               /\ holder' = None
               /\ Goto(Controller, "closed")
               /\ UNCHANGED <<run, store, roots, pi, again, transports, crashes>>

\* A transport whose process may live, or a surface somebody else has removed.
EmptyingBlocked == \/ \E i \in Registered : transports[i] # "leaving" /\ ~Removable(i)
                   \/ Registered = {} /\ ~StoreBound

\* The store is removed at the end of the run, and once more in its finally block.
EmptyingFails == /\ \/ pc[Controller] = "closing" /\ memory = "retained" /\ Fault("lock")
                    \/ pc[Controller] = "emptying" /\ (EmptyingBlocked \/ Fault("remove"))
                    \/ pc[Controller] = "unstoring" /\ Fault("remove")
                 /\ Stuck
                 /\ holder' = IF pc[Controller] = "closing" THEN holder ELSE None
                 /\ again' = [again EXCEPT ![Controller] = TRUE]
                 /\ Goto(Controller, IF again[Controller] THEN "closed" ELSE "closing")
                 /\ UNCHANGED <<run, surfaces, pi, memory, crashes>>

-----------------------------------------------------------------------------
(* sweepRunSolTransportSurfaces, before a run ends and again inside finalize or abort. *)

Marked == {i \in Invs : roots[i] = "marked"}

\* Faulty: a marker that outlived its store is one more reason to refuse.
UnboundStrictly == \/ store # "absent" /\ marker # "durable"
                   \/ store = "absent" /\ marker # "absent"
                   \/ \E i \in Invs : roots[i] = "unmarked"
                   \/ marker # "durable" /\ Marked # {}

\* markerSurfaces: what makes a sweep refuse to delete anything.
Unbound == \/ store # "absent" /\ marker # "durable"
           \/ store = "absent" /\ marker = "torn"
           \/ \E i \in Invs : roots[i] = "unmarked"
           \/ marker # "durable" /\ Marked # {}

\* An operator may be called again; the controller gives up.
Fail(p) == /\ Goto(p, IF p = Controller THEN "ended" ELSE "out")
           /\ again' = [again EXCEPT ![p] = FALSE]

Killed(S) == [i \in Invs |-> IF i \in S /\ pi[i] = "running" THEN "gone" ELSE pi[i]]

CallOperator(p) == /\ p \in Operators
                   /\ pc[p] = "out"
                   /\ Goto(p, "sweep")
                   /\ UNCHANGED <<run, surfaces, pi, holder, again, recollection, crashes>>

\* The second sweep is inside finalize, behind its check of run.json.
MayStart(p) == /\ pc[p] = "sweep"
               /\ holder = None
               /\ again[p] => run = "OPEN"
               /\ SpawnIsPrompt => pc[Controller] # "prepared"

\* Faulty: finalize trusts the sweep before it.
StartSweepOnce(p) == /\ MayStart(p)
                     /\ ~Unbound
                     /\ pi' = Killed(Marked)
                     /\ holder' = p
                     /\ Goto(p, IF again[p] THEN "swept" ELSE "removing")
                     /\ UNCHANGED <<run, surfaces, again, recollection, crashes>>

\* Every process that carries a marker found is terminated and seen to be gone.
StartSweep(p) == /\ MayStart(p)
                 /\ ~Unbound
                 /\ pi' = Killed(Marked)
                 /\ holder' = p
                 /\ Goto(p, "removing")
                 /\ UNCHANGED <<run, surfaces, again, recollection, crashes>>

SweepRefused(p) == /\ MayStart(p)
                   /\ Unbound \/ Fault("unverified")
                   /\ \E S \in SUBSET Marked : pi' = Killed(S)
                   /\ Fail(p)
                   /\ UNCHANGED <<run, surfaces, holder, recollection, crashes>>

SweepDenied(p) == /\ pc[p] = "sweep"
                  /\ (holder = None /\ again[p] /\ run # "OPEN") \/ Fault("lock")
                  /\ Fail(p)
                  /\ UNCHANGED <<run, surfaces, pi, holder, recollection, crashes>>

SweepRoot(p) == /\ pc[p] = "removing"
                /\ \E i \in Invs : \/ TearRoot(i) /\ roots[i] = "marked" /\ \A j \in Invs : roots[j] # "unmarked"
                                   \/ DropRoot(i) /\ roots[i] = "unmarked"
                /\ UNCHANGED <<run, store, marker, pi, holder, pc, again, recollection, crashes>>

RootsGone == \A i \in Invs : roots[i] = "absent"

SweepStore(p) == /\ pc[p] = "removing"
                 /\ RootsGone
                 /\ store # "absent"
                 /\ ShrinkStore
                 /\ memory' = IF store' = "absent" /\ p = Controller THEN "retired" ELSE memory
                 /\ UNCHANGED <<run, marker, roots, pi, holder, pc, again, transports, crashes>>

\* Faulty: the marker is removed before the store it binds.
SweepMarkerFirst(p) == /\ pc[p] = "removing"
                       /\ RootsGone
                       /\ marker' = "absent"
                       /\ Goto(p, IF store = "absent" THEN "swept" ELSE "removing")
                       /\ UNCHANGED <<run, store, roots, pi, holder, again, recollection, crashes>>

SweepMarker(p) == /\ pc[p] = "removing"
                  /\ RootsGone
                  /\ store = "absent"
                  /\ marker' = "absent"
                  /\ Goto(p, "swept")
                  /\ UNCHANGED <<run, store, roots, pi, holder, again, recollection, crashes>>

SweepFails(p) == /\ pc[p] = "removing"
                 /\ Fault("remove")
                 /\ holder' = None
                 /\ Fail(p)
                 /\ UNCHANGED <<run, surfaces, pi, recollection, crashes>>

\* The first sweep ends; the second is followed by the terminal record under the same lock.
EndSweep(p) == /\ pc[p] = "swept"
               /\ holder' = None
               /\ IF ~again[p]
                  THEN /\ again' = [again EXCEPT ![p] = run = "OPEN"]
                       /\ Goto(p, IF run = "OPEN" THEN "sweep" ELSE "ended")
                       /\ UNCHANGED run
                  ELSE /\ run' = "TERMINAL"
                       /\ Goto(p, "ended")
                       /\ UNCHANGED again
               /\ UNCHANGED <<surfaces, pi, recollection, crashes>>

\* The ledger is not valid, or run.json is not written.
EndingFails(p) == /\ pc[p] = "swept"
                  /\ again[p]
                  /\ Fault("ledger")
                  /\ holder' = None
                  /\ Fail(p)
                  /\ UNCHANGED <<run, surfaces, pi, recollection, crashes>>

\* A dead process holds no lock; an operator may be called again.
Crash(p) == /\ crashes < MaxCrashes
            /\ pc[p] \notin {"out", "ended"}
            /\ crashes' = crashes + 1
            /\ holder' = IF holder = p THEN None ELSE holder
            /\ Fail(p)
            /\ UNCHANGED <<run, surfaces, pi, recollection>>

Sweeps(p) == \/ CallOperator(p) \/ StartSweep(p) \/ SweepRefused(p) \/ SweepDenied(p)
             \/ SweepRoot(p) \/ SweepStore(p) \/ SweepMarker(p) \/ SweepFails(p)
             \/ EndSweep(p) \/ EndingFails(p) \/ Crash(p)
=============================================================================
