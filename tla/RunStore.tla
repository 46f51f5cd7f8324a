------------------------------ MODULE RunStore ------------------------------
(***************************************************************************)
(* One run directory and the sessions that work on it: src/src/runtime/    *)
(* run-store.mjs with the writer half of src/src/logging/ledger.mjs.       *)
(* A session is a process holding one RunStore object; it executes one     *)
(* operation at a time and each step below runs between two points where   *)
(* another session can act, or the process can die.                        *)
(*                                                                         *)
(* On disk: run.json, events.v2.jsonl and invocations/<id>.json.  In the   *)
(* memory of a session: the run record it read, and the events it has      *)
(* loaded or appended, which are a prefix of the file.  The run-dir lock   *)
(* is the one RunLock models, here reduced to its holder.                  *)
(***************************************************************************)
EXTENDS Ledger, FiniteSets

CONSTANTS
    Sessions,       \* sessions that may open the run
    None,           \* no session
    MaxLive,        \* how many sessions may be live at the same time
    Operations,     \* operations the sessions call: subset of AllOperations
    Faults          \* writes that may fail: subset of AllFaults

AllOperations == {"START", "COMPLETION", "ASSESSMENT", "RECONCILIATION",
                  "orphans", "finalize", "abort"}

\* refused:  the ledger line is not written     unsynced: it is, but fsync throws
\* short:    only part of it is, and writeSync says so in a result nobody reads
\* projection, record: writeJsonAtomic throws before its rename
\* release:  the lock's RELEASE record is not written
\* sweep:    the SOL transport sweep cannot prove the run clean
AllFaults == {"refused", "unsynced", "short", "projection", "record", "release", "sweep"}

ASSUME NoneAssumption == None \notin Sessions
ASSUME MaxLiveAssumption == MaxLive \in Nat
ASSUME OperationsAssumption == Operations \subseteq AllOperations
ASSUME FaultsAssumption == Faults \subseteq AllFaults

VARIABLES
    run,            \* run.json
    file,           \* events.v2.jsonl: "absent", "whole", or "torn" (partial last line)
    events,         \* its lines, the partial one included
    projection,     \* status shown by invocations/<id>.json, "NONE" without a file
    holder,         \* the session in the run-dir lock
    pc,             \* where each session is
    record,         \* run.json as the session last read or wrote it
    known,          \* how many events the session has in memory
    mine,           \* invocations the session holds a handle on
    request,        \* the event to append, or the terminal operation, in progress
    todo,           \* invocations reconcileOrphans has yet to reconcile
    verdict         \* the summary finalize verified

vars == <<run, file, events, projection, holder, pc, record, known, mine, request,
          todo, verdict>>

Finalized == {"COMPLETED", "INCOMPLETE_LEDGER"}
Terminal == Finalized \cup {"ABORTED"}

Summaries == [lastSeq : Nat, incomplete : SUBSET Invs]
RunRecords == [state : {"none", "OPEN"} \cup Terminal, summary : Summaries]
NoSummary == [lastSeq |-> 0, incomplete |-> {}]
Run(state, summary) == [state |-> state, summary |-> summary]
NoRun == Run("none", NoSummary)

NoEvent == Lifecycle("START", NoInv)
Requests == [op : {"none", "event", "finalize", "abort"}, event : Event \cup {NoEvent}]
Request(op, e) == [op |-> op, event |-> e]
NoRequest == Request("none", NoEvent)

PcStates == {"out", "creating", "opening", "idle", "reconciling", "queued", "locked",
             "checked", "swept", "verified", "returning", "throwing", "refreshing", "ended"}

Live == {s \in Sessions : pc[s] \notin {"out", "ended"}}
Memory(s) == SubSeq(events, 1, known[s])
Goto(s, place) == pc' = [pc EXCEPT ![s] = place]

Init == /\ run = NoRun
        /\ file = "absent"
        /\ events = <<>>
        /\ projection = [i \in Invs |-> "NONE"]
        /\ holder = None
        /\ pc = [s \in Sessions |-> "out"]
        /\ record = [s \in Sessions |-> NoRun]
        /\ known = [s \in Sessions |-> 0]
        /\ mine = [s \in Sessions |-> {}]
        /\ request = [s \in Sessions |-> NoRequest]
        /\ todo = [s \in Sessions |-> {}]
        /\ verdict = [s \in Sessions |-> NoSummary]

disk == <<run, file, events, projection>>
operation == <<request, todo, verdict>>

-----------------------------------------------------------------------------
(* Creating and opening the store. *)

MayEnter(s) == pc[s] = "out" /\ Cardinality(Live) < MaxLive

\* create: run.json first, then the empty ledger; the run id is new.
CreateRun(s) == /\ MayEnter(s)
                /\ run = NoRun
                /\ run' = Run("OPEN", NoSummary)
                /\ record' = [record EXCEPT ![s] = run']
                /\ Goto(s, "creating")
                /\ UNCHANGED <<file, events, projection, holder, known, mine, operation>>

CreateLedger(s) == /\ pc[s] = "creating"
                   /\ file' = "whole"
                   /\ Goto(s, "idle")
                   /\ UNCHANGED <<run, events, projection, holder, record, known, mine, operation>>

\* open: run.json is read before the ledger.
OpenRun(s) == /\ MayEnter(s)
              /\ run # NoRun
              /\ record' = [record EXCEPT ![s] = run]
              /\ Goto(s, "opening")
              /\ UNCHANGED <<disk, holder, known, mine, operation>>

\* The anchor of a finalized run: open() compares the digest of the last event,
\* which is undefined for an empty ledger, with the recorded digest, which is not.
AnchorAccepted(r, evs) == r.state \in Finalized => r.summary.lastSeq = Len(evs) /\ evs # <<>>

OpenLedger(s) == /\ pc[s] = "opening"
                 /\ IF file = "whole" /\ Valid(events) /\ AnchorAccepted(record[s], events)
                    THEN known' = [known EXCEPT ![s] = Len(events)] /\ Goto(s, "idle")
                    ELSE UNCHANGED known /\ Goto(s, "ended")
                 /\ UNCHANGED <<disk, holder, record, mine, operation>>

-----------------------------------------------------------------------------
(* Beginning an operation. *)

\* assertWritable: the record in memory only refuses, it never authorizes.
Writable(s) == pc[s] = "idle" /\ record[s].state = "OPEN"

\* Faulty: the projection is written ahead of the append.
SubmitProjectionFirst(s, op, e) ==
    /\ request' = [request EXCEPT ![s] = Request(op, e)]
    /\ projection' = IF op = "event" THEN [projection EXCEPT ![e.inv] = StatusAfter(e)]
                                     ELSE projection
    /\ Goto(s, "queued")
    /\ UNCHANGED <<run, file, events, holder, record, known, mine, verdict>>

Submit(s, op, e) == /\ request' = [request EXCEPT ![s] = Request(op, e)]
                    /\ Goto(s, "queued")
                    /\ UNCHANGED <<disk, holder, record, known, mine, verdict>>

\* Invocation ids are generated, so no two START events propose the same one.
Fresh(i) == ~Known(events, i) /\ \A s \in Sessions : request[s].event.inv # i

StartInvocation(s, i) == /\ "START" \in Operations
                         /\ Writable(s)
                         /\ Fresh(i)
                         /\ Submit(s, "event", Lifecycle("START", i))
                         /\ UNCHANGED todo

Complete(s, i) == /\ "COMPLETION" \in Operations
                  /\ Writable(s)
                  /\ i \in mine[s]
                  /\ Submit(s, "event", Lifecycle("COMPLETION", i))
                  /\ UNCHANGED todo

Assess(s, i) == /\ "ASSESSMENT" \in Operations
                /\ Writable(s)
                /\ i \in mine[s]
                /\ Submit(s, "event", Lifecycle("ASSESSMENT", i))
                /\ UNCHANGED todo

\* reconcileInvocation, of an invocation whose work unit the session has in
\* memory: for another id the event has none and the schema refuses it.
ReconcileInvocation(s, i, r) ==
    /\ "RECONCILIATION" \in Operations
    /\ Writable(s)
    /\ Known(Memory(s), i)
    /\ Submit(s, "event", Reconciliation(i, "CRASH_AFTER_START", r))
    /\ UNCHANGED todo

\* The targets are taken from memory, before any lock.
ReconcileOrphans(s) == /\ "orphans" \in Operations
                       /\ Writable(s)
                       /\ {i \in Invs : Open(Memory(s), i)} # {}
                       /\ todo' = [todo EXCEPT ![s] = {i \in Invs : Open(Memory(s), i)}]
                       /\ Goto(s, "reconciling")
                       /\ UNCHANGED <<disk, holder, record, known, mine, request, verdict>>

OrphanReason(s, i) == IF Status(Memory(s), i) = "STARTED"
                      THEN "CRASH_AFTER_START" ELSE "CRASH_AFTER_COMPLETION"

NextOrphan(s, i) == /\ pc[s] = "reconciling"
                    /\ i \in todo[s]
                    /\ Submit(s, "event", Reconciliation(i, OrphanReason(s, i), NoInv))
                    /\ todo' = [todo EXCEPT ![s] = @ \ {i}]

Terminate(s, op) == /\ op \in {"finalize", "abort"} \cap Operations
                    /\ Writable(s)
                    /\ Submit(s, op, NoEvent)
                    /\ UNCHANGED todo

-----------------------------------------------------------------------------
(* The part of an operation inside the run-dir lock. *)

Acquire(s) == /\ pc[s] = "queued"
              /\ holder = None
              /\ holder' = s
              /\ Goto(s, "locked")
              /\ UNCHANGED <<disk, record, known, mine, operation>>

\* An operation that throws ends, with the rest of its reconcileOrphans loop.
Settle(s) == /\ Goto(s, "idle")
             /\ request' = [request EXCEPT ![s] = NoRequest]
             /\ todo' = [todo EXCEPT ![s] = {}]
             /\ UNCHANGED verdict

LockTimeout(s) == /\ pc[s] = "queued"
                  /\ holder # None
                  /\ Settle(s)
                  /\ UNCHANGED <<disk, holder, record, known, mine>>

\* Faulty: the gate trusts the record in memory.
CheckCachedOpen(s) == /\ pc[s] = "locked"
                      /\ Goto(s, IF record[s].state = "OPEN" THEN "checked" ELSE "throwing")
                      /\ UNCHANGED <<disk, holder, record, known, mine, operation>>

\* Faulty: the gate waits, in the lock, for the run to be open.
CheckOpenWaits(s) == /\ pc[s] = "locked"
                     /\ run.state = "OPEN"
                     /\ Goto(s, "checked")
                     /\ UNCHANGED <<disk, holder, record, known, mine, operation>>

\* _assertAuthoritativeOpen: run.json is read again under the lock.
CheckOpen(s) == /\ pc[s] = "locked"
                /\ Goto(s, IF run.state = "OPEN" THEN "checked" ELSE "throwing")
                /\ UNCHANGED <<disk, holder, record, known, mine, operation>>

\* Faulty: the transition is checked on the memory the session already had.
AppendUnreloaded(s) ==
    /\ pc[s] = "checked"
    /\ request[s].op = "event"
    /\ IF file = "whole" /\ Legal(Memory(s), request[s].event)
       THEN /\ events' = Append(events, request[s].event)
            /\ known' = [known EXCEPT ![s] = Len(events) + 1]
            /\ Goto(s, "returning")
       ELSE /\ UNCHANGED <<events, known>>
            /\ Goto(s, "throwing")
    /\ UNCHANGED <<run, file, projection, holder, record, mine, operation>>

\* appendEventLocked: memory is reloaded when the tail of the file is not its
\* own last event, and the transition is checked on the result.
AppendEvent(s) ==
    /\ pc[s] = "checked"
    /\ request[s].op = "event"
    /\ IF file = "whole" /\ Legal(events, request[s].event)
       THEN /\ events' = Append(events, request[s].event)
            /\ known' = [known EXCEPT ![s] = Len(events) + 1]
            /\ Goto(s, "returning")
            /\ file' \in {"whole"} \cup (IF "short" \in Faults THEN {"torn"} ELSE {})
       ELSE /\ known' = [known EXCEPT ![s] = IF file = "whole" THEN Len(events) ELSE @]
            /\ Goto(s, "throwing")
            /\ UNCHANGED <<events, file>>
    /\ UNCHANGED <<run, projection, holder, record, mine, operation>>

\* Faulty: the event is in memory before it is in the file.
AppendFailsRemembering(s) ==
    /\ pc[s] = "checked"
    /\ request[s].op = "event"
    /\ file = "whole"
    /\ Legal(events, request[s].event)
    /\ known' = [known EXCEPT ![s] = Len(events) + 1]
    /\ \/ "refused" \in Faults /\ UNCHANGED events
       \/ "unsynced" \in Faults /\ events' = Append(events, request[s].event)
    /\ Goto(s, "throwing")
    /\ UNCHANGED <<run, file, projection, holder, record, mine, operation>>

AppendFails(s) ==
    /\ pc[s] = "checked"
    /\ request[s].op = "event"
    /\ file = "whole"
    /\ Legal(events, request[s].event)
    /\ known' = [known EXCEPT ![s] = Len(events)]
    /\ \/ "refused" \in Faults /\ UNCHANGED events
       \/ "unsynced" \in Faults /\ events' = Append(events, request[s].event)
    /\ Goto(s, "throwing")
    /\ UNCHANGED <<run, file, projection, holder, record, mine, operation>>

\* _assertTerminalSolTransportClean.
Sweep(s) == /\ pc[s] = "checked"
            /\ request[s].op \in {"finalize", "abort"}
            /\ \/ Goto(s, "swept")
               \/ "sweep" \in Faults /\ Goto(s, "throwing")
            /\ UNCHANGED <<disk, holder, record, known, mine, operation>>

\* finalize validates the file and the projections, not the session's memory.
ProjectionsMatch == \A i \in Invs : projection[i] = Status(events, i)

\* Faulty: finalize summarizes the session's memory of the ledger.
VerifyMemory(s) == /\ pc[s] = "swept"
                   /\ request[s].op = "finalize"
                   /\ IF file = "whole" /\ Valid(events) /\ ProjectionsMatch
                      THEN /\ verdict' = [verdict EXCEPT ![s] = Summary(Memory(s))]
                           /\ Goto(s, "verified")
                      ELSE UNCHANGED verdict /\ Goto(s, "throwing")
                   /\ UNCHANGED <<disk, holder, record, known, mine, request, todo>>

\* Faulty: finalize does not look at the projections.
VerifyLedgerOnly(s) == /\ pc[s] = "swept"
                       /\ request[s].op = "finalize"
                       /\ IF file = "whole" /\ Valid(events)
                          THEN /\ verdict' = [verdict EXCEPT ![s] = Summary(events)]
                               /\ Goto(s, "verified")
                          ELSE UNCHANGED verdict /\ Goto(s, "throwing")
                       /\ UNCHANGED <<disk, holder, record, known, mine, request, todo>>

Verify(s) == /\ pc[s] = "swept"
             /\ request[s].op = "finalize"
             /\ IF file = "whole" /\ Valid(events) /\ ProjectionsMatch
                THEN /\ verdict' = [verdict EXCEPT ![s] = Summary(events)]
                     /\ Goto(s, "verified")
                ELSE UNCHANGED verdict /\ Goto(s, "throwing")
             /\ UNCHANGED <<disk, holder, record, known, mine, request, todo>>

WriteRun(s, r) == \/ /\ run' = r
                     /\ record' = [record EXCEPT ![s] = r]
                     /\ Goto(s, "returning")
                  \/ /\ "record" \in Faults
                     /\ Goto(s, "throwing")
                     /\ UNCHANGED <<run, record>>

\* Faulty: a run with unfinished invocations is completed too.
OutcomeCompleted(summary) == "COMPLETED"

Outcome(summary) == IF summary.incomplete = {} THEN "COMPLETED" ELSE "INCOMPLETE_LEDGER"

WriteFinal(s) == /\ pc[s] = "verified"
                 /\ WriteRun(s, Run(Outcome(verdict[s]), verdict[s]))
                 /\ verdict' = [verdict EXCEPT ![s] = NoSummary]
                 /\ UNCHANGED <<file, events, projection, holder, known, mine, request, todo>>

WriteAborted(s) == /\ pc[s] = "swept"
                   /\ request[s].op = "abort"
                   /\ WriteRun(s, Run("ABORTED", NoSummary))
                   /\ UNCHANGED <<file, events, projection, holder, known, mine, operation>>

\* The RELEASE record of the lock; when it cannot be written the operation
\* throws and the lock stays with the session until its process dies.
Unlock(s) == /\ pc[s] \in {"returning", "throwing"}
             /\ holder' = None
             /\ IF pc[s] = "returning" /\ request[s].op = "event"
                THEN Goto(s, "refreshing") /\ UNCHANGED operation
                ELSE Settle(s)
             /\ UNCHANGED <<disk, record, known, mine>>

UnlockFails(s) == /\ "release" \in Faults
                  /\ pc[s] \in {"returning", "throwing"}
                  /\ Settle(s)
                  /\ UNCHANGED <<disk, holder, record, known, mine>>

-----------------------------------------------------------------------------
(* After the lock. *)

\* _refreshInvocationRecord: from the session's memory, outside the lock.
Refresh(s) ==
    LET i == request[s].event.inv
    IN  /\ pc[s] = "refreshing"
        /\ projection' = [projection EXCEPT ![i] = Status(Memory(s), i)]
        /\ mine' = [mine EXCEPT ![s] = IF request[s].event.kind = "START"
                                       THEN @ \cup {i} ELSE @]
        /\ request' = [request EXCEPT ![s] = NoRequest]
        /\ Goto(s, IF todo[s] = {} THEN "idle" ELSE "reconciling")
        /\ UNCHANGED <<run, file, events, holder, record, known, todo, verdict>>

RefreshFails(s) == /\ "projection" \in Faults
                   /\ pc[s] = "refreshing"
                   /\ Settle(s)
                   /\ UNCHANGED <<disk, holder, record, known, mine>>

\* The process exits or is killed; RunLock's owner check frees its lock.
Stop(s) == /\ s \in Live
           /\ Goto(s, "ended")
           /\ holder' = IF holder = s THEN None ELSE holder
           /\ record' = [record EXCEPT ![s] = NoRun]
           /\ known' = [known EXCEPT ![s] = 0]
           /\ mine' = [mine EXCEPT ![s] = {}]
           /\ request' = [request EXCEPT ![s] = NoRequest]
           /\ todo' = [todo EXCEPT ![s] = {}]
           /\ verdict' = [verdict EXCEPT ![s] = NoSummary]
           /\ UNCHANGED disk

Begin(s) == \/ CreateRun(s) \/ OpenRun(s)
            \/ \E i \in Invs : StartInvocation(s, i) \/ Complete(s, i) \/ Assess(s, i)
            \/ \E i \in Invs, r \in Invs \cup {NoInv} : ReconcileInvocation(s, i, r)
            \/ ReconcileOrphans(s)
            \/ \E op \in {"finalize", "abort"} : Terminate(s, op)

\* What an operation in progress does next.
Continue(s) == \/ CreateLedger(s) \/ OpenLedger(s)
               \/ (\E i \in Invs : NextOrphan(s, i))
               \/ Acquire(s) \/ CheckOpen(s)
               \/ AppendEvent(s) \/ AppendFails(s)
               \/ Sweep(s) \/ Verify(s) \/ WriteFinal(s) \/ WriteAborted(s)
               \/ Unlock(s) \/ UnlockFails(s)
               \/ Refresh(s) \/ RefreshFails(s)

Next == \E s \in Sessions : Begin(s) \/ Continue(s) \/ LockTimeout(s) \/ Stop(s)

Spec == Init /\ [][Next]_vars

\* A live session keeps running, and the clock of a waiting one reaches its
\* deadline.  Nothing is assumed of new operations or of crashes.
FairSpec == Spec /\ \A s \in Sessions : WF_vars(Continue(s)) /\ SF_vars(LockTimeout(s))

-----------------------------------------------------------------------------
\* The types of the variables; the events a session has in memory are a prefix
\* of the file (ledger.mjs 277-278, 367-369).
TypeOK ==
    /\ run \in RunRecords
    /\ file \in {"absent", "whole", "torn"}
    /\ events \in Seq(Event)
    /\ projection \in [Invs -> Statuses \cup {"NONE"}]
    /\ holder \in Sessions \cup {None}
    /\ pc \in [Sessions -> PcStates]
    /\ record \in [Sessions -> RunRecords]
    /\ known \in [Sessions -> Nat]
    /\ \A s \in Sessions : known[s] <= Len(events)
    /\ mine \in [Sessions -> SUBSET Invs]
    /\ request \in [Sessions -> Requests]
    /\ todo \in [Sessions -> SUBSET Invs]
    /\ verdict \in [Sessions -> Summaries]

\* Every invocation has at most one START, then at most one COMPLETION, then at
\* most one ASSESSMENT, and at most one RECONCILIATION that ends it, whatever
\* sessions append with an old memory of the file (ledger.mjs 7-20).
OneLifecycle ==
    \A m, n \in DOMAIN events :
        m < n /\ events[m].inv = events[n].inv =>
            <<events[m].kind, events[n].kind>> \in
                {"START"} \X {"COMPLETION", "ASSESSMENT", "RECONCILIATION"}
                \cup {"COMPLETION"} \X {"ASSESSMENT", "RECONCILIATION"}

\* Once run.json is terminal no session, however old its memory, adds an event
\* or changes the record (run-store.mjs 24-31).
TerminalIsFrozen == [][run.state \in Terminal => UNCHANGED <<run, events>>]_vars

\* The summary a finalized run carries is that of its ledger, and it is
\* COMPLETED exactly when no invocation is unfinished (run-store.mjs 260-266).
AnchorMatchesLedger ==
    run.state \in Finalized => /\ run.summary = Summary(events)
                               /\ run.state = Outcome(Summary(events))

\* A projection never shows a status the ledger did not give the invocation.
ProjectionIsPast ==
    \A i \in Invs : projection[i] # "NONE" =>
        \E n \in DOMAIN events : projection[i] = Status(SubSeq(events, 1, n), i)

\* A superseded invocation names another one that was started before, although
\* either may have been appended by a session that never saw the other
\* (v2-logging-contract.md 146-147).
ReplacementStartedFirst ==
    \A n \in DOMAIN events : events[n].repl # NoInv =>
        /\ events[n].repl # events[n].inv
        /\ \E m \in 1 .. n - 1 : events[m] = Lifecycle("START", events[n].repl)

\* The store implements the atomic run of RunLifecycle.
Life == INSTANCE RunLifecycle WITH log <- events, phase <- run.state, anchor <- run.summary
ImplementsRunLifecycle == Life!Spec

\* With one live session at a time, a finalized store is valid for the reader:
\* its projections still show the ledger it was finalized with.
FinalizedStoreIsValid == run.state \in Finalized => ProjectionsMatch /\ file = "whole"

\* Every operation that asks for the lock returns, or its process dies, also
\* behind a session that could not release the lock.
EveryOperationReturns ==
    \A s \in Sessions : pc[s] = "queued" ~> pc[s] \in {"idle", "ended"}

-----------------------------------------------------------------------------
(* What the documents say and the code does not do.                        *)

\* v2-logging-contract.md 138: a crash at any lifecycle point is recovered by
\* reconciliation.  A session that has the whole ledger in memory and found
\* nothing left to reconcile can finalize: its projections match.
ReconciledRunCanFinalize ==
    \A s \in Sessions :
        /\ Writable(s) /\ Live = {s} /\ file = "whole"
        /\ known[s] = Len(events) /\ Summary(events).incomplete = {}
        => ProjectionsMatch
=============================================================================
