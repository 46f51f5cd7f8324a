--------------------------- MODULE RunStoreProofs ---------------------------
(***************************************************************************)
(* RunStore for every set of sessions and invocations, every choice of     *)
(* operations and of failing writes: types, the frozen terminal run, the   *)
(* anchor, the lifecycle of an invocation, and the implementation of       *)
(* RunLifecycle.                                                           *)
(***************************************************************************)
EXTENDS RunStore, SequenceTheorems, FiniteSetTheorems, TLAPS

Locked == {"locked", "checked", "swept", "verified", "returning", "throwing"}

\* Only the holder of the lock is in the locked part of an operation.
LockInv == \A s \in Sessions : pc[s] \in Locked => holder = s

\* Past the gate the run is open, whatever the session remembers of it.
GateInv == \A s \in Sessions : pc[s] \in {"checked", "swept", "verified"} => run.state = "OPEN"

\* A verified summary is still that of the file.
VerdictInv == \A s \in Sessions : pc[s] = "verified" => verdict[s] = Summary(events)

\* A request to append carries an event, and only such a request refreshes.
RequestInv == \A s \in Sessions :
                 /\ request[s].op = "event" => request[s].event \in Event
                 /\ pc[s] = "refreshing" => request[s].op = "event"

\* A run that is not finalized keeps no summary.
SummaryInv == run.state \notin Finalized => run.summary = NoSummary

\* The events of a known invocation have a last one.
LastInv == \A i \in Invs : Known(events, i) =>
              \E n \in EventsOf(events, i) : \A m \in EventsOf(events, i) : m <= n

Inv == /\ TypeOK /\ LockInv /\ GateInv /\ VerdictInv /\ RequestInv
       /\ SummaryInv /\ AnchorMatchesLedger /\ LastInv /\ OneLifecycle

-----------------------------------------------------------------------------
(* Types of the values the actions build. *)

\* Statuses come from a fixed set.
LEMMA StatusType == \A evs, i : Status(evs, i) \in Statuses \cup {"NONE"}
BY DEF Status, StatusAfter, Statuses

\* The summary of a ledger is a summary.
LEMMA SummaryType ==
    /\ NoSummary \in Summaries
    /\ \A evs \in Seq(Event) : Summary(evs) \in Summaries
BY DEF Summary, Summaries, NoSummary

\* The records the sessions write are run records.
LEMMA RunType ==
    /\ NoRun \in RunRecords
    /\ \A sum \in Summaries, st \in {"none", "OPEN"} \cup Terminal : Run(st, sum) \in RunRecords
    /\ \A sum \in Summaries : Outcome(sum) \in Finalized /\ Outcome(sum) \in Terminal
BY SummaryType DEF NoRun, RunRecords, Run, Terminal, Finalized, Outcome

\* The requests the sessions build are requests, those to append carry events.
LEMMA RequestType ==
    /\ NoRequest \in Requests
    /\ NoRequest.op = "none"
    /\ \A op \in {"event", "finalize", "abort"}, e \in Event \cup {NoEvent} :
          /\ Request(op, e) \in Requests
          /\ Request(op, e).op = op
          /\ Request(op, e).event = e
    /\ \A k \in Kinds, i \in Invs : Lifecycle(k, i) \in Event
    /\ \A i \in Invs, why \in Reasons, r \in Invs \cup {NoInv} : Reconciliation(i, why, r) \in Event
    /\ \A rq \in Requests : rq.event.kind \in Kinds
BY DEF NoRequest, Requests, Request, Lifecycle, Reconciliation, Event, NoEvent, Kinds, Reasons

\* What an append does to the ledger.
LEMMA AppendLedger ==
    ASSUME NEW evs \in Seq(Event), NEW e \in Event
    PROVE  /\ Append(evs, e) \in Seq(Event)
           /\ Len(Append(evs, e)) = Len(evs) + 1
           /\ Len(evs) \in Nat
           /\ DOMAIN evs = 1 .. Len(evs)
           /\ DOMAIN Append(evs, e) = 1 .. (Len(evs) + 1)
           /\ \A n \in DOMAIN evs : Append(evs, e)[n] = evs[n]
           /\ Append(evs, e)[Len(evs) + 1] = e
OBVIOUS

-----------------------------------------------------------------------------
\* The initial state satisfies the invariant.
LEMMA InitInv == Init => Inv
<1>. SUFFICES ASSUME Init PROVE Inv
  OBVIOUS
<1>0. events \in Seq(Event) /\ DOMAIN events = {} /\ Len(events) = 0
  BY EmptySeq DEF Init
<1>1. TypeOK
  BY <1>0, SummaryType, RunType, RequestType DEF Init, TypeOK, PcStates
<1>2. LockInv /\ GateInv /\ VerdictInv /\ RequestInv
  BY RequestType DEF Init, LockInv, GateInv, VerdictInv, RequestInv, Locked
<1>3. SummaryInv /\ AnchorMatchesLedger
  BY DEF Init, SummaryInv, AnchorMatchesLedger, NoRun, Run, Finalized
<1>4. LastInv /\ OneLifecycle
  BY <1>0 DEF LastInv, OneLifecycle, Known, EventsOf
<1>. QED
  BY <1>1, <1>2, <1>3, <1>4 DEF Inv
-----------------------------------------------------------------------------
\* Every step keeps the types.
LEMMA TypeStep == TypeOK /\ RequestInv /\ [Next]_vars => TypeOK'
<1>. SUFFICES ASSUME TypeOK, RequestInv, [Next]_vars PROVE TypeOK'
  OBVIOUS
<1>. USE DEF Goto, disk, operation
<1>0. Len(events) \in Nat
  BY DEF TypeOK
<1>1. CASE UNCHANGED vars
  BY <1>1 DEF TypeOK, vars
<1>2. ASSUME NEW s \in Sessions, CreateRun(s) PROVE TypeOK'
  BY <1>2, RunType, SummaryType DEF CreateRun, PcStates, TypeOK
<1>3. ASSUME NEW s \in Sessions, CreateLedger(s) PROVE TypeOK'
  BY <1>3 DEF CreateLedger, PcStates, TypeOK
<1>4. ASSUME NEW s \in Sessions, OpenRun(s) PROVE TypeOK'
  BY <1>4 DEF OpenRun, PcStates, TypeOK
<1>5. ASSUME NEW s \in Sessions, OpenLedger(s) PROVE TypeOK'
  <2>1. known' \in [Sessions -> Nat] /\ \A u \in Sessions : known'[u] <= Len(events)
    <3>1. known' = known \/ known' = [known EXCEPT ![s] = Len(events)]
      BY <1>5 DEF OpenLedger
    <3>2. known \in [Sessions -> Nat] /\ \A u \in Sessions : known[u] <= Len(events)
      BY DEF TypeOK
    <3>3. CASE known' = known
      BY <3>2, <3>3
    <3>4. CASE known' = [known EXCEPT ![s] = Len(events)]
      BY <3>2, <3>4, <1>0
    <3>. QED
      BY <3>1, <3>3, <3>4
  <2>2. pc' \in [Sessions -> PcStates]
    BY <1>5 DEF OpenLedger, PcStates, TypeOK
  <2>. QED
    BY <1>5, <2>1, <2>2 DEF OpenLedger, TypeOK
<1>6. ASSUME NEW s \in Sessions, NEW op \in {"event", "finalize", "abort"},
            NEW e \in Event \cup {NoEvent}, Submit(s, op, e), todo' = todo
     PROVE  TypeOK'
  BY <1>6, RequestType DEF Submit, TypeOK, PcStates
<1>7. ASSUME NEW s \in Sessions, NEW i \in Invs, StartInvocation(s, i) PROVE TypeOK'
  BY <1>7, <1>6, RequestType DEF StartInvocation, Kinds
<1>8. ASSUME NEW s \in Sessions, NEW i \in Invs, Complete(s, i) PROVE TypeOK'
  BY <1>8, <1>6, RequestType DEF Complete, Kinds
<1>9. ASSUME NEW s \in Sessions, NEW i \in Invs, Assess(s, i) PROVE TypeOK'
  BY <1>9, <1>6, RequestType DEF Assess, Kinds
<1>10. ASSUME NEW s \in Sessions, NEW i \in Invs, NEW r \in Invs \cup {NoInv},
            ReconcileInvocation(s, i, r)
     PROVE  TypeOK'
  BY <1>10, <1>6, RequestType DEF ReconcileInvocation, Reasons
<1>11. ASSUME NEW s \in Sessions, ReconcileOrphans(s) PROVE TypeOK'
  BY <1>11 DEF ReconcileOrphans, PcStates, TypeOK
<1>12. ASSUME NEW s \in Sessions, NEW i \in Invs, NextOrphan(s, i) PROVE TypeOK'
  <2>1. Reconciliation(i, OrphanReason(s, i), NoInv) \in Event
    BY RequestType DEF OrphanReason, Reasons
  <2>. QED
    BY <2>1, <1>12, RequestType DEF NextOrphan, Submit, TypeOK, PcStates
<1>13. ASSUME NEW s \in Sessions, NEW op \in {"finalize", "abort"}, Terminate(s, op)
     PROVE  TypeOK'
  BY <1>13, <1>6 DEF Terminate
<1>14. ASSUME NEW s \in Sessions, Acquire(s) PROVE TypeOK'
  BY <1>14 DEF Acquire, PcStates, TypeOK
<1>15. ASSUME NEW s \in Sessions, LockTimeout(s) PROVE TypeOK'
  BY <1>15, RequestType DEF LockTimeout, Settle, PcStates, TypeOK
<1>16. ASSUME NEW s \in Sessions, CheckOpen(s) PROVE TypeOK'
  BY <1>16 DEF CheckOpen, PcStates, TypeOK
<1>17. ASSUME NEW s \in Sessions, AppendEvent(s) PROVE TypeOK'
  <2>1. request[s].event \in Event
    BY <1>17 DEF AppendEvent, RequestInv
  <2>2. events' = events \/ events' = Append(events, request[s].event)
    BY <1>17 DEF AppendEvent
  <2>3. events \in Seq(Event)
    BY DEF TypeOK
  <2>4. /\ events' \in Seq(Event)
        /\ events' = events \/ Len(events') = Len(events) + 1
    <3>1. /\ Append(events, request[s].event) \in Seq(Event)
          /\ Len(Append(events, request[s].event)) = Len(events) + 1
      BY <2>1, <2>3, AppendLedger
    <3>. QED
      BY <2>2, <2>3, <3>1
  <2>5. known' \in [Sessions -> Nat] /\ \A u \in Sessions : known'[u] <= Len(events')
    <3>1. CASE file = "whole" /\ Legal(events, request[s].event)
      <4>1. /\ known' = [known EXCEPT ![s] = Len(events) + 1]
            /\ Len(events') = Len(events) + 1
        BY <1>17, <3>1, <2>1, <2>3, AppendLedger DEF AppendEvent
      <4>. QED
        BY <4>1, <1>0 DEF TypeOK
    <3>2. CASE ~(file = "whole" /\ Legal(events, request[s].event))
      <4>1. /\ known' = [known EXCEPT ![s] = IF file = "whole" THEN Len(events) ELSE @]
            /\ events' = events
        BY <1>17, <3>2 DEF AppendEvent
      <4>. QED
        BY <4>1, <1>0 DEF TypeOK
    <3>. QED
      BY <3>1, <3>2
  <2>. QED
    BY <1>17, <2>4, <2>5 DEF AppendEvent, TypeOK, PcStates
<1>18. ASSUME NEW s \in Sessions, AppendFails(s) PROVE TypeOK'
  <2>1. request[s].event \in Event
    BY <1>18 DEF AppendFails, RequestInv
  <2>2. events' = events \/ events' = Append(events, request[s].event)
    BY <1>18 DEF AppendFails
  <2>3. events \in Seq(Event)
    BY DEF TypeOK
  <2>4. /\ events' \in Seq(Event)
        /\ events' = events \/ Len(events') = Len(events) + 1
    <3>1. /\ Append(events, request[s].event) \in Seq(Event)
          /\ Len(Append(events, request[s].event)) = Len(events) + 1
      BY <2>1, <2>3, AppendLedger
    <3>. QED
      BY <2>2, <2>3, <3>1
  <2>5. known' \in [Sessions -> Nat] /\ \A u \in Sessions : known'[u] <= Len(events')
    <3>1. known' = [known EXCEPT ![s] = Len(events)] /\ Len(events) <= Len(events')
      BY <1>18, <1>0, <2>4 DEF AppendFails
    <3>2. Len(events') \in Nat
      BY <2>4, <1>0
    <3>. QED
      BY <3>1, <3>2, <1>0 DEF TypeOK
  <2>. QED
    BY <1>18, <2>4, <2>5 DEF AppendFails, TypeOK, PcStates
<1>19. ASSUME NEW s \in Sessions, Sweep(s) PROVE TypeOK'
  BY <1>19 DEF Sweep, PcStates, TypeOK
<1>20. ASSUME NEW s \in Sessions, Verify(s) PROVE TypeOK'
  BY <1>20, SummaryType DEF Verify, PcStates, TypeOK
<1>21. ASSUME NEW s \in Sessions, WriteFinal(s) PROVE TypeOK'
  <2>1. verdict[s] \in Summaries
    BY DEF TypeOK
  <2>2. Run(Outcome(verdict[s]), verdict[s]) \in RunRecords
    BY <2>1, RunType
  <2>. QED
    BY <1>21, <2>2, SummaryType DEF WriteFinal, WriteRun, PcStates, TypeOK
<1>22. ASSUME NEW s \in Sessions, WriteAborted(s) PROVE TypeOK'
  <2>1. Run("ABORTED", NoSummary) \in RunRecords
    BY SummaryType, RunType DEF Terminal
  <2>. QED
    BY <1>22, <2>1 DEF WriteAborted, WriteRun, PcStates, TypeOK
<1>23. ASSUME NEW s \in Sessions, Unlock(s) PROVE TypeOK'
  <2>1. CASE Goto(s, "refreshing") /\ UNCHANGED <<request, todo, verdict>>
    BY <1>23, <2>1 DEF Unlock, PcStates, TypeOK
  <2>2. CASE Settle(s)
    BY <1>23, <2>2, RequestType DEF Unlock, Settle, PcStates, TypeOK
  <2>. QED
    BY <1>23, <2>1, <2>2 DEF Unlock
<1>24. ASSUME NEW s \in Sessions, UnlockFails(s) PROVE TypeOK'
  BY <1>24, RequestType DEF UnlockFails, Settle, PcStates, TypeOK
<1>25. ASSUME NEW s \in Sessions, Refresh(s) PROVE TypeOK'
  <2>1. request[s].event.inv \in Invs
    BY <1>25 DEF Refresh, RequestInv, Event
  <2>2. Status(Memory(s), request[s].event.inv) \in Statuses \cup {"NONE"}
    BY StatusType
  <2>. QED
    BY <1>25, <2>1, <2>2, RequestType DEF Refresh, TypeOK, PcStates
<1>26. ASSUME NEW s \in Sessions, RefreshFails(s) PROVE TypeOK'
  BY <1>26, RequestType DEF RefreshFails, Settle, PcStates, TypeOK
<1>27. ASSUME NEW s \in Sessions, Stop(s) PROVE TypeOK'
  BY <1>27, <1>0, RunType, SummaryType, RequestType DEF Stop, TypeOK, PcStates
<1>. QED
  BY <1>1, <1>2, <1>3, <1>4, <1>5, <1>7, <1>8, <1>9, <1>10, <1>11, <1>12, <1>13, <1>14, <1>15, <1>16, <1>17, <1>18, <1>19, <1>20, <1>21, <1>22, <1>23, <1>24, <1>25, <1>26, <1>27
     DEF Next, Begin, Continue
-----------------------------------------------------------------------------
(* What the steps do to the ledger and to the run record. *)

LedgerStep == \E e \in Event : /\ run.state = "OPEN"
                               /\ Legal(events, e)
                               /\ events' = Append(events, e)
                               /\ run' = run

RunStep == /\ events' = events
           /\ \/ run = NoRun /\ run' = Run("OPEN", NoSummary)
              \/ /\ run.state = "OPEN"
                 /\ \/ run' = Run(Outcome(Summary(events)), Summary(events))
                    \/ run' = Run("ABORTED", NoSummary)

\* A step leaves the run alone, appends a legal event to an open run, creates
\* the run, or closes an open one; only sessions in the lock do the last three.
LEMMA StepEffect == Inv /\ [Next]_vars => UNCHANGED <<run, events>> \/ LedgerStep \/ RunStep
<1>. SUFFICES ASSUME Inv, [Next]_vars PROVE UNCHANGED <<run, events>> \/ LedgerStep \/ RunStep
  OBVIOUS
<1>. USE DEF disk
<1>1. CASE UNCHANGED vars
  BY <1>1 DEF vars
<1>2. ASSUME NEW s \in Sessions, CreateRun(s) PROVE RunStep
  BY <1>2 DEF CreateRun, RunStep
<1>3. ASSUME NEW s \in Sessions, AppendEvent(s) \/ AppendFails(s)
      PROVE  UNCHANGED <<run, events>> \/ LedgerStep
  <2>1. run.state = "OPEN" /\ request[s].event \in Event
    BY <1>3 DEF Inv, GateInv, RequestInv, AppendEvent, AppendFails
  <2>. QED
    BY <1>3, <2>1 DEF AppendEvent, AppendFails, LedgerStep
<1>4. ASSUME NEW s \in Sessions, WriteFinal(s) PROVE UNCHANGED <<run, events>> \/ RunStep
  <2>1. run.state = "OPEN" /\ verdict[s] = Summary(events)
    BY <1>4 DEF Inv, GateInv, VerdictInv, WriteFinal
  <2>. QED
    BY <1>4, <2>1 DEF WriteFinal, WriteRun, RunStep
<1>5. ASSUME NEW s \in Sessions, WriteAborted(s) PROVE UNCHANGED <<run, events>> \/ RunStep
  BY <1>5 DEF Inv, GateInv, WriteAborted, WriteRun, RunStep
<1>6. ASSUME NEW s \in Sessions, Begin(s) PROVE UNCHANGED <<run, events>> \/ RunStep
  BY <1>6, <1>2 DEF Begin, OpenRun, StartInvocation, Complete, Assess, ReconcileInvocation,
                    ReconcileOrphans, Terminate, Submit
<1>7. ASSUME NEW s \in Sessions, Continue(s)
      PROVE  UNCHANGED <<run, events>> \/ LedgerStep \/ RunStep
  BY <1>7, <1>3, <1>4, <1>5
     DEF Continue, CreateLedger, OpenLedger, NextOrphan, Submit, Acquire, CheckOpen, Sweep,
         Verify, Unlock, UnlockFails, Refresh, RefreshFails
<1>8. ASSUME NEW s \in Sessions, LockTimeout(s) \/ Stop(s) PROVE UNCHANGED <<run, events>>
  BY <1>8 DEF LockTimeout, Stop
<1>. QED
  BY <1>1, <1>6, <1>7, <1>8 DEF Next
-----------------------------------------------------------------------------
(* The invariant is inductive. *)

\* The steps of another session change neither the place nor the request of a
\* session.
LEMMA OthersStay ==
    ASSUME TypeOK, NEW s \in Sessions, NEW u \in Sessions, u # s,
           Begin(s) \/ Continue(s) \/ LockTimeout(s) \/ Stop(s)
    PROVE  pc'[u] = pc[u] /\ request'[u] = request[u] /\ verdict'[u] = verdict[u]
<1>. USE DEF Goto, operation, TypeOK
<1>1. CASE Begin(s)
  BY <1>1 DEF Begin, CreateRun, OpenRun, StartInvocation, Complete, Assess,
              ReconcileInvocation, ReconcileOrphans, Terminate, Submit
<1>2. CASE CreateLedger(s) \/ OpenLedger(s) \/ Acquire(s) \/ CheckOpen(s)
           \/ AppendEvent(s) \/ AppendFails(s) \/ Sweep(s)
  BY <1>2 DEF CreateLedger, OpenLedger, Acquire, CheckOpen, AppendEvent, AppendFails, Sweep
<1>3. CASE \E i \in Invs : NextOrphan(s, i)
  BY <1>3 DEF NextOrphan, Submit
<1>4. CASE Verify(s) \/ WriteFinal(s) \/ WriteAborted(s)
  BY <1>4 DEF Verify, WriteFinal, WriteAborted, WriteRun
<1>5. CASE Unlock(s) \/ UnlockFails(s) \/ Refresh(s) \/ RefreshFails(s)
  BY <1>5 DEF Unlock, UnlockFails, Refresh, RefreshFails, Settle
<1>6. CASE LockTimeout(s) \/ Stop(s)
  BY <1>6 DEF LockTimeout, Settle, Stop
<1>. QED
  BY <1>1, <1>2, <1>3, <1>4, <1>5, <1>6 DEF Continue

\* The lock has one holder, and only the holder is in the locked part.
LEMMA LockStep ==
    ASSUME TypeOK, LockInv, NEW s \in Sessions,
           Begin(s) \/ Continue(s) \/ LockTimeout(s) \/ Stop(s)
    PROVE  /\ LockInv'
           /\ \A u \in Sessions : u # s => pc'[u] = pc[u]
           /\ pc[s] \in {"checked", "swept", "verified"} => \A u \in Sessions :
                 u # s => pc[u] \notin Locked
<1>. USE DEF Goto, disk, operation, LockInv, Locked
<1>0. \A u \in Sessions : u # s => pc'[u] = pc[u]
  BY OthersStay
<1>a. s # None
  BY NoneAssumption
<1>b. \A u \in Sessions : u # s /\ pc[s] \in Locked => pc[u] \notin Locked
  BY <1>a
<1>1. CASE Begin(s)
  BY <1>0, <1>1, <1>a DEF Begin, CreateRun, OpenRun, StartInvocation, Complete, Assess,
              ReconcileInvocation, ReconcileOrphans, Terminate, Submit, MayEnter, Writable, TypeOK
<1>2. CASE CreateLedger(s) \/ OpenLedger(s) \/ (\E i \in Invs : NextOrphan(s, i))
           \/ Refresh(s) \/ RefreshFails(s) \/ LockTimeout(s)
  BY <1>0, <1>2 DEF CreateLedger, OpenLedger, NextOrphan, Submit, Refresh, RefreshFails,
                    LockTimeout, Settle, TypeOK
<1>3. CASE Acquire(s)
  BY <1>0, <1>3, NoneAssumption DEF Acquire, TypeOK
<1>4. CASE CheckOpen(s) \/ AppendEvent(s) \/ AppendFails(s) \/ Sweep(s) \/ Verify(s)
           \/ WriteFinal(s) \/ WriteAborted(s)
  <2>1. holder' = holder /\ holder = s
    BY <1>4 DEF CheckOpen, AppendEvent, AppendFails, Sweep, Verify, WriteFinal, WriteAborted
  <2>. QED
    BY <1>0, <2>1
<1>5. CASE Unlock(s) \/ UnlockFails(s)
  <2>1. holder = s /\ pc'[s] \in {"refreshing", "idle"}
    BY <1>5 DEF Unlock, UnlockFails, Settle, TypeOK
  <2>. QED
    BY <1>0, <1>5, <1>b, <2>1
<1>6. CASE Stop(s)
  <2>1. pc'[s] = "ended" /\ holder' = IF holder = s THEN None ELSE holder
    BY <1>6 DEF Stop, TypeOK
  <2>. QED
    BY <1>0, <2>1
<1>. QED
  BY <1>0, <1>b, <1>1, <1>2, <1>3, <1>4, <1>5, <1>6 DEF Continue

\* The gate, read once under the lock, keeps its answer until the lock is left.
LEMMA GateStep ==
    ASSUME TypeOK, LockInv, GateInv, NEW s \in Sessions,
           Begin(s) \/ Continue(s) \/ LockTimeout(s) \/ Stop(s)
    PROVE  GateInv'
<1>. USE DEF Goto, disk, operation, GateInv
<1>0. /\ \A u \in Sessions : u # s => pc'[u] = pc[u]
      /\ pc[s] \in {"checked", "swept", "verified"} => \A u \in Sessions :
            u # s => pc[u] \notin {"checked", "swept", "verified"}
  BY LockStep DEF Locked
<1>1. CASE Begin(s)
  <2>1. CASE CreateRun(s)
    BY <2>1 DEF CreateRun, Run
  <2>2. CASE ~CreateRun(s)
    <3>1. run' = run /\ pc'[s] \in {"opening", "queued", "reconciling"}
      BY <1>1, <2>2 DEF Begin, OpenRun, StartInvocation, Complete, Assess,
         ReconcileInvocation, ReconcileOrphans, Terminate, Submit, TypeOK
    <3>. QED
      BY <1>0, <3>1
  <2>. QED
    BY <2>1, <2>2
<1>2. CASE CreateLedger(s) \/ OpenLedger(s) \/ (\E i \in Invs : NextOrphan(s, i)) \/ Acquire(s)
           \/ Refresh(s) \/ RefreshFails(s) \/ LockTimeout(s) \/ AppendEvent(s) \/ AppendFails(s)
           \/ Unlock(s) \/ UnlockFails(s) \/ Stop(s)
  <2>1. run' = run /\ pc'[s] \notin {"checked", "swept", "verified"}
    BY <1>2 DEF CreateLedger, OpenLedger, NextOrphan, Submit, Refresh, RefreshFails,
                LockTimeout, Settle, Acquire, AppendEvent, AppendFails, Unlock, UnlockFails,
                Stop, TypeOK
  <2>. QED
    BY <1>0, <2>1
<1>3. CASE CheckOpen(s) \/ Sweep(s) \/ Verify(s)
  <2>1. /\ run' = run
        /\ pc'[s] \in {"checked", "swept", "verified"} => run.state = "OPEN"
    BY <1>3 DEF CheckOpen, Sweep, Verify, TypeOK
  <2>. QED
    BY <1>0, <2>1
<1>4. CASE WriteFinal(s) \/ WriteAborted(s)
  <2>1. /\ pc[s] \in {"checked", "swept", "verified"}
        /\ pc'[s] \notin {"checked", "swept", "verified"}
    BY <1>4 DEF WriteFinal, WriteAborted, WriteRun, TypeOK
  <2>. QED
    BY <1>0, <2>1
<1>. QED
  BY <1>1, <1>2, <1>3, <1>4 DEF Continue

\* Nothing is appended between the verification and the terminal write.
LEMMA VerdictStep ==
    ASSUME TypeOK, LockInv, VerdictInv, NEW s \in Sessions,
           Begin(s) \/ Continue(s) \/ LockTimeout(s) \/ Stop(s)
    PROVE  VerdictInv'
<1>. USE DEF Goto, disk, operation
<1>0. /\ \A u \in Sessions : u # s => pc'[u] = pc[u] /\ verdict'[u] = verdict[u]
      /\ pc[s] = "checked" => \A u \in Sessions : u # s => pc[u] # "verified"
  BY LockStep, OthersStay DEF Locked
<1>1. CASE AppendEvent(s) \/ AppendFails(s)
  <2>1. pc[s] = "checked" /\ pc'[s] # "verified"
    BY <1>1 DEF AppendEvent, AppendFails, TypeOK
  <2>. QED
    BY <1>0, <2>1 DEF VerdictInv
<1>2. CASE Verify(s)
  <2>1. events' = events /\ (pc'[s] = "verified" => verdict'[s] = Summary(events))
    BY <1>2 DEF Verify, TypeOK
  <2>. QED
    BY <1>0, <2>1 DEF VerdictInv
<1>3. ASSUME ~AppendEvent(s), ~AppendFails(s), ~Verify(s) PROVE VerdictInv'
  <2>1. CASE Begin(s)
    BY <2>1, <1>0 DEF Begin, CreateRun, OpenRun, StartInvocation, Complete, Assess,
         ReconcileInvocation, ReconcileOrphans, Terminate, Submit, TypeOK, VerdictInv
  <2>2. CASE ~Begin(s)
    <3>1. events' = events /\ pc'[s] # "verified"
      BY <1>3, <2>2 DEF Continue, CreateLedger, OpenLedger, NextOrphan, Submit, Acquire,
         CheckOpen, Sweep, WriteFinal, WriteAborted, WriteRun, Unlock, UnlockFails, Settle,
         Refresh, RefreshFails, LockTimeout, Stop, TypeOK
    <3>. QED
      BY <1>0, <3>1 DEF VerdictInv
  <2>. QED
    BY <2>1, <2>2
<1>. QED
  BY <1>1, <1>2, <1>3

\* Requests to append carry events; they come from the lifecycle operations.
LEMMA RequestStep ==
    ASSUME TypeOK, RequestInv, NEW s \in Sessions,
           Begin(s) \/ Continue(s) \/ LockTimeout(s) \/ Stop(s)
    PROVE  RequestInv'
<1>. USE DEF Goto, disk, operation
<1>0. \A u \in Sessions : u # s => pc'[u] = pc[u] /\ request'[u] = request[u]
  BY OthersStay
<1>1. ASSUME NEW op \in {"event", "finalize", "abort"}, NEW e \in Event \cup {NoEvent},
             Submit(s, op, e), op = "event" => e \in Event
      PROVE  RequestInv'
  <2>1. pc'[s] = "queued" /\ request'[s].op = op /\ request'[s].event = e
    BY <1>1, RequestType DEF Submit, TypeOK
  <2>. QED
    BY <1>0, <1>1, <2>1 DEF RequestInv
<1>2. CASE CreateRun(s) \/ OpenRun(s) \/ ReconcileOrphans(s)
  BY <1>0, <1>2 DEF CreateRun, OpenRun, ReconcileOrphans, RequestInv, TypeOK
<1>3. CASE \E i \in Invs : StartInvocation(s, i) \/ Complete(s, i) \/ Assess(s, i)
  BY <1>1, <1>3, RequestType DEF StartInvocation, Complete, Assess, Kinds
<1>4. CASE \E i \in Invs, r \in Invs \cup {NoInv} : ReconcileInvocation(s, i, r)
  BY <1>1, <1>4, RequestType DEF ReconcileInvocation, Reasons
<1>5. CASE \E i \in Invs : NextOrphan(s, i)
  BY <1>1, <1>5, RequestType DEF NextOrphan, OrphanReason, Reasons
<1>6. CASE \E op \in {"finalize", "abort"} : Terminate(s, op)
  BY <1>1, <1>6, RequestType DEF Terminate
<1>7. CASE CreateLedger(s) \/ OpenLedger(s) \/ Acquire(s) \/ CheckOpen(s) \/ AppendEvent(s)
           \/ AppendFails(s) \/ Sweep(s) \/ Verify(s) \/ WriteFinal(s) \/ WriteAborted(s)
  <2>1. request' = request /\ pc'[s] # "refreshing"
    BY <1>7 DEF CreateLedger, OpenLedger, Acquire, CheckOpen, AppendEvent, AppendFails, Sweep,
       Verify, WriteFinal, WriteAborted, WriteRun, TypeOK
  <2>. QED
    BY <1>0, <2>1 DEF RequestInv
<1>8. CASE Unlock(s) \/ UnlockFails(s) \/ Refresh(s) \/ RefreshFails(s) \/ LockTimeout(s) \/ Stop(s)
  <2>1. \/ request'[s] = NoRequest /\ pc'[s] # "refreshing"
        \/ request'[s] = request[s] /\ request[s].op = "event"
    BY <1>8 DEF Unlock, UnlockFails, Settle, Refresh, RefreshFails, LockTimeout, Stop, TypeOK
  <2>. QED
    BY <1>0, <2>1, RequestType DEF RequestInv
<1>. QED
  BY <1>2, <1>3, <1>4, <1>5, <1>6, <1>7, <1>8 DEF Begin, Continue

\* The events of an invocation are positions in the ledger; a new event is behind.
LEMMA AppendEventsOf ==
    ASSUME NEW evs \in Seq(Event), NEW e \in Event, NEW i \in Invs
    PROVE  /\ EventsOf(evs, i) \subseteq 1 .. Len(evs)
           /\ e.inv # i => EventsOf(Append(evs, e), i) = EventsOf(evs, i)
           /\ e.inv = i => EventsOf(Append(evs, e), i) = EventsOf(evs, i) \cup {Len(evs) + 1}
<1>1. e.inv # i => EventsOf(Append(evs, e), i) = EventsOf(evs, i)
  BY AppendLedger DEF EventsOf
<1>2. e.inv = i => EventsOf(Append(evs, e), i) = EventsOf(evs, i) \cup {Len(evs) + 1}
  BY AppendLedger DEF EventsOf
<1>. QED
  BY <1>1, <1>2, AppendLedger DEF EventsOf

\* The last event decides the status.
LEMMA StatusOfLast ==
    ASSUME NEW evs \in Seq(Event), NEW i \in Invs, NEW n \in EventsOf(evs, i),
           \A m \in EventsOf(evs, i) : m <= n
    PROVE  Status(evs, i) = StatusAfter(evs[n])
<1>. DEFINE S == EventsOf(evs, i)
            p == CHOOSE k \in S : \A m \in S : m <= k
<1>1. S \subseteq Nat
  BY AppendLedger DEF EventsOf
<1>2. p \in S /\ \A m \in S : m <= p
  OBVIOUS
<1>3. p = n
  BY <1>1, <1>2
<1>. QED
  BY <1>3 DEF Status, Known

\* The events of a known invocation keep a last one.
LEMMA LastStep == TypeOK /\ LastInv /\ (events' = events \/ LedgerStep) => LastInv'
<1>. SUFFICES ASSUME TypeOK, LastInv, LedgerStep, NEW i \in Invs, Known(events, i)'
              PROVE  \E n \in EventsOf(events', i) : \A m \in EventsOf(events', i) : m <= n
  BY DEF LastInv, Known
<1>1. PICK e \in Event : events' = Append(events, e)
  BY DEF LedgerStep
<1>2. events \in Seq(Event) /\ Len(events) \in Nat
  BY DEF TypeOK
<1>3. CASE e.inv = i
  <2>1. /\ EventsOf(events', i) = EventsOf(events, i) \cup {Len(events) + 1}
        /\ EventsOf(events, i) \subseteq 1 .. Len(events)
    BY <1>1, <1>2, <1>3, AppendEventsOf
  <2>. QED
    <3>. DEFINE N == Len(events) + 1
    <3>1. N \in EventsOf(events', i)
      BY <2>1
    <3>2. \A m \in EventsOf(events', i) : m <= N
      BY <1>2, <2>1
    <3>. HIDE DEF N
    <3>. QED
      BY <3>1, <3>2
<1>4. CASE e.inv # i
  <2>1. EventsOf(events', i) = EventsOf(events, i)
    BY <1>1, <1>2, <1>4, AppendEventsOf
  <2>. QED
    BY <2>1 DEF LastInv, Known
<1>. QED
  BY <1>3, <1>4

\* A legal event fits behind every earlier event of its invocation.
LEMMA LegalFollows ==
    ASSUME TypeOK, LastInv, OneLifecycle, NEW e \in Event, Legal(events, e),
           NEW m \in EventsOf(events, e.inv)
    PROVE  <<events[m].kind, e.kind>> \in
                {"START"} \X {"COMPLETION", "ASSESSMENT", "RECONCILIATION"}
                \cup {"COMPLETION"} \X {"ASSESSMENT", "RECONCILIATION"}
<1>0. e.inv \in Invs /\ events \in Seq(Event) /\ e.kind \in Kinds
  BY DEF Event, TypeOK
<1>1. Known(events, e.inv)
  BY DEF Known
<1>2. PICK n \in EventsOf(events, e.inv) : \A k \in EventsOf(events, e.inv) : k <= n
  BY <1>0, <1>1 DEF LastInv
<1>3. Status(events, e.inv) = StatusAfter(events[n])
  BY <1>0, <1>2, StatusOfLast
<1>4. /\ n \in DOMAIN events /\ m \in DOMAIN events
      /\ events[n].inv = e.inv /\ events[m].inv = e.inv
      /\ events[n] \in Event
  BY <1>0 DEF EventsOf
<1>5. events[n].kind \in Kinds
  BY <1>4 DEF Event
<1>6. e.kind # "START"
  BY <1>1 DEF Legal
<1>7. m = n \/ m < n
  BY <1>0, <1>2, <1>4, AppendLedger
<1>8. m < n => <<events[m].kind, events[n].kind>> \in
                {"START"} \X {"COMPLETION", "ASSESSMENT", "RECONCILIATION"}
                \cup {"COMPLETION"} \X {"ASSESSMENT", "RECONCILIATION"}
  BY <1>4 DEF OneLifecycle
<1>9. CASE e.kind = "COMPLETION"
  <2>1. events[n].kind = "START"
    BY <1>3, <1>5, <1>9 DEF Legal, StatusAfter, Kinds
  <2>. QED
    BY <1>7, <1>8, <1>9, <2>1
<1>10. CASE e.kind = "ASSESSMENT"
  <2>1. events[n].kind = "COMPLETION"
    BY <1>3, <1>5, <1>10 DEF Legal, StatusAfter, Kinds
  <2>. QED
    BY <1>7, <1>8, <1>10, <2>1
<1>11. CASE e.kind = "RECONCILIATION"
  <2>1. events[n].kind \in {"START", "COMPLETION"}
    BY <1>3, <1>5, <1>11 DEF Legal, Open, Unfinished, StatusAfter, Kinds
  <2>. QED
    BY <1>7, <1>8, <1>11, <2>1
<1>. QED
  BY <1>0, <1>6, <1>9, <1>10, <1>11 DEF Kinds

\* Appending a legal event keeps the lifecycle of every invocation.
LEMMA LifecycleStep ==
    TypeOK /\ LastInv /\ OneLifecycle /\ (events' = events \/ LedgerStep) => OneLifecycle'
<1>. SUFFICES ASSUME TypeOK, LastInv, OneLifecycle, LedgerStep PROVE OneLifecycle'
  BY DEF OneLifecycle
<1>1. PICK e \in Event : Legal(events, e) /\ events' = Append(events, e)
  BY DEF LedgerStep
<1>2. /\ events \in Seq(Event) /\ Len(events) \in Nat
      /\ DOMAIN events = 1 .. Len(events)
      /\ DOMAIN events' = 1 .. (Len(events) + 1)
      /\ \A n \in DOMAIN events : events'[n] = events[n]
      /\ events'[Len(events) + 1] = e
  BY <1>1, AppendLedger DEF TypeOK
<1>. SUFFICES ASSUME NEW m \in DOMAIN events', NEW n \in DOMAIN events',
                     m < n, events'[m].inv = events'[n].inv
              PROVE  <<events'[m].kind, events'[n].kind>> \in
                {"START"} \X {"COMPLETION", "ASSESSMENT", "RECONCILIATION"}
                \cup {"COMPLETION"} \X {"ASSESSMENT", "RECONCILIATION"}
  BY DEF OneLifecycle
<1>3. m \in DOMAIN events
  BY <1>2
<1>4. CASE n \in DOMAIN events
  BY <1>2, <1>3, <1>4 DEF OneLifecycle
<1>5. CASE n = Len(events) + 1
  <2>1. m \in EventsOf(events, e.inv)
    BY <1>2, <1>3, <1>5 DEF EventsOf
  <2>. QED
    BY <1>1, <1>2, <1>3, <1>5, <2>1, LegalFollows
<1>. QED
  BY <1>2, <1>4, <1>5

\* A terminal record is only written with the summary of the ledger.
LEMMA RecordStep ==
    ASSUME Inv, UNCHANGED <<run, events>> \/ LedgerStep \/ RunStep
    PROVE  SummaryInv' /\ AnchorMatchesLedger'
<1>1. CASE UNCHANGED <<run, events>>
  BY <1>1 DEF Inv, SummaryInv, AnchorMatchesLedger
<1>2. CASE LedgerStep
  BY <1>2 DEF LedgerStep, Inv, SummaryInv, AnchorMatchesLedger, Finalized
<1>3. CASE RunStep
  BY <1>3 DEF RunStep, Inv, SummaryInv, AnchorMatchesLedger, Finalized, Run, Outcome
<1>. QED
  BY <1>1, <1>2, <1>3

\* Every step keeps the invariant.
LEMMA InvStep == Inv /\ [Next]_vars => Inv'
<1>. SUFFICES ASSUME Inv, [Next]_vars PROVE Inv'
  OBVIOUS
<1>1. UNCHANGED <<run, events>> \/ LedgerStep \/ RunStep
  BY StepEffect
<1>2. TypeOK' /\ SummaryInv' /\ AnchorMatchesLedger'
  BY <1>1, TypeStep, RecordStep DEF Inv
<1>3. LastInv' /\ OneLifecycle'
  <2>1. events' = events \/ LedgerStep
    BY <1>1 DEF RunStep
  <2>. QED
    BY <2>1, LastStep, LifecycleStep DEF Inv
<1>4. LockInv' /\ GateInv' /\ VerdictInv' /\ RequestInv'
  <2>1. CASE UNCHANGED vars
    BY <2>1 DEF vars, Inv, LockInv, GateInv, VerdictInv, RequestInv
  <2>2. ASSUME NEW s \in Sessions, Begin(s) \/ Continue(s) \/ LockTimeout(s) \/ Stop(s)
        PROVE  LockInv' /\ GateInv' /\ VerdictInv' /\ RequestInv'
    BY <2>2, LockStep, GateStep, VerdictStep, RequestStep DEF Inv
  <2>. QED
    BY <2>1, <2>2 DEF Next
<1>. QED
  BY <1>2, <1>3, <1>4 DEF Inv

\* The invariant holds in every reachable state.
LEMMA Invariance == Spec => []Inv
BY InitInv, InvStep, PTL DEF Spec

-----------------------------------------------------------------------------
\* The variables keep their types, and no session remembers more events than
\* the file has.
THEOREM TypeCorrect == Spec => []TypeOK
BY Invariance, PTL DEF Inv

\* No interleaving of sessions with stale memories breaks the lifecycle of an
\* invocation.
THEOREM OneLifecycleHolds == Spec => []OneLifecycle
BY Invariance, PTL DEF Inv

\* A finalized run carries the summary of its ledger, now and ever after.
THEOREM AnchorHolds == Spec => []AnchorMatchesLedger
BY Invariance, PTL DEF Inv

\* No step adds an event to a terminal run or reopens it.
THEOREM TerminalFrozen == Spec => TerminalIsFrozen
<1>1. Inv /\ [Next]_vars => [run.state \in Terminal => UNCHANGED <<run, events>>]_vars
  <2>. SUFFICES ASSUME Inv, [Next]_vars, run.state \in Terminal PROVE UNCHANGED <<run, events>>
    OBVIOUS
  <2>. QED
    BY StepEffect DEF LedgerStep, RunStep, Terminal, Finalized, NoRun, Run
<1>. QED
  BY <1>1, Invariance, PTL DEF Spec, TerminalIsFrozen

\* RunLifecycle reads a ledger as RunStore does.
LEMMA SameLedger ==
    /\ Life!Event = Event
    /\ \A evs, e : Life!Legal(evs, e) = Legal(evs, e)
    /\ \A evs : Life!Summary(evs) = Summary(evs)
<1>1. Life!Event = Event
  BY DEF Life!Event, Event, Life!Kinds, Kinds, Life!Reasons, Reasons
<1>2. \A evs, i : Life!EventsOf(evs, i) = EventsOf(evs, i)
  BY DEF Life!EventsOf, EventsOf
<1>3. \A evs, i : Life!Known(evs, i) = Known(evs, i)
  BY <1>2 DEF Life!Known, Known
<1>4. \A e : Life!StatusAfter(e) = StatusAfter(e)
  BY DEF Life!StatusAfter, StatusAfter
<1>5. \A evs, i : Life!Status(evs, i) = Status(evs, i)
  <2>. SUFFICES ASSUME NEW evs, NEW i PROVE Life!Status(evs, i) = Status(evs, i)
    OBVIOUS
  <2>. QED
    BY DEF Life!Status, Status, Life!Known, Known, Life!EventsOf, EventsOf,
           Life!StatusAfter, StatusAfter
<1>6. \A evs, i : Life!Open(evs, i) = Open(evs, i)
  BY <1>5 DEF Life!Open, Open, Life!Unfinished, Unfinished
<1>7. \A evs, e : Life!Legal(evs, e) = Legal(evs, e)
  BY <1>3, <1>5, <1>6 DEF Life!Legal, Legal
<1>8. \A evs : Life!Summary(evs) = Summary(evs)
  <2>1. \A evs : {i \in Invs : Life!Open(evs, i)} = {i \in Invs : Open(evs, i)}
    BY <1>6
  <2>. QED
    BY <2>1 DEF Life!Summary, Summary
<1>. QED
  BY <1>1, <1>7, <1>8

\* The store of many sessions, with its lock, its stale memories, crashes and
\* failing writes, is one atomic run.
THEOREM Refinement == Spec => ImplementsRunLifecycle
<1>1. Init => Life!Init
  BY DEF Init, Life!Init, NoRun, Run, NoSummary, Life!NoSummary
<1>2. Inv /\ [Next]_vars => [Life!Next]_(Life!runVars)
  <2>. SUFFICES ASSUME Inv, [Next]_vars PROVE [Life!Next]_(Life!runVars)
    OBVIOUS
  <2>1. CASE UNCHANGED <<run, events>>
    BY <2>1 DEF Life!runVars
  <2>2. CASE LedgerStep
    BY <2>2, SameLedger DEF LedgerStep, Life!Next, Life!Record
  <2>3. CASE RunStep
    <3>1. CASE run = NoRun /\ run' = Run("OPEN", NoSummary)
      BY <2>3, <3>1 DEF RunStep, Life!Next, Life!Create, NoRun, Run
    <3>2. CASE run.state = "OPEN" /\ run' = Run(Outcome(Summary(events)), Summary(events))
      BY <2>3, <3>2, SameLedger DEF RunStep, Life!Next, Life!Finalize, Life!Verdict, Outcome, Run
    <3>3. CASE run.state = "OPEN" /\ run' = Run("ABORTED", NoSummary)
      BY <2>3, <3>3 DEF RunStep, Life!Next, Life!Abort, Run, Inv, SummaryInv, Finalized
    <3>. QED
      BY <2>3, <3>1, <3>2, <3>3 DEF RunStep
  <2>. QED
    BY <2>1, <2>2, <2>3, StepEffect
<1>. QED
  BY <1>1, <1>2, Invariance, PTL DEF Spec, ImplementsRunLifecycle, Life!Spec
-----------------------------------------------------------------------------
(* What a reconciliation names. *)

\* Only a reconciliation has more to say than its kind and its invocation.
WellMade(e) == e.kind # "RECONCILIATION" => e = Lifecycle(e.kind, e.inv)
MadeInv == \A s \in Sessions : WellMade(request[s].event)

\* The START of an invocation comes before all its events.
StartedFirst == \A n \in DOMAIN events :
                   \E m \in 1 .. n : events[m] = Lifecycle("START", events[n].inv)

\* The events the sessions build are well made.
LEMMA MadeEvents ==
    /\ WellMade(NoEvent) /\ WellMade(NoRequest.event)
    /\ \A k \in Kinds : \A i : WellMade(Lifecycle(k, i))
    /\ \A i, why, r : WellMade(Reconciliation(i, why, r))
BY DEF WellMade, NoEvent, NoRequest, Request, Lifecycle, Reconciliation

\* Every step of a session keeps its request well made.
LEMMA MadeStep ==
    ASSUME TypeOK, MadeInv, NEW s \in Sessions,
           Begin(s) \/ Continue(s) \/ LockTimeout(s) \/ Stop(s)
    PROVE  MadeInv'
<1>. USE DEF Goto, disk, operation
<1>0. \A u \in Sessions : u # s => request'[u] = request[u]
  BY OthersStay
<1>1. ASSUME NEW op, NEW e, Submit(s, op, e), WellMade(e) PROVE MadeInv'
  <2>1. request'[s].event = e
    BY <1>1 DEF Submit, Request, TypeOK
  <2>. QED
    BY <1>0, <1>1, <2>1 DEF MadeInv
<1>2. CASE \E i \in Invs : StartInvocation(s, i) \/ Complete(s, i) \/ Assess(s, i)
  BY <1>1, <1>2, MadeEvents DEF StartInvocation, Complete, Assess, Kinds
<1>3. CASE \/ \E i \in Invs, r \in Invs \cup {NoInv} : ReconcileInvocation(s, i, r)
           \/ \E i \in Invs : NextOrphan(s, i)
           \/ \E op \in {"finalize", "abort"} : Terminate(s, op)
  BY <1>1, <1>3, MadeEvents DEF ReconcileInvocation, NextOrphan, Terminate
<1>4. ASSUME request'[s] = request[s] \/ request'[s] = NoRequest PROVE MadeInv'
  BY <1>0, <1>4, MadeEvents DEF MadeInv
<1>5. CASE CreateRun(s) \/ OpenRun(s) \/ ReconcileOrphans(s)
  BY <1>4, <1>5 DEF CreateRun, OpenRun, ReconcileOrphans
<1>6. CASE CreateLedger(s) \/ OpenLedger(s) \/ Acquire(s) \/ CheckOpen(s) \/ AppendEvent(s)
           \/ AppendFails(s) \/ Sweep(s) \/ Verify(s) \/ WriteFinal(s) \/ WriteAborted(s)
  BY <1>4, <1>6 DEF CreateLedger, OpenLedger, Acquire, CheckOpen, AppendEvent, AppendFails, Sweep,
                    Verify, WriteFinal, WriteAborted, WriteRun
<1>7. CASE Unlock(s) \/ UnlockFails(s) \/ Refresh(s) \/ RefreshFails(s) \/ LockTimeout(s) \/ Stop(s)
  BY <1>4, <1>7 DEF Unlock, UnlockFails, Settle, Refresh, RefreshFails, LockTimeout, Stop, TypeOK
<1>. QED
  BY <1>2, <1>3, <1>5, <1>6, <1>7 DEF Begin, Continue

\* An event that is appended is one a session requested.
LEMMA AppendsRequest ==
    ASSUME Inv, MadeInv, Next
    PROVE  \/ events' = events
           \/ \E e \in Event : WellMade(e) /\ Legal(events, e) /\ events' = Append(events, e)
<1>. USE DEF disk
<1>1. ASSUME NEW s \in Sessions, AppendEvent(s) \/ AppendFails(s)
      PROVE  \/ events' = events
             \/ \E e \in Event : WellMade(e) /\ Legal(events, e) /\ events' = Append(events, e)
  <2>1. request[s].event \in Event /\ WellMade(request[s].event)
    BY <1>1 DEF Inv, RequestInv, MadeInv, AppendEvent, AppendFails
  <2>. QED
    BY <1>1, <2>1 DEF AppendEvent, AppendFails
<1>2. ASSUME NEW s \in Sessions, Begin(s) \/ LockTimeout(s) \/ Stop(s) PROVE events' = events
  BY <1>2 DEF Begin, CreateRun, OpenRun, StartInvocation, Complete, Assess, ReconcileInvocation,
              ReconcileOrphans, Terminate, Submit, LockTimeout, Stop
<1>3. ASSUME NEW s \in Sessions, Continue(s), ~AppendEvent(s), ~AppendFails(s) PROVE events' = events
  BY <1>3 DEF Continue, CreateLedger, OpenLedger, NextOrphan, Submit, Acquire, CheckOpen, Sweep,
              Verify, WriteFinal, WriteAborted, Unlock, UnlockFails, Refresh, RefreshFails
<1>. QED
  BY <1>1, <1>2, <1>3 DEF Next

\* A legal event is a START, or one of an invocation with an event before.
LEMMA LegalIsKnown ==
    ASSUME NEW evs, NEW e \in Event, Legal(evs, e), e.kind # "START"
    PROVE  /\ Known(evs, e.inv)
           /\ e.repl # NoInv /\ e.kind = "RECONCILIATION" => e.repl # e.inv /\ Known(evs, e.repl)
<1>1. Status(evs, e.inv) # "NONE" => Known(evs, e.inv)
  BY DEF Status
<1>2. e.kind \in Kinds
  BY DEF Event
<1>3. CASE e.kind = "COMPLETION"
  <2>1. Status(evs, e.inv) = "STARTED"
    BY <1>3 DEF Legal
  <2>. QED
    BY <1>1, <1>3, <2>1
<1>4. CASE e.kind = "ASSESSMENT"
  <2>1. Status(evs, e.inv) = "COMPLETED"
    BY <1>4 DEF Legal
  <2>. QED
    BY <1>1, <1>4, <2>1
<1>5. CASE e.kind = "RECONCILIATION"
  <2>1. /\ Open(evs, e.inv)
        /\ e.repl # NoInv => e.repl # e.inv /\ Known(evs, e.repl)
    BY <1>5 DEF Legal
  <2>. QED
    BY <1>1, <1>5, <2>1 DEF Open, Unfinished
<1>. QED
  BY <1>2, <1>3, <1>4, <1>5 DEF Kinds

\* A new event keeps what each reconciliation names started before it.
LEMMA ReplacementStep ==
    ASSUME Inv, MadeInv, StartedFirst, ReplacementStartedFirst, Next
    PROVE  StartedFirst' /\ ReplacementStartedFirst'
<1>1. CASE events' = events
  BY <1>1 DEF StartedFirst, ReplacementStartedFirst
<1>2. ASSUME NEW e \in Event, WellMade(e), Legal(events, e), events' = Append(events, e)
      PROVE  StartedFirst' /\ ReplacementStartedFirst'
  <2>. DEFINE N == Len(events) + 1
  <2>1. /\ Len(events) \in Nat
        /\ DOMAIN events = 1 .. Len(events) /\ DOMAIN events' = 1 .. N
        /\ \A n \in DOMAIN events : events'[n] = events[n]
        /\ events'[N] = e
    BY <1>2, AppendLedger DEF Inv, TypeOK
  <2>2. ASSUME NEW i, Known(events, i)
        PROVE  \E m \in 1 .. Len(events) : events[m] = Lifecycle("START", i)
    <3>1. PICK n \in DOMAIN events : events[n].inv = i
      BY <2>2 DEF Known, EventsOf
    <3>2. PICK m \in 1 .. n : events[m] = Lifecycle("START", i)
      BY <3>1 DEF StartedFirst
    <3>. QED
      BY <2>1, <3>1, <3>2
  <2>3. e.kind = "START" => e = Lifecycle("START", e.inv)
    BY <1>2 DEF WellMade
  <2>4. \E m \in 1 .. N : events'[m] = Lifecycle("START", e.inv)
    <3>1. CASE e.kind = "START"
      BY <2>1, <2>3, <3>1
    <3>2. CASE e.kind # "START"
      <4>1. PICK m \in 1 .. Len(events) : events[m] = Lifecycle("START", e.inv)
        BY <1>2, <2>2, <3>2, LegalIsKnown
      <4>. QED
        BY <2>1, <4>1
    <3>. QED
      BY <3>1, <3>2
  <2>5. StartedFirst'
    <3>. SUFFICES ASSUME NEW n \in 1 .. N
                  PROVE  \E m \in 1 .. n : events'[m] = Lifecycle("START", events'[n].inv)
      BY <2>1 DEF StartedFirst
    <3>1. CASE n = N
      BY <2>1, <2>4, <3>1
    <3>2. CASE n \in DOMAIN events
      <4>1. PICK m \in 1 .. n : events[m] = Lifecycle("START", events[n].inv)
        BY <3>2 DEF StartedFirst
      <4>. QED
        BY <2>1, <3>2, <4>1
    <3>. QED
      BY <2>1, <3>1, <3>2
  <2>6. e.repl # NoInv => /\ e.repl # e.inv
                          /\ \E m \in 1 .. Len(events) : events[m] = Lifecycle("START", e.repl)
    <3>1. e.repl # NoInv => e.kind = "RECONCILIATION"
      BY <1>2 DEF WellMade, Lifecycle
    <3>. QED
      BY <1>2, <2>2, <3>1, LegalIsKnown
  <2>7. ReplacementStartedFirst'
    <3>. SUFFICES ASSUME NEW n \in 1 .. N, events'[n].repl # NoInv
                  PROVE  /\ events'[n].repl # events'[n].inv
                         /\ \E m \in 1 .. n - 1 : events'[m] = Lifecycle("START", events'[n].repl)
      BY <2>1 DEF ReplacementStartedFirst
    <3>1. CASE n = N
      <4>1. PICK m \in 1 .. Len(events) : events[m] = Lifecycle("START", e.repl)
        BY <2>1, <2>6, <3>1
      <4>2. m \in 1 .. n - 1 /\ events'[m] = events[m]
        BY <2>1, <3>1
      <4>. QED
        BY <2>1, <2>6, <3>1, <4>1, <4>2
    <3>2. CASE n \in DOMAIN events
      <4>1. PICK m \in 1 .. n - 1 : events[m] = Lifecycle("START", events[n].repl)
        BY <2>1, <3>2 DEF ReplacementStartedFirst
      <4>2. m \in DOMAIN events /\ events'[m] = events[m]
        BY <2>1, <3>2
      <4>3. events[n].repl # events[n].inv
        BY <2>1, <3>2 DEF ReplacementStartedFirst
      <4>. QED
        BY <2>1, <3>2, <4>1, <4>2, <4>3
    <3>. QED
      BY <2>1, <3>1, <3>2
  <2>. QED
    BY <2>5, <2>7
<1>. QED
  BY <1>1, <1>2, AppendsRequest

\* A reconciliation never names an invocation that nobody started.
THEOREM ReplacementsStarted == Spec => []ReplacementStartedFirst
<1>. DEFINE J == Inv /\ MadeInv /\ StartedFirst /\ ReplacementStartedFirst
<1>1. Init => J
  <2>. SUFFICES ASSUME Init PROVE MadeInv /\ StartedFirst /\ ReplacementStartedFirst
    BY InitInv
  <2>. QED
    BY MadeEvents DEF Init, MadeInv, StartedFirst, ReplacementStartedFirst
<1>2. J /\ [Next]_vars => J'
  <2>. SUFFICES ASSUME J, [Next]_vars PROVE MadeInv' /\ StartedFirst' /\ ReplacementStartedFirst'
    BY InvStep
  <2>1. CASE Next
    BY <2>1, MadeStep, ReplacementStep DEF Next, Inv
  <2>2. CASE UNCHANGED vars
    BY <2>2 DEF vars, MadeInv, StartedFirst, ReplacementStartedFirst
  <2>. QED
    BY <2>1, <2>2
<1>. QED
  BY <1>1, <1>2, PTL DEF Spec
-----------------------------------------------------------------------------
(* What a projection shows. *)

\* A later ledger has the pasts of an earlier one.
LEMMA PastStays ==
    ASSUME NEW evs \in Seq(Event), NEW e \in Event, NEW n \in DOMAIN evs
    PROVE  n \in DOMAIN Append(evs, e) /\ SubSeq(Append(evs, e), 1, n) = SubSeq(evs, 1, n)
<1>1. n \in 1 .. Len(evs) /\ Len(evs) \in Nat /\ Append(evs, e) \in Seq(Event)
      /\ DOMAIN Append(evs, e) = 1 .. (Len(evs) + 1)
      /\ \A k \in 1 .. Len(evs) : Append(evs, e)[k] = evs[k]
  BY AppendLedger
<1>. QED
  BY <1>1

\* Every step keeps what projections show a past of the ledger.
LEMMA ProjectionStep == Inv /\ ProjectionIsPast /\ [Next]_vars => ProjectionIsPast'
<1>. SUFFICES ASSUME Inv, ProjectionIsPast, [Next]_vars PROVE ProjectionIsPast'
  OBVIOUS
<1>. USE DEF disk
<1>0. events \in Seq(Event) /\ projection \in [Invs -> Statuses \cup {"NONE"}]
  BY DEF Inv, TypeOK
<1>1. CASE projection' = projection
  <2>1. events' = events \/ \E e \in Event : events' = Append(events, e)
    BY StepEffect DEF LedgerStep, RunStep
  <2>2. \A n \in DOMAIN events : n \in DOMAIN events' /\ SubSeq(events', 1, n) = SubSeq(events, 1, n)
    BY <1>0, <2>1, PastStays
  <2>. QED
    BY <1>1, <2>2 DEF ProjectionIsPast
<1>2. ASSUME NEW s \in Sessions, Refresh(s) PROVE ProjectionIsPast'
  <2>. DEFINE i == request[s].event.inv
              now == Status(SubSeq(events, 1, known[s]), i)
  <2>1. projection' = [projection EXCEPT ![i] = now] /\ events' = events
    BY <1>2 DEF Refresh, Memory
  <2>2. known[s] \in Nat /\ known[s] <= Len(events) /\ Len(events) \in Nat
        /\ DOMAIN events = 1 .. Len(events)
    BY <1>0 DEF Inv, TypeOK
  <2>3. known[s] = 0 => now = "NONE"
    <3>1. known[s] = 0 => SubSeq(events, 1, known[s]) = <<>>
      BY <1>0
    <3>2. Status(<<>>, i) = "NONE"
      BY DEF Status, Known, EventsOf
    <3>. QED
      BY <3>1, <3>2
  <2>4. now # "NONE" => known[s] \in DOMAIN events
    BY <2>2, <2>3
  <2>. HIDE DEF i
  <2>5. \A j \in Invs : \/ projection'[j] = projection[j]
                        \/ /\ j = i
                           /\ projection'[j] = Status(SubSeq(events, 1, known[s]), j)
    BY <1>0, <2>1
  <2>. QED
    BY <2>1, <2>4, <2>5 DEF ProjectionIsPast
<1>3. ASSUME NEW s \in Sessions, Begin(s) \/ LockTimeout(s) \/ Stop(s) PROVE projection' = projection
  BY <1>3 DEF Begin, CreateRun, OpenRun, StartInvocation, Complete, Assess, ReconcileInvocation,
              ReconcileOrphans, Terminate, Submit, LockTimeout, Stop
<1>4. ASSUME NEW s \in Sessions, Continue(s), ~Refresh(s) PROVE projection' = projection
  BY <1>4 DEF Continue, CreateLedger, OpenLedger, NextOrphan, Submit, Acquire, CheckOpen,
              AppendEvent, AppendFails, Sweep, Verify, WriteFinal, WriteAborted, Unlock, UnlockFails,
              RefreshFails
<1>5. CASE UNCHANGED vars
  BY <1>1, <1>5 DEF vars
<1>. QED
  BY <1>1, <1>2, <1>3, <1>4, <1>5 DEF Next

\* No projection ever shows a status its invocation has not had.
THEOREM ProjectionsArePast == Spec => []ProjectionIsPast
<1>1. Init => ProjectionIsPast
  BY DEF Init, ProjectionIsPast
<1>. QED
  BY <1>1, Invariance, ProjectionStep, PTL DEF Spec
-----------------------------------------------------------------------------
(* A finalized store, with one live session at a time.                     *)

\* No two sessions are live.
Alone == \A s, u \in Live : s = u

\* What finalize verified still holds when it writes the record.
VerifiedHolds == \A s \in Sessions : pc[s] = "verified" =>
                    request[s].op = "finalize" /\ ProjectionsMatch /\ file = "whole"

\* Once the run is finalized, the session that finalized it leaves the
\* operation, and a later one finds a record that is not open.
Quiet(s) == /\ pc[s] \in {"out", "opening", "idle", "returning", "ended"}
            /\ pc[s] = "returning" => request[s].op = "finalize"
            /\ pc[s] \in {"opening", "idle", "returning"} => record[s].state # "OPEN"

QuietInv == run.state \in Finalized =>
               ProjectionsMatch /\ file = "whole" /\ \A s \in Sessions : Quiet(s)

AloneInv == Alone /\ VerifiedHolds /\ QuietInv

\* While a session acts the others are not live, and they stay as they are.
LEMMA OnlyOne ==
    ASSUME MaxLive = 1, TypeOK, Alone, NEW s \in Sessions,
           Begin(s) \/ Continue(s) \/ LockTimeout(s) \/ Stop(s)
    PROVE  /\ \A u \in Sessions \ {s} : pc[u] \in {"out", "ended"} /\ pc'[u] = pc[u]
           /\ Alone'
<1>1. \A u \in Sessions \ {s} : pc[u] \in {"out", "ended"}
  <2>1. CASE s \in Live
    BY <2>1 DEF Alone, Live
  <2>2. CASE s \notin Live
    <3>1. MayEnter(s)
      BY <2>2 DEF Live, Begin, CreateRun, OpenRun, StartInvocation, Complete, Assess,
         ReconcileInvocation, ReconcileOrphans, Terminate, Writable, Continue, CreateLedger,
         OpenLedger, NextOrphan, Acquire, CheckOpen, AppendEvent, AppendFails, Sweep, Verify,
         WriteFinal, WriteAborted, Unlock, UnlockFails, Refresh, RefreshFails, LockTimeout, Stop
    <3>2. Cardinality(Live) < 1
      BY <3>1 DEF MayEnter
    <3>3. ASSUME NEW u \in Live PROVE FALSE
      <4>1. Live = {u}
        BY <3>3 DEF Alone
      <4>2. Cardinality({u}) = 1
        BY FS_Singleton
      <4>. QED
        BY <3>2, <4>1, <4>2
    <3>. QED
      BY <3>3 DEF Live
  <2>. QED
    BY <2>1, <2>2
<1>2. \A u \in Sessions \ {s} : pc'[u] = pc[u]
  BY OthersStay
<1>. QED
  BY <1>1, <1>2 DEF Alone, Live

\* Between the verification and the record nothing else moves.
LEMMA VerifiedStep ==
    ASSUME MaxLive = 1, TypeOK, Alone, VerifiedHolds, NEW s \in Sessions,
           Begin(s) \/ Continue(s) \/ LockTimeout(s) \/ Stop(s)
    PROVE  VerifiedHolds'
<1>. USE DEF Goto, disk, operation
<1>0. \A u \in Sessions \ {s} : pc'[u] # "verified"
  BY OnlyOne
<1>1. CASE Verify(s)
  <2>1. /\ request' = request /\ events' = events /\ projection' = projection /\ file' = file
        /\ request[s].op = "finalize"
        /\ pc'[s] = "verified" => file = "whole" /\ ProjectionsMatch
    BY <1>1 DEF Verify, TypeOK
  <2>. QED
    BY <1>0, <2>1 DEF VerifiedHolds, ProjectionsMatch
<1>2. CASE ~Verify(s)
  <2>1. pc'[s] # "verified"
    <3>1. CASE Begin(s)
      BY <3>1 DEF Begin, CreateRun, OpenRun, StartInvocation, Complete, Assess,
         ReconcileInvocation, ReconcileOrphans, Terminate, Submit, TypeOK
    <3>2. CASE Continue(s) \/ LockTimeout(s) \/ Stop(s)
      BY <1>2, <3>2 DEF Continue, CreateLedger, OpenLedger, NextOrphan, Submit, Acquire,
         CheckOpen, AppendEvent, AppendFails, Sweep, WriteFinal, WriteAborted, WriteRun, Unlock,
         UnlockFails, Settle, Refresh, RefreshFails, LockTimeout, Stop, TypeOK
    <3>. QED
      BY <3>1, <3>2
  <2>. QED
    BY <1>0, <2>1 DEF VerifiedHolds
<1>. QED
  BY <1>1, <1>2
\* Only finalize makes a run finalized, and nothing undoes it.
LEMMA QuietStep ==
    ASSUME MaxLive = 1, TypeOK, Alone, VerifiedHolds, QuietInv, NEW s \in Sessions,
           Begin(s) \/ Continue(s) \/ LockTimeout(s) \/ Stop(s)
    PROVE  QuietInv'
<1>. USE DEF Goto, disk, operation
<1>0. \A u \in Sessions \ {s} : Quiet(u)'
  BY OnlyOne DEF Quiet
<1>1. CASE WriteFinal(s)
  <2>1. UNCHANGED <<file, events, projection, request>> /\ pc[s] = "verified"
    BY <1>1 DEF WriteFinal
  <2>2. ProjectionsMatch' /\ file' = "whole" /\ request'[s].op = "finalize"
    BY <2>1 DEF VerifiedHolds, ProjectionsMatch
  <2>3. CASE run' = run
    <3>1. run.state \notin Finalized
      BY <2>1 DEF QuietInv, Quiet
    <3>. QED
      BY <2>3, <3>1 DEF QuietInv
  <2>4. CASE run' # run
    <3>1. pc'[s] = "returning" /\ record'[s] = run' /\ run'.state = Outcome(verdict[s])
      BY <1>1, <2>4 DEF WriteFinal, WriteRun, Run, TypeOK
    <3>2. record'[s].state # "OPEN"
      BY <3>1 DEF Outcome
    <3>. QED
      BY <1>0, <2>2, <3>1, <3>2 DEF QuietInv, Quiet
  <2>. QED
    BY <2>3, <2>4
<1>2. CASE CreateRun(s) \/ WriteAborted(s)
  <2>1. run' = run \/ run'.state \in {"OPEN", "ABORTED"}
    BY <1>2 DEF CreateRun, WriteAborted, WriteRun, Run
  <2>2. run'.state \in Finalized => run.state \in Finalized /\ ~CreateRun(s) /\ pc[s] = "swept"
    BY <1>2, <2>1 DEF Finalized, CreateRun, WriteAborted, Run
  <2>. QED
    BY <2>2 DEF QuietInv, Quiet
<1>3. ASSUME ~WriteFinal(s), ~CreateRun(s), ~WriteAborted(s), run.state \in Finalized
      PROVE  ProjectionsMatch' /\ file' = "whole" /\ Quiet(s)'
  <2>0. Quiet(s) /\ ProjectionsMatch /\ file = "whole"
    BY <1>3 DEF QuietInv
  <2>1. CASE Begin(s)
    <3>1. OpenRun(s)
      BY <1>3, <2>0, <2>1 DEF Begin, StartInvocation, Complete, Assess, ReconcileInvocation,
         ReconcileOrphans, Terminate, Writable, Quiet
    <3>2. record'[s].state # "OPEN" /\ pc'[s] = "opening"
      BY <1>3, <3>1 DEF OpenRun, Finalized, TypeOK
    <3>. QED
      BY <2>0, <3>1, <3>2 DEF OpenRun, Quiet, ProjectionsMatch
  <2>2. CASE Continue(s) \/ LockTimeout(s)
    <3>1. OpenLedger(s) \/ Unlock(s) \/ UnlockFails(s)
      BY <1>3, <2>0, <2>2 DEF Continue, CreateLedger, NextOrphan, Acquire, CheckOpen,
         AppendEvent, AppendFails, Sweep, Verify, Refresh, RefreshFails, LockTimeout, Quiet
    <3>2. UNCHANGED <<disk, record>>
      BY <3>1 DEF OpenLedger, Unlock, UnlockFails
    <3>3. /\ pc'[s] \in {"idle", "ended"}
          /\ pc[s] \in {"opening", "returning"}
      BY <2>0, <3>1 DEF OpenLedger, Unlock, UnlockFails, Settle, Quiet, TypeOK
    <3>. QED
      BY <2>0, <3>2, <3>3 DEF Quiet, ProjectionsMatch
  <2>3. CASE Stop(s)
    BY <2>0, <2>3 DEF Stop, Quiet, ProjectionsMatch, TypeOK
  <2>. QED
    BY <2>1, <2>2, <2>3
<1>4. ASSUME ~WriteFinal(s), ~CreateRun(s), ~WriteAborted(s) PROVE run' = run
  BY <1>4 DEF Begin, OpenRun, StartInvocation, Complete, Assess, ReconcileInvocation,
     ReconcileOrphans, Terminate, Submit, Continue, CreateLedger, OpenLedger, NextOrphan, Acquire,
     CheckOpen, AppendEvent, AppendFails, Sweep, Verify, Unlock, UnlockFails, Refresh,
     RefreshFails, LockTimeout, Stop
<1>. QED
  BY <1>0, <1>1, <1>2, <1>3, <1>4 DEF QuietInv

\* When no two sessions are live at once, a finalized store is valid for the
\* reader, whichever writes failed or sessions died before finalize.
THEOREM AloneIsValid == ASSUME MaxLive = 1 PROVE Spec => []FinalizedStoreIsValid
<1>1. Init => AloneInv
  BY DEF Init, AloneInv, Alone, Live, VerifiedHolds, QuietInv, NoRun, Run, Finalized
<1>2. Inv /\ AloneInv /\ [Next]_vars => AloneInv'
  <2>. SUFFICES ASSUME Inv, AloneInv, [Next]_vars PROVE AloneInv'
    OBVIOUS
  <2>1. CASE Next
    BY <2>1, OnlyOne, VerifiedStep, QuietStep DEF Next, AloneInv, Inv
  <2>2. CASE UNCHANGED vars
    BY <2>2 DEF vars, AloneInv, Alone, Live, VerifiedHolds, QuietInv, Quiet, ProjectionsMatch
  <2>. QED
    BY <2>1, <2>2
<1>3. AloneInv => FinalizedStoreIsValid
  BY DEF AloneInv, QuietInv, FinalizedStoreIsValid
<1>. QED
  BY <1>1, <1>2, <1>3, Invariance, PTL DEF Spec
=============================================================================
