------------------------------ MODULE RunLock ------------------------------
(***************************************************************************)
(* The owner-verified lock on a run directory: withRunDirLock of           *)
(* src/src/logging/io.mjs.  Every call appends one ACQUIRE record to an    *)
(* append-only queue file, polls the file until every earlier owner has    *)
(* released or is verifiably dead, runs its callback and appends RELEASE.  *)
(* Nobody ever deletes a record, so the queue only grows.                  *)
(*                                                                         *)
(* A step is one system call (or one ps probe), so that a queue image read *)
(* by one process is used while others append, die or have their pid       *)
(* recycled.  Records are reduced to type and caller (the nonce); a file   *)
(* that ends in a partial record is the flag torn.                         *)
(***************************************************************************)
EXTENDS Integers, Sequences

CONSTANTS
    Calls,          \* invocations of withRunDirLock on one run directory
    Processes,      \* operating system processes that make them
    Owner,          \* the process that makes each call
    Nobody,         \* no call (of FifoLock)
    AppendFaults,   \* how an append can fail: subset of Faults
    Recycling,      \* what may later run under a dead owner's pid: subset of Recycled
    Timeouts        \* TRUE if a blocked call may reach its deadline

\* refused:  nothing is written (no start epoch, open or write error)
\* unsynced: the record is in the file but fsync, or the directory fsync, throws
\* short:    part of the record is in the file
Faults == {"refused", "unsynced", "short"}

\* reused: another process runs under the pid, with another start time
\* twin:   another process runs under the pid, started in the same clock second
Recycled == {"reused", "twin"}

ASSUME OwnerAssumption == Owner \in [Calls -> Processes]
ASSUME NobodyIsNoCall == Nobody \notin Calls
ASSUME FaultsAssumption == AppendFaults \subseteq Faults
ASSUME RecyclingAssumption == Recycling \subseteq Recycled
ASSUME TimeoutsAssumption == Timeouts \in BOOLEAN

VARIABLES
    queue,      \* the complete records of owners.jsonl, oldest first
    torn,       \* the file holds a partial record: no reader accepts it again
    life,       \* what answers under the pid of each process
    pc,         \* where each call is
    suspects    \* owners of the image a call read that it has yet to clear

vars == <<queue, torn, life, pc, suspects>>

PcStates == {"idle", "reading", "probing", "inside", "leaving", "ended"}

Record == [type : {"ACQUIRE", "RELEASE"}, call : Calls]
Acquire(c) == [type |-> "ACQUIRE", call |-> c]
Release(c) == [type |-> "RELEASE", call |-> c]

Alive(c) == life[Owner[c]] = "alive"
Acquired(c) == \E i \in DOMAIN queue : queue[i] = Acquire(c)
Released(c) == \E i \in DOMAIN queue : queue[i] = Release(c)

\* b's ACQUIRE record stands before c's.
Ahead(b, c) == \E i, j \in DOMAIN queue :
                  i < j /\ queue[i] = Acquire(b) /\ queue[j] = Acquire(c)

\* Faulty: only the caller's immediate predecessor is considered.
BlockersNearest(c) == {b \in Calls : /\ Ahead(b, c) /\ ~Released(b)
                                     /\ \A a \in Calls : Ahead(a, c) => a = b \/ Ahead(a, b)}

\* lockBlocker's candidates in the image just read: earlier, not released.
Blockers(c) == {b \in Calls : Ahead(b, c) /\ ~Released(b)}

\* Faulty: an owner that cannot be verified counts as dead.
DeadVerdictsUnknownIsDead(p) ==
    CASE life[p] = "gone" -> {TRUE}
      [] OTHER -> {TRUE, FALSE}

\* Faulty: a dead pid is retried as if it were live.
DeadVerdictsNever(p) ==
    CASE life[p] = "reused" -> {TRUE, FALSE}
      [] OTHER -> {FALSE}

\* ownerIsDead: the answers kill(pid, 0) and ps can give about a process.  An
\* unreadable start time is UNKNOWN and counts as not dead.
DeadVerdicts(p) ==
    CASE life[p] = "gone" -> {TRUE}
      [] life[p] = "reused" -> {TRUE, FALSE}
      [] OTHER -> {FALSE}

Init == /\ queue = <<>>
        /\ torn = FALSE
        /\ life = [p \in Processes |-> "alive"]
        /\ pc = [c \in Calls |-> "idle"]
        /\ suspects = [c \in Calls |-> {}]

Goto(c, place) == pc' = [pc EXCEPT ![c] = place]

\* appendLockRecord: one O_APPEND write, then fsync.  A record appended to a
\* file with a partial tail is part of an unreadable line.
AppendRecord(r) == /\ queue' = IF torn THEN queue ELSE Append(queue, r)
                   /\ UNCHANGED torn

AppendFails(r) ==
    \/ "refused" \in AppendFaults /\ UNCHANGED <<queue, torn>>
    \/ "unsynced" \in AppendFaults /\ AppendRecord(r)
    \/ "short" \in AppendFaults /\ torn' = TRUE /\ UNCHANGED queue

\* The ACQUIRE append is outside the try block: when it throws, the call ends
\* and no RELEASE is ever appended for it.
Queue(c) == /\ pc[c] = "idle"
            /\ Alive(c)
            /\ AppendRecord(Acquire(c))
            /\ Goto(c, "reading")
            /\ UNCHANGED <<life, suspects>>

QueueFails(c) == /\ pc[c] = "idle"
                 /\ Alive(c)
                 /\ AppendFails(Acquire(c))
                 /\ Goto(c, "ended")
                 /\ UNCHANGED <<life, suspects>>

\* Faulty: a caller that meets an unreadable queue polls it again.
ReadQueueAgain(c) == /\ pc[c] = "reading"
                     /\ ~torn
                     /\ Goto(c, "probing")
                     /\ suspects' = [suspects EXCEPT ![c] = Blockers(c)]
                     /\ UNCHANGED <<queue, torn, life>>

\* readLockQueue: fails closed on an incomplete or malformed file.
ReadQueue(c) == /\ pc[c] = "reading"
                /\ IF torn
                   THEN Goto(c, "leaving") /\ UNCHANGED suspects
                   ELSE /\ Goto(c, "probing")
                        /\ suspects' = [suspects EXCEPT ![c] = Blockers(c)]
                /\ UNCHANGED <<queue, torn, life>>

\* The earliest owner still to clear; lockBlocker walks the image in order.
Earliest(c, b) == /\ b \in suspects[c]
                  /\ \A a \in suspects[c] : ~Ahead(a, b)

SkipDead(c, b) == /\ pc[c] = "probing"
                  /\ Earliest(c, b)
                  /\ TRUE \in DeadVerdicts(Owner[b])
                  /\ suspects' = [suspects EXCEPT ![c] = @ \ {b}]
                  /\ UNCHANGED <<queue, torn, life, pc>>

Blocked(c) == /\ pc[c] = "probing"
              /\ \E b \in Calls : Earliest(c, b) /\ FALSE \in DeadVerdicts(Owner[b])

Retry(c) == /\ Blocked(c)
            /\ Goto(c, "reading")
            /\ suspects' = [suspects EXCEPT ![c] = {}]
            /\ UNCHANGED <<queue, torn, life>>

TimeOut(c) == /\ Timeouts
              /\ Blocked(c)
              /\ Goto(c, "leaving")
              /\ suspects' = [suspects EXCEPT ![c] = {}]
              /\ UNCHANGED <<queue, torn, life>>

Enter(c) == /\ pc[c] = "probing"
            /\ suspects[c] = {}
            /\ Goto(c, "inside")
            /\ UNCHANGED <<queue, torn, life, suspects>>

\* The callback returned or threw: control reaches the finally block.
CallbackEnds(c) == /\ pc[c] = "inside"
                   /\ Goto(c, "leaving")
                   /\ UNCHANGED <<queue, torn, life, suspects>>

Leave(c) == /\ pc[c] = "leaving"
            /\ AppendRecord(Release(c))
            /\ Goto(c, "ended")
            /\ UNCHANGED <<life, suspects>>

LeaveFails(c) == /\ pc[c] = "leaving"
                 /\ AppendFails(Release(c))
                 /\ Goto(c, "ended")
                 /\ UNCHANGED <<life, suspects>>

\* A process dies, at any point of its calls; nothing is undone in the file.
Crash(p) == /\ life[p] = "alive"
            /\ life' = [life EXCEPT ![p] = "gone"]
            /\ pc' = [c \in Calls |-> IF Owner[c] = p THEN "ended" ELSE pc[c]]
            /\ suspects' = [c \in Calls |-> IF Owner[c] = p THEN {} ELSE suspects[c]]
            /\ UNCHANGED <<queue, torn>>

\* The pid of a dead owner is given to a foreign process, and freed again.
Recycle(p) == /\ life[p] = "gone"
              /\ \E r \in Recycling : life' = [life EXCEPT ![p] = r]
              /\ UNCHANGED <<queue, torn, pc, suspects>>

ForeignExits(p) == /\ life[p] \in Recycled
                   /\ life' = [life EXCEPT ![p] = "gone"]
                   /\ UNCHANGED <<queue, torn, pc, suspects>>

Step(c) == \/ Queue(c) \/ QueueFails(c)
           \/ ReadQueue(c) \/ (\E b \in Calls : SkipDead(c, b)) \/ Retry(c) \/ TimeOut(c)
           \/ Enter(c) \/ CallbackEnds(c)
           \/ Leave(c) \/ LeaveFails(c)

Next == \/ \E c \in Calls : Step(c)
        \/ \E p \in Processes : Crash(p) \/ Recycle(p) \/ ForeignExits(p)

Spec == Init /\ [][Next]_vars

\* A call in progress keeps running and its callback ends.  Nothing is assumed
\* of crashes, of the pid table or of new calls.
KeepsRunning ==
    \A c \in Calls : WF_vars(\/ ReadQueue(c) \/ (\E b \in Calls : SkipDead(c, b))
                             \/ Retry(c) \/ Enter(c) \/ CallbackEnds(c)
                             \/ Leave(c) \/ LeaveFails(c))

\* The clock of a call that is blocked again and again reaches its deadline.
DeadlinesPass == \A c \in Calls : SF_vars(TimeOut(c))

\* A probe of a dead owner repeated forever does not stay UNKNOWN.
ProbesAnswer == \A b, c \in Calls : SF_vars(SkipDead(c, b))

DeadlineSpec == Spec /\ KeepsRunning /\ DeadlinesPass
ProbeSpec == Spec /\ KeepsRunning /\ ProbesAnswer

-----------------------------------------------------------------------------
\* The types of the variables.
TypeOK == /\ queue \in Seq(Record)
          /\ torn \in BOOLEAN
          /\ life \in [Processes -> {"alive", "gone"} \cup Recycled]
          /\ pc \in [Calls -> PcStates]
          /\ suspects \in [Calls -> SUBSET Calls]

\* At most one call is running its callback, whatever crashed, was recycled,
\* timed out or failed to write (io.mjs header: appends and finalization are
\* serialized across sessions).
MutualExclusion == \A b, c \in Calls : pc[b] = "inside" /\ pc[c] = "inside" => b = c

\* The call inside is first in line: every owner queued before it has a
\* RELEASE record or is dead, although it was let in on an old image.
HolderIsFirst ==
    \A b, c \in Calls : pc[c] = "inside" /\ Ahead(b, c) => Released(b) \/ ~Alive(b)

\* The queue implements the numbered line of FifoLock: tickets are positions
\* in the file.
Position(c) == IF Acquired(c) THEN CHOOSE i \in DOMAIN queue : queue[i] = Acquire(c) ELSE 0
Gone == {c \in Calls : Released(c) \/ ~Alive(c)}
Holder == IF \E c \in Calls : pc[c] = "inside"
          THEN CHOOSE c \in Calls : pc[c] = "inside" ELSE Nobody

Line == INSTANCE FifoLock WITH ticket <- [c \in Calls |-> Position(c)],
                               gone <- Gone, holder <- Holder
ImplementsFifoLock == Line!Spec

\* Every call that took its place in the queue returns or dies with its
\* process, even behind an owner that never releases (the 15 s deadline).
EveryCallReturns == \A c \in Calls : pc[c] = "reading" ~> pc[c] = "ended"

\* Without deadlines and write faults, dead owners never wedge the lock: a
\* queued call gets in, unless its own process dies.
DeadOwnersNeverWedge ==
    \A c \in Calls : pc[c] = "reading" ~> (pc[c] = "inside" \/ ~Alive(c))
=============================================================================
