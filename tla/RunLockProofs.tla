--------------------------- MODULE RunLockProofs ---------------------------
(***************************************************************************)
(* RunLock for every set of calls and processes: types, mutual exclusion   *)
(* and first-come-first-served entry, and the implementation of FifoLock.  *)
(***************************************************************************)
EXTENDS RunLock, SequenceTheorems, TLAPS

\* The queue file never holds two ACQUIRE records of one call (fresh nonces),
\* a call that has not begun has none, and only an ended call has a RELEASE.
QueueInv ==
    /\ \A c \in Calls : \A i, j \in DOMAIN queue :
          queue[i] = Acquire(c) /\ queue[j] = Acquire(c) => i = j
    /\ \A c \in Calls : pc[c] = "idle" => ~Acquired(c)
    /\ \A c \in Calls : Released(c) => pc[c] = "ended"

\* A call in progress belongs to a live process and stands in the queue (a
\* reader may be missing when the file was torn before its record).
CallerInv ==
    \A c \in Calls :
       /\ pc[c] \in {"reading", "probing", "inside", "leaving"} => Alive(c)
       /\ pc[c] = "reading" => torn \/ Acquired(c)
       /\ pc[c] \in {"probing", "inside"} => Acquired(c)

\* Whoever stands ahead of a probing call is still to be cleared, or needs no
\* clearing any more: a stale image errs on the safe side only.
ProbeInv ==
    \A b, c \in Calls :
       pc[c] = "probing" /\ Ahead(b, c) => b \in suspects[c] \/ Released(b) \/ ~Alive(b)

Inv == TypeOK /\ QueueInv /\ CallerInv /\ ProbeInv /\ HolderIsFirst

-----------------------------------------------------------------------------
\* What an append, successful or not, does to the file.
Appended(r) == queue' = queue \/ queue' = Append(queue, r)

\* Records of different types or callers are different.
LEMMA RecordTypes ==
    ASSUME NEW c \in Calls
    PROVE  /\ Acquire(c) \in Record
           /\ Release(c) \in Record
           /\ \A b \in Calls : Acquire(c) # Release(b)
           /\ \A b \in Calls : Acquire(c) = Acquire(b) => b = c
           /\ \A b \in Calls : Release(c) = Release(b) => b = c
BY DEF Acquire, Release, Record

\* An append adds its record behind the others.
LEMMA AppendQueue ==
    ASSUME queue \in Seq(Record), NEW r \in Record, queue' = Append(queue, r)
    PROVE  /\ queue' \in Seq(Record)
           /\ DOMAIN queue = 1..Len(queue)
           /\ DOMAIN queue' = 1..(Len(queue) + 1)
           /\ Len(queue) \in Nat
           /\ \A i \in DOMAIN queue : i \in DOMAIN queue' /\ queue'[i] = queue[i]
           /\ queue'[Len(queue) + 1] = r
           /\ \A i \in DOMAIN queue' : i \in DOMAIN queue \/ i = Len(queue) + 1
OBVIOUS

\* Records are never lost, and a new one is the only news.
LEMMA AppendFacts ==
    ASSUME queue \in Seq(Record), NEW r \in Record, Appended(r), NEW c \in Calls
    PROVE  /\ Acquired(c) => Acquired(c)'
           /\ Acquired(c)' /\ r # Acquire(c) => Acquired(c)
           /\ Released(c) => Released(c)'
           /\ Released(c)' /\ r # Release(c) => Released(c)
<1>1. CASE queue' = queue
  BY <1>1 DEF Acquired, Released
<1>2. CASE queue' = Append(queue, r)
  BY <1>2, AppendQueue DEF Acquired, Released, Acquire, Release
<1>. QED
  BY <1>1, <1>2 DEF Appended

\* A new record is behind everybody.
LEMMA AppendAhead ==
    ASSUME queue \in Seq(Record), NEW r \in Record, Appended(r),
           NEW b \in Calls, NEW c \in Calls
    PROVE  /\ Ahead(b, c) => Ahead(b, c)'
           /\ Ahead(b, c)' /\ r # Acquire(c) => Ahead(b, c)
<1>1. CASE queue' = queue
  BY <1>1 DEF Ahead
<1>2. CASE queue' = Append(queue, r)
  <2>1. Ahead(b, c) => Ahead(b, c)'
    BY <1>2, AppendQueue DEF Ahead, Acquire
  <2>2. ASSUME Ahead(b, c)', r # Acquire(c) PROVE Ahead(b, c)
    <3>1. PICK i, j \in DOMAIN queue' : i < j /\ queue'[i] = Acquire(b) /\ queue'[j] = Acquire(c)
      BY <2>2 DEF Ahead, Acquire
    <3>2. j \in DOMAIN queue
      BY <3>1, <2>2, <1>2, AppendQueue
    <3>3. i \in DOMAIN queue
      BY <3>1, <3>2, <1>2, AppendQueue
    <3>. QED
      BY <3>1, <3>2, <3>3, <1>2, AppendQueue DEF Ahead
  <2>. QED
    BY <2>1, <2>2
<1>. QED
  BY <1>1, <1>2 DEF Appended

\* A caller that has no ACQUIRE record yet can add one.
LEMMA AppendUnique ==
    ASSUME queue \in Seq(Record), NEW r \in Record, Appended(r), NEW c \in Calls,
           \A i, j \in DOMAIN queue : queue[i] = Acquire(c) /\ queue[j] = Acquire(c) => i = j,
           r = Acquire(c) => ~Acquired(c)
    PROVE  \A i, j \in DOMAIN queue' : queue'[i] = Acquire(c) /\ queue'[j] = Acquire(c) => i = j
<1>1. CASE queue' = queue
  BY <1>1
<1>2. CASE queue' = Append(queue, r)
  BY <1>2, AppendQueue DEF Acquired
<1>. QED
  BY <1>1, <1>2 DEF Appended

-----------------------------------------------------------------------------
\* The initial state satisfies the invariant.
LEMMA InitInv == Init => Inv
<1>. SUFFICES ASSUME Init PROVE Inv
  OBVIOUS
<1>0. queue \in Seq(Record) /\ DOMAIN queue = {}
  BY EmptySeq DEF Init
<1>1. TypeOK
  BY <1>0 DEF Init, TypeOK, PcStates
<1>2. \A c \in Calls : ~Acquired(c) /\ ~Released(c)
  BY <1>0 DEF Acquired, Released
<1>3. \A b, c \in Calls : ~Ahead(b, c)
  BY <1>0 DEF Ahead
<1>. QED
  BY <1>1, <1>2, <1>3 DEF Init, Inv, QueueInv, CallerInv, ProbeInv, HolderIsFirst

\* Every step keeps the types.
LEMMA TypeStep == TypeOK /\ [Next]_vars => TypeOK'
<1>. SUFFICES ASSUME TypeOK, [Next]_vars PROVE TypeOK'
  OBVIOUS
<1>. USE RecordTypes DEF TypeOK, PcStates, Goto
<1>0. ASSUME NEW r \in Record, Appended(r) PROVE queue' \in Seq(Record)
  BY <1>0 DEF Appended
<1>1. ASSUME NEW c \in Calls, Queue(c) \/ QueueFails(c) \/ Leave(c) \/ LeaveFails(c) PROVE TypeOK'
  <2>1. queue' \in Seq(Record) /\ torn' \in BOOLEAN
    BY <1>0, <1>1 DEF Queue, QueueFails, Leave, LeaveFails, AppendRecord, AppendFails, Appended
  <2>. QED
    BY <2>1, <1>1 DEF Queue, QueueFails, Leave, LeaveFails
<1>2. ASSUME NEW c \in Calls, ReadQueue(c) PROVE TypeOK'
  <2>1. Blockers(c) \in SUBSET Calls
    BY DEF Blockers
  <2>. QED
    BY <2>1, <1>2 DEF ReadQueue
<1>3. ASSUME NEW c \in Calls, NEW b \in Calls, SkipDead(c, b) PROVE TypeOK'
  BY <1>3 DEF SkipDead
<1>4. ASSUME NEW c \in Calls, Retry(c) \/ TimeOut(c) \/ Enter(c) \/ CallbackEnds(c) PROVE TypeOK'
  BY <1>4 DEF Retry, TimeOut, Enter, CallbackEnds
<1>5. ASSUME NEW p \in Processes, Crash(p) PROVE TypeOK'
  BY <1>5 DEF Crash
<1>6. ASSUME NEW p \in Processes, Recycle(p) \/ ForeignExits(p) PROVE TypeOK'
  BY <1>6, RecyclingAssumption DEF Recycle, ForeignExits, Recycled
<1>7. CASE UNCHANGED vars
  BY <1>7 DEF vars
<1>. QED
  BY <1>1, <1>2, <1>3, <1>4, <1>5, <1>6, <1>7 DEF Next, Step

\* The part of the invariant about the file and the callers is kept by a step
\* that appends at most one record, r, and moves one call from one place to
\* another; life only ever decreases for the others.
LEMMA InvStep == Inv /\ [Next]_vars => Inv'
<1>. SUFFICES ASSUME Inv, [Next]_vars PROVE Inv'
  OBVIOUS
<1>. USE OwnerAssumption, RecordTypes DEF Inv
<1>t. TypeOK'
  BY TypeStep
<1>q. queue \in Seq(Record)
  BY DEF TypeOK
<1>1. ASSUME NEW c \in Calls, Queue(c) \/ QueueFails(c) PROVE Inv'
  <2>1. /\ pc[c] = "idle" /\ pc'[c] \in {"reading", "ended"}
        /\ \A b \in Calls \ {c} : pc'[b] = pc[b]
        /\ UNCHANGED <<life, suspects>>
        /\ Appended(Acquire(c))
        /\ torn => torn'
        /\ Alive(c)
    BY <1>1 DEF Queue, QueueFails, Goto, TypeOK, AppendRecord, AppendFails, Appended
  <2>2. QueueInv'
    <3>1. ~Acquired(c)
      BY <2>1 DEF QueueInv
    <3>2. ASSUME NEW b \in Calls
          PROVE  \A i, j \in DOMAIN queue' : queue'[i] = Acquire(b) /\ queue'[j] = Acquire(b) => i = j
      BY <2>1, <3>1, <1>q, AppendUnique DEF QueueInv
    <3>3. ASSUME NEW b \in Calls, pc'[b] = "idle" PROVE ~Acquired(b)'
      BY <2>1, <3>3, <1>q, AppendFacts DEF QueueInv
    <3>4. ASSUME NEW b \in Calls, Released(b)' PROVE pc'[b] = "ended"
      BY <2>1, <3>4, <1>q, AppendFacts DEF QueueInv
    <3>. QED
      BY <3>2, <3>3, <3>4 DEF QueueInv, Acquire
  <2>3. CallerInv'
    <3>1. pc'[c] = "reading" => torn' \/ Acquired(c)'
      <4>1. CASE Queue(c)
        BY <4>1, <1>q, AppendQueue DEF Queue, AppendRecord, Acquired, Acquire
      <4>2. CASE QueueFails(c)
        BY <4>2 DEF QueueFails, Goto, TypeOK
      <4>. QED
        BY <4>1, <4>2, <1>1
    <3>. QED
      BY <2>1, <3>1, <1>q, AppendFacts DEF CallerInv, Alive
  <2>4. ASSUME NEW a \in Calls, NEW b \in Calls, pc'[b] \in {"probing", "inside"}, Ahead(a, b)'
        PROVE  Ahead(a, b) /\ pc'[b] = pc[b] /\ (Released(a) => Released(a)')
    BY <2>1, <2>4, <1>q, AppendAhead, AppendFacts
  <2>5. ProbeInv' /\ HolderIsFirst'
    BY <2>1, <2>4 DEF ProbeInv, HolderIsFirst, Alive
  <2>. QED
    BY <1>t, <2>2, <2>3, <2>5
<1>2. ASSUME NEW c \in Calls, Leave(c) \/ LeaveFails(c) PROVE Inv'
  <2>1. /\ pc[c] = "leaving" /\ pc'[c] = "ended"
        /\ \A b \in Calls \ {c} : pc'[b] = pc[b]
        /\ UNCHANGED <<life, suspects>>
        /\ Appended(Release(c))
        /\ torn => torn'
    BY <1>2 DEF Leave, LeaveFails, Goto, TypeOK, AppendRecord, AppendFails, Appended
  <2>2. QueueInv'
    <3>1. ASSUME NEW b \in Calls
          PROVE  \A i, j \in DOMAIN queue' : queue'[i] = Acquire(b) /\ queue'[j] = Acquire(b) => i = j
      BY <2>1, <1>q, AppendUnique DEF QueueInv
    <3>2. ASSUME NEW b \in Calls, pc'[b] = "idle" PROVE ~Acquired(b)'
      BY <2>1, <3>2, <1>q, AppendFacts DEF QueueInv
    <3>3. ASSUME NEW b \in Calls, Released(b)' PROVE pc'[b] = "ended"
      BY <2>1, <3>3, <1>q, AppendFacts DEF QueueInv
    <3>. QED
      BY <3>1, <3>2, <3>3 DEF QueueInv, Acquire
  <2>3. CallerInv'
    BY <2>1, <1>q, AppendFacts DEF CallerInv, Alive
  <2>4. ASSUME NEW a \in Calls, NEW b \in Calls, pc'[b] \in {"probing", "inside"}, Ahead(a, b)'
        PROVE  Ahead(a, b) /\ pc'[b] = pc[b] /\ (Released(a) => Released(a)')
    BY <2>1, <2>4, <1>q, AppendAhead, AppendFacts
  <2>5. ProbeInv' /\ HolderIsFirst'
    BY <2>1, <2>4 DEF ProbeInv, HolderIsFirst, Alive
  <2>. QED
    BY <1>t, <2>2, <2>3, <2>5
<1>f. ASSUME UNCHANGED queue
      PROVE  /\ \A b \in Calls : Acquired(b)' = Acquired(b) /\ Released(b)' = Released(b)
             /\ \A a, b \in Calls : Ahead(a, b)' = Ahead(a, b)
  BY <1>f DEF Acquired, Released, Ahead
<1>3. ASSUME NEW c \in Calls, ReadQueue(c) PROVE Inv'
  <2>1. /\ pc[c] = "reading" /\ pc'[c] \in {"probing", "leaving"}
        /\ \A b \in Calls \ {c} : pc'[b] = pc[b] /\ suspects'[b] = suspects[b]
        /\ UNCHANGED <<life, queue, torn>>
        /\ pc'[c] = "probing" => ~torn
    BY <1>3 DEF ReadQueue, Goto, TypeOK
  <2>2. QueueInv'
    BY <2>1, <1>f DEF QueueInv
  <2>3. pc'[c] = "probing" => suspects'[c] = Blockers(c)
    BY <1>3 DEF ReadQueue, Goto, TypeOK
  <2>4. CallerInv'
    <3>1. Alive(c) /\ (pc'[c] = "probing" => Acquired(c))
      BY <2>1 DEF CallerInv
    <3>. QED
      BY <2>1, <3>1, <1>f DEF CallerInv, Alive
  <2>5. ProbeInv'
    BY <2>1, <2>3, <1>f DEF ProbeInv, Blockers, Alive
  <2>6. HolderIsFirst'
    BY <2>1, <1>f DEF HolderIsFirst, Alive
  <2>. QED
    BY <1>t, <2>2, <2>4, <2>5, <2>6
<1>4. ASSUME NEW c \in Calls, NEW b \in Calls, SkipDead(c, b) PROVE Inv'
  <2>1. /\ UNCHANGED <<queue, torn, life, pc>>
        /\ ~Alive(b)
        /\ \A a \in Calls \ {c} : suspects'[a] = suspects[a]
        /\ suspects'[c] = suspects[c] \ {b}
    BY <1>4 DEF SkipDead, DeadVerdicts, Alive, TypeOK, Recycled
  <2>2. QueueInv' /\ CallerInv' /\ HolderIsFirst'
    BY <2>1, <1>f DEF QueueInv, CallerInv, HolderIsFirst, Alive
  <2>3. ProbeInv'
    BY <2>1, <1>f DEF ProbeInv, Alive
  <2>. QED
    BY <1>t, <2>2, <2>3
<1>5. ASSUME NEW c \in Calls, Retry(c) \/ TimeOut(c) \/ CallbackEnds(c) PROVE Inv'
  <2>1. /\ pc[c] \in {"probing", "inside"} /\ pc'[c] \in {"reading", "leaving"}
        /\ \A b \in Calls \ {c} : pc'[b] = pc[b] /\ suspects'[b] = suspects[b]
        /\ UNCHANGED <<life, queue, torn>>
    BY <1>5 DEF Retry, TimeOut, CallbackEnds, Blocked, Goto, TypeOK
  <2>. QED
    BY <1>t, <2>1, <1>f DEF QueueInv, CallerInv, ProbeInv, HolderIsFirst, Alive
<1>6. ASSUME NEW c \in Calls, Enter(c) PROVE Inv'
  <2>1. /\ pc[c] = "probing" /\ pc'[c] = "inside" /\ suspects[c] = {}
        /\ \A b \in Calls \ {c} : pc'[b] = pc[b]
        /\ UNCHANGED <<life, queue, torn, suspects>>
    BY <1>6 DEF Enter, Goto, TypeOK
  <2>2. QueueInv' /\ CallerInv'
    BY <2>1, <1>f DEF QueueInv, CallerInv, Alive
  <2>3. ProbeInv' /\ HolderIsFirst'
    BY <2>1, <1>f DEF ProbeInv, HolderIsFirst, Alive
  <2>. QED
    BY <1>t, <2>2, <2>3
<1>7. ASSUME NEW p \in Processes, Crash(p) PROVE Inv'
  <2>1. /\ UNCHANGED <<queue, torn>>
        /\ \A b \in Calls : IF Owner[b] = p THEN pc'[b] = "ended" /\ ~Alive(b)'
                            ELSE /\ pc'[b] = pc[b] /\ suspects'[b] = suspects[b]
                                 /\ Alive(b)' = Alive(b)
    BY <1>7 DEF Crash, Alive, TypeOK
  <2>. QED
    BY <1>t, <2>1, <1>f DEF QueueInv, CallerInv, ProbeInv, HolderIsFirst
<1>8. ASSUME NEW p \in Processes, Recycle(p) \/ ForeignExits(p) PROVE Inv'
  <2>1. UNCHANGED <<queue, torn, pc, suspects>> /\ \A b \in Calls : Alive(b)' = Alive(b)
    BY <1>8, RecyclingAssumption DEF Recycle, ForeignExits, Recycled, Alive, TypeOK
  <2>. QED
    BY <1>t, <2>1, <1>f DEF QueueInv, CallerInv, ProbeInv, HolderIsFirst
<1>9. CASE UNCHANGED vars
  BY <1>9, <1>t, <1>f DEF vars, QueueInv, CallerInv, ProbeInv, HolderIsFirst, Alive
<1>. QED
  BY <1>1, <1>2, <1>3, <1>4, <1>5, <1>6, <1>7, <1>8, <1>9 DEF Next, Step

-----------------------------------------------------------------------------
\* Every state the lock can reach is well typed: queue records, pid table,
\* and the call positions of withRunDirLock.
THEOREM TypeCorrect == Spec => []TypeOK
<1>1. Init => TypeOK
  BY InitInv DEF Inv
<1>. QED
  BY <1>1, TypeStep, PTL DEF Spec

\* The inductive invariant holds in every reachable state.
LEMMA Invariance == Spec => []Inv
BY InitInv, InvStep, PTL DEF Spec

\* Two live owners inside would stand one ahead of the other in the queue,
\* and the later one was let in past an unreleased live owner.
LEMMA ExclusionFromInv == Inv => MutualExclusion
<1>. SUFFICES ASSUME Inv, NEW b \in Calls, NEW c \in Calls,
                     pc[b] = "inside", pc[c] = "inside", b # c
              PROVE  FALSE
  BY DEF MutualExclusion
<1>1. Acquired(b) /\ Acquired(c) /\ Alive(b) /\ Alive(c)
  BY DEF Inv, CallerInv
<1>2. ~Released(b) /\ ~Released(c)
  BY DEF Inv, QueueInv
<1>3. PICK i \in DOMAIN queue, j \in DOMAIN queue : queue[i] = Acquire(b) /\ queue[j] = Acquire(c)
  BY <1>1 DEF Acquired
<1>4. i \in Int /\ j \in Int /\ i # j
  BY <1>3, RecordTypes DEF Inv, TypeOK
<1>5. Ahead(b, c) \/ Ahead(c, b)
  BY <1>3, <1>4 DEF Ahead
<1>. QED
  BY <1>1, <1>2, <1>5 DEF Inv, HolderIsFirst

\* At most one caller of withRunDirLock runs its callback, for any number of
\* processes and calls, any crashes, recycled pids, deadlines and write faults.
THEOREM MutualExclusionHolds == Spec => []MutualExclusion
BY Invariance, ExclusionFromInv, PTL

\* Whoever is inside has been preceded only by owners that released or died,
\* although the decision was made on an image of the queue read earlier.
THEOREM HolderIsFirstHolds == Spec => []HolderIsFirst
<1>1. Inv => HolderIsFirst
  BY DEF Inv
<1>. QED
  BY <1>1, Invariance, PTL

-----------------------------------------------------------------------------
(* The implementation of FifoLock. *)

\* The position of a call is where its one ACQUIRE record stands.
LEMMA PositionFacts ==
    ASSUME Inv, NEW c \in Calls
    PROVE  /\ Position(c) \in Nat
           /\ Position(c) = 0 <=> ~Acquired(c)
           /\ Acquired(c) => Position(c) \in DOMAIN queue /\ queue[Position(c)] = Acquire(c)
           /\ \A i \in DOMAIN queue : queue[i] = Acquire(c) => Position(c) = i
<1>1. DOMAIN queue = 1..Len(queue) /\ Len(queue) \in Nat
  BY DEF Inv, TypeOK
<1>2. CASE Acquired(c)
  <2>1. PICK i \in DOMAIN queue : queue[i] = Acquire(c)
    BY <1>2 DEF Acquired
  <2>2. Position(c) = i
    BY <1>2, <2>1 DEF Position, Inv, QueueInv
  <2>. QED
    BY <1>1, <1>2, <2>1, <2>2 DEF Inv, QueueInv
<1>3. CASE ~Acquired(c)
  BY <1>3 DEF Position, Acquired
<1>. QED
  BY <1>2, <1>3

\* A smaller ticket is a place further ahead in the file.
LEMMA TicketsOrder ==
    ASSUME Inv, NEW b \in Calls, NEW c \in Calls, 0 < Position(b), Position(b) < Position(c)
    PROVE  Ahead(b, c)
<1>1. Acquired(b) /\ Acquired(c)
  BY PositionFacts
<1>. QED
  BY <1>1, PositionFacts DEF Ahead

HolderIsInside ==
    /\ \A c \in Calls : pc[c] = "inside" => Holder = c
    /\ (Holder = Nobody) <=> (\A c \in Calls : pc[c] # "inside")
    /\ Holder # Nobody => Holder \in Calls /\ pc[Holder] = "inside"

\* Inside a callback, the holder of the line is that call.
LEMMA HolderFacts == Inv => HolderIsInside
<1>. SUFFICES ASSUME Inv PROVE HolderIsInside
  OBVIOUS
<1>. USE DEF HolderIsInside
<1>1. CASE \E c \in Calls : pc[c] = "inside"
  <2>1. PICK c \in Calls : pc[c] = "inside"
    BY <1>1
  <2>2. Holder = c
    BY <2>1, ExclusionFromInv DEF Holder, MutualExclusion
  <2>. QED
    BY <2>1, <2>2, NobodyIsNoCall, ExclusionFromInv DEF MutualExclusion
<1>2. CASE \A c \in Calls : pc[c] # "inside"
  <2>1. ~ \E c \in Calls : pc[c] = "inside"
    BY <1>2
  <2>2. Holder = Nobody
    BY <2>1 DEF Holder
  <2>. QED
    BY <1>2, <2>2
<1>. QED
  BY <1>1, <1>2

\* The same two facts about the state after a step.
LEMMA NextFacts == Inv' => MutualExclusion' /\ HolderIsInside'
BY HolderFacts, ExclusionFromInv, PTL

\* The positions of recorded calls never move.
LEMMA PositionsStay ==
    ASSUME Inv, Inv', NEW r \in Record, Appended(r), NEW c \in Calls, r # Acquire(c)
    PROVE  Position(c)' = Position(c)
<1>0. queue \in Seq(Record)
  BY DEF Inv, TypeOK
<1>1. CASE Acquired(c)
  <2>1. PICK i \in DOMAIN queue : queue[i] = Acquire(c)
    BY <1>1 DEF Acquired
  <2>2. i \in DOMAIN queue' /\ queue'[i] = Acquire(c)
    BY <2>1, <1>0, AppendQueue DEF Appended
  <2>3. Acquired(c)'
    BY <2>2 DEF Acquired, Acquire
  <2>4. Position(c)' = i
    BY <2>2, <2>3 DEF Position, Inv, QueueInv, Acquire
  <2>. QED
    BY <2>1, <2>4, PositionFacts
<1>2. CASE ~Acquired(c)
  <2>1. ~Acquired(c)'
    BY <1>0, <1>2, AppendFacts
  <2>. QED
    BY <1>2, <2>1 DEF Position
<1>. QED
  BY <1>1, <1>2

Tickets == [c \in Calls |-> Position(c)]

\* A step that touches neither file, pid table nor the callback is a stutter.
LEMMA LineUnchanged ==
    ASSUME Inv, Inv', UNCHANGED <<queue, life>>,
           \A c \in Calls : pc[c] = "inside" <=> pc'[c] = "inside"
    PROVE  UNCHANGED Line!lockVars
<1>1. Tickets' = Tickets
  BY DEF Tickets, Position, Acquired
<1>2. Gone' = Gone
  BY DEF Gone, Released, Alive
<1>3. Holder' = Holder
  BY HolderFacts, NextFacts DEF HolderIsInside
<1>. QED
  BY <1>1, <1>2, <1>3 DEF Line!lockVars, Tickets

\* Recording an ACQUIRE is an arrival with the largest ticket so far.
LEMMA RecordedIsArrival ==
    ASSUME Inv, Inv', NEW c \in Calls, queue' = Append(queue, Acquire(c)), ~Acquired(c),
           UNCHANGED life, \A b \in Calls : pc[b] = "inside" <=> pc'[b] = "inside"
    PROVE  Line!Arrive(c)
<1>0. queue \in Seq(Record) /\ Appended(Acquire(c))
  BY DEF Inv, TypeOK, Appended
<1>1. \A b \in Calls \ {c} : Position(b)' = Position(b)
  BY <1>0, PositionsStay, RecordTypes
<1>2. Position(c) = 0 /\ Position(c)' = Len(queue) + 1
  <2>1. queue'[Len(queue) + 1] = Acquire(c) /\ Len(queue) + 1 \in DOMAIN queue'
    BY <1>0, AppendQueue, RecordTypes
  <2>2. Position(c)' = Len(queue) + 1
    BY <2>1 DEF Position, Acquired, Inv, QueueInv, Acquire
  <2>. QED
    BY <2>2, PositionFacts
<1>3. \A b \in Calls : Position(b) \in Nat /\ Position(b) < Len(queue) + 1
  BY <1>0, PositionFacts
<1>4. Gone' = Gone
  <2>1. \A b \in Calls : Released(b)' <=> Released(b)
    BY <1>0, AppendFacts, RecordTypes
  <2>. QED
    BY <2>1 DEF Gone, Alive
<1>5. Holder' = Holder
  BY HolderFacts, NextFacts DEF HolderIsInside
<1>6. Len(queue) \in Nat
  BY <1>0
<1>7. Tickets' = [Tickets EXCEPT ![c] = Tickets'[c]]
  <2>1. Tickets = [b \in Calls |-> Position(b)] /\ Tickets' = [b \in Calls |-> Position(b)']
    BY DEF Tickets
  <2>2. \A b \in Calls : Position(b)' = IF b = c THEN Tickets'[c] ELSE Position(b)
    BY <1>1, <2>1
  <2>. QED
    BY <2>1, <2>2
<1>8. /\ Tickets[c] = 0
      /\ Tickets'[c] \in Nat
      /\ \A b \in Calls : Tickets[b] < Tickets'[c]
  BY <1>2, <1>3, <1>6 DEF Tickets
<1>. QED
  BY <1>4, <1>5, <1>7, <1>8 DEF Line!Arrive, Tickets

\* Recording a RELEASE, or a death, only adds calls that stand in nobody's way.
LEMMA GoneIsLeave ==
    ASSUME Inv, Inv', NEW S \in SUBSET Calls, Gone' = Gone \cup S, Tickets' = Tickets,
           \A c \in Calls : pc'[c] = "inside" <=> pc[c] = "inside" /\ c \notin S
    PROVE  Line!Leave
<1>1. Holder' = IF Holder \in S THEN Nobody ELSE Holder
  BY HolderFacts, NextFacts, NobodyIsNoCall DEF HolderIsInside
<1>. QED
  BY <1>1 DEF Line!Leave, Tickets

\* The empty queue is the empty line.
LEMMA RefinementInit == Init => Line!Init
<1>. SUFFICES ASSUME Init PROVE Line!Init
  OBVIOUS
<1>1. DOMAIN queue = {}
  BY EmptySeq DEF Init
<1>2. \A c \in Calls : ~Acquired(c) /\ ~Released(c) /\ pc[c] # "inside"
  BY <1>1 DEF Init, Acquired, Released
<1>3. \A c \in Calls : Alive(c)
  BY OwnerAssumption DEF Init, Alive
<1>. QED
  BY <1>2, <1>3 DEF Line!Init, Position, Gone, Holder

\* Every step of the lock is a step of the numbered line, or changes nothing
\* the line can see.
LEMMA RefinementStep == Inv /\ Inv' /\ [Next]_vars => [Line!Next]_(Line!lockVars)
<1>. SUFFICES ASSUME Inv, Inv', [Next]_vars PROVE [Line!Next]_(Line!lockVars)
  OBVIOUS
<1>. USE OwnerAssumption, RecordTypes
<1>t. TypeOK /\ queue \in Seq(Record)
  BY DEF Inv, TypeOK
<1>1. ASSUME NEW c \in Calls, Queue(c) \/ QueueFails(c) PROVE [Line!Next]_(Line!lockVars)
  <2>1. /\ ~Acquired(c)
        /\ UNCHANGED life
        /\ \A b \in Calls : pc[b] = "inside" <=> pc'[b] = "inside"
        /\ queue' = queue \/ queue' = Append(queue, Acquire(c))
    BY <1>1, <1>t DEF Queue, QueueFails, Goto, TypeOK, AppendRecord, AppendFails, Inv, QueueInv
  <2>2. CASE queue' = queue
    BY <2>1, <2>2, LineUnchanged
  <2>3. CASE queue' = Append(queue, Acquire(c))
    BY <2>1, <2>3, RecordedIsArrival DEF Line!Next
  <2>. QED
    BY <2>1, <2>2, <2>3
<1>2. ASSUME NEW c \in Calls, Leave(c) \/ LeaveFails(c) PROVE [Line!Next]_(Line!lockVars)
  <2>1. /\ UNCHANGED life
        /\ pc[c] # "inside"
        /\ \A b \in Calls : pc[b] = "inside" <=> pc'[b] = "inside"
        /\ queue' = queue \/ queue' = Append(queue, Release(c))
    BY <1>2, <1>t DEF Leave, LeaveFails, Goto, TypeOK, AppendRecord, AppendFails
  <2>2. CASE queue' = queue
    BY <2>1, <2>2, LineUnchanged
  <2>3. CASE queue' = Append(queue, Release(c))
    <3>1. Appended(Release(c)) /\ Released(c)'
      BY <2>3, <1>t, AppendQueue DEF Appended, Released, Release
    <3>2. Gone' = Gone \cup {c}
      BY <3>1, <2>1, <1>t, AppendFacts DEF Gone, Alive
    <3>3. Tickets' = Tickets
      BY <3>1, PositionsStay DEF Tickets
    <3>. DEFINE S == {c}
    <3>4. \A b \in Calls : pc'[b] = "inside" <=> pc[b] = "inside" /\ b \notin S
      BY <2>1
    <3>5. Line!Leave
      <4>1. S \in SUBSET Calls /\ Gone' = Gone \cup S
        BY <3>2
      <4>. HIDE DEF S
      <4>. QED
        BY <3>3, <3>4, <4>1, GoneIsLeave
    <3>. QED
      BY <3>5 DEF Line!Next
  <2>. QED
    BY <2>1, <2>2, <2>3
<1>3. ASSUME NEW c \in Calls, ReadQueue(c) \/ Retry(c) \/ TimeOut(c) PROVE [Line!Next]_(Line!lockVars)
  <2>1. /\ UNCHANGED <<queue, life>>
        /\ \A b \in Calls : pc[b] = "inside" <=> pc'[b] = "inside"
    <3>1. CASE ReadQueue(c)
      BY <3>1, <1>t DEF ReadQueue, Goto, TypeOK
    <3>2. CASE Retry(c) \/ TimeOut(c)
      <4>1. pc[c] = "probing"
        BY <3>2 DEF Retry, TimeOut, Blocked
      <4>. QED
        BY <3>2, <4>1, <1>t DEF Retry, TimeOut, Goto, TypeOK
    <3>. QED
      BY <1>3, <3>1, <3>2
  <2>. QED
    BY <2>1, LineUnchanged
<1>4. ASSUME NEW c \in Calls, NEW b \in Calls, SkipDead(c, b) PROVE [Line!Next]_(Line!lockVars)
  BY <1>4, LineUnchanged DEF SkipDead
<1>5. ASSUME NEW c \in Calls, Enter(c) PROVE [Line!Next]_(Line!lockVars)
  <2>1. /\ UNCHANGED <<queue, life>>
        /\ pc[c] = "probing" /\ pc'[c] = "inside"
        /\ \A b \in Calls \ {c} : pc'[b] = pc[b]
    BY <1>5, <1>t DEF Enter, Goto, TypeOK
  <2>2. Holder = Nobody
    <3>1. \A b \in Calls : pc[b] # "inside"
      BY <2>1, NextFacts DEF MutualExclusion
    <3>. QED
      BY <3>1, HolderFacts DEF HolderIsInside
  <2>3. Holder' = c
    BY <2>1, NextFacts DEF HolderIsInside
  <2>4. Acquired(c) /\ ~Released(c) /\ Alive(c)
    BY <2>1 DEF Inv, CallerInv, QueueInv
  <2>5. 0 < Position(c) /\ c \notin Gone
    BY <2>4, PositionFacts DEF Gone
  <2>6. \A b \in Calls : 0 < Position(b) /\ Position(b) < Position(c) => b \in Gone
    <3>. SUFFICES ASSUME NEW b \in Calls, 0 < Position(b), Position(b) < Position(c) PROVE b \in Gone
      OBVIOUS
    <3>1. Ahead(b, c)
      BY TicketsOrder
    <3>2. Ahead(b, c)'
      BY <3>1, <2>1 DEF Ahead
    <3>3. Released(b)' \/ ~Alive(b)'
      BY <3>2, <2>1 DEF Inv, HolderIsFirst
    <3>. QED
      BY <3>3, <2>1 DEF Gone, Released, Alive
  <2>7. Tickets' = Tickets /\ Gone' = Gone
    BY <2>1 DEF Tickets, Position, Acquired, Gone, Released, Alive
  <2>. QED
    BY <2>2, <2>3, <2>5, <2>6, <2>7 DEF Line!Next, Line!Grant, Line!FirstInLine, Tickets
<1>6. ASSUME NEW c \in Calls, CallbackEnds(c) PROVE [Line!Next]_(Line!lockVars)
  <2>1. /\ UNCHANGED <<queue, life>>
        /\ pc[c] = "inside" /\ pc'[c] = "leaving"
        /\ \A b \in Calls \ {c} : pc'[b] = pc[b]
    BY <1>6, <1>t DEF CallbackEnds, Goto, TypeOK
  <2>2. Holder = c /\ Holder' = Nobody
    <3>1. \A b \in Calls : pc'[b] # "inside"
      BY <2>1, ExclusionFromInv DEF MutualExclusion
    <3>. QED
      BY <2>1, <3>1, HolderFacts, NextFacts DEF HolderIsInside
  <2>3. Tickets' = Tickets /\ Gone' = Gone
    BY <2>1 DEF Tickets, Position, Acquired, Gone, Released, Alive
  <2>. QED
    BY <2>2, <2>3, NobodyIsNoCall DEF Line!Next, Line!Finish, Tickets
<1>7. ASSUME NEW p \in Processes, Crash(p) PROVE [Line!Next]_(Line!lockVars)
  <2>1. /\ UNCHANGED queue
        /\ \A b \in Calls : IF Owner[b] = p THEN pc'[b] = "ended" /\ ~Alive(b)'
                            ELSE pc'[b] = pc[b] /\ Alive(b)' = Alive(b)
    BY <1>7, <1>t DEF Crash, Alive, TypeOK
  <2>. DEFINE S == {c \in Calls : Owner[c] = p}
  <2>2. Gone' = Gone \cup S
    BY <2>1, <1>7 DEF Gone, Released, Crash, Alive
  <2>3. Tickets' = Tickets
    BY <2>1 DEF Tickets, Position, Acquired
  <2>4. \A c \in Calls : pc'[c] = "inside" <=> pc[c] = "inside" /\ c \notin S
    BY <2>1
  <2>5. S \in SUBSET Calls
    OBVIOUS
  <2>6. Line!Leave
    <3>. HIDE DEF S
    <3>. QED
      BY <2>2, <2>3, <2>4, <2>5, GoneIsLeave
  <2>. QED
    BY <2>6 DEF Line!Next
<1>8. ASSUME NEW p \in Processes, Recycle(p) \/ ForeignExits(p) PROVE [Line!Next]_(Line!lockVars)
  <2>1. UNCHANGED <<queue, pc>> /\ \A b \in Calls : Alive(b)' = Alive(b)
    BY <1>8, <1>t, RecyclingAssumption DEF Recycle, ForeignExits, Recycled, Alive, TypeOK
  <2>2. Tickets' = Tickets /\ Gone' = Gone /\ Holder' = Holder
    BY <2>1 DEF Tickets, Position, Acquired, Gone, Released, Holder
  <2>. QED
    BY <2>2 DEF Line!lockVars, Tickets
<1>9. CASE UNCHANGED vars
  BY <1>9, LineUnchanged DEF vars
<1>. QED
  BY <1>1, <1>2, <1>3, <1>4, <1>5, <1>6, <1>7, <1>8, <1>9 DEF Next, Step

\* withRunDirLock is a first-come-first-served lock: the queue file, the image
\* each caller reads and the liveness probes together behave as FifoLock.
THEOREM Refinement == Spec => ImplementsFifoLock
BY Invariance, RefinementInit, RefinementStep, PTL DEF Spec, ImplementsFifoLock, Line!Spec
=============================================================================
