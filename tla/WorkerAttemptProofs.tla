------------------------- MODULE WorkerAttemptProofs -------------------------
(***************************************************************************)
(* Theorems about WorkerAttempt for any processes, invocations, ports and  *)
(* writes, whatever the processes do and whatever step fails.              *)
(***************************************************************************)
EXTENDS WorkerAttempt, TLAPS

Process == [inv : Invs \cup {NoInv}, parent : Pids \cup {NoPid},
            grouped : BOOLEAN, marked : BOOLEAN, seen : BOOLEAN]

SupervisorState ==
    [inv : Invs \cup {NoInv}, root : Pids \cup {NoPid}, tracked : SUBSET Pids, blind : BOOLEAN,
     round : Rounds \cup {"off", "watching", "done"}, half : {"rows", "marks"}, seen : SUBSET Pids,
     verdict : {"none", "verified", "unverified"}]

ProcTypes == proc \in [Pids -> Process] /\ sup \in SupervisorState

\* The controller has not spawned anything for the invocation yet.
Early == {"broker", "boundary", "register", "config"}

\* What a step may do to a live process, and where a process may come from.
Raises == sup.round = "watching" \/ (sup.round \in Rounds /\ sup.half = "rows")

Stays(p) == /\ proc[p].inv # NoInv
            /\ proc'[p].inv = proc[p].inv
            /\ proc'[p].grouped => proc[p].grouped
            /\ proc'[p].marked => proc[p].marked
            /\ proc'[p].seen => proc[p].seen \/ (Raises /\ p \in sup'.tracked)

Copies(p) == /\ ~proc'[p].seen
             /\ \E q \in Pids : /\ proc[q].inv # NoInv
                                /\ proc'[p].inv = proc[q].inv
                                /\ proc'[p].grouped => proc[q].grouped
                                /\ proc'[p].marked => proc[q].marked

Starts(p) == /\ pc = "config"
             /\ proc'[p].inv = sup.inv
             /\ ~proc'[p].seen
             /\ sup'.round = "watching"

Evolve == \A p \in Pids : proc'[p].inv # NoInv => Stays(p) \/ Copies(p) \/ Starts(p)

\* What a step may do to the supervisor of the attempt in progress.
FindsNobody ==
    /\ UNCHANGED proc
    /\ \/ sup.round = "off"
       \/ sup.round = "final" /\ sup.half = "marks" /\ sup.seen = {} /\ FromMarkers = {}

FindsNoRow ==
    /\ FromRows = {}
    /\ sup'.tracked = Watched
    /\ Saw(Watched)

Advances ==
    /\ sup'.inv = sup.inv
    /\ sup.tracked \subseteq sup'.tracked
    /\ sup'.round = "off" => sup' = sup
    /\ sup'.verdict # "none" => sup'.round = "done"
    /\ sup.round = "done" => sup' = sup
    /\ sup.round = "off" => sup' = sup \/ pc' \notin Early
    /\ sup'.verdict = "verified" => sup' = sup \/ FindsNobody
    /\ sup'.round = "final" /\ sup'.half = "marks" /\ sup'.seen = {} => sup' = sup \/ FindsNoRow
-----------------------------------------------------------------------------
\* Processes and records of the supervisor.

LEMMA FreeType == Free \in Process /\ Free.inv = NoInv
BY DEF Free, Process

LEMMA IdleType == \A i \in Invs \cup {NoInv} : Idle(i) \in SupervisorState
BY DEF Idle, SupervisorState

LEMMA WatchedPids == ProcTypes => Watched \subseteq Pids
BY DEF ProcTypes, SupervisorState, Watched, Descendants

LEMMA RowPids == ProcTypes => FromRows \subseteq Pids
BY DEF FromRows, Members

LEMMA MarkerPids == FromMarkers \subseteq Pids
BY DEF FromMarkers, Members

\* Those who are gone leave the others as they were, but for their parents.
LEMMA GoneKeeps ==
    ProcTypes => \A S \in SUBSET Pids :
        proc' = Gone(S) => proc' \in [Pids -> Process] /\ \A p \in Pids : proc'[p].inv # NoInv => Stays(p)
<1>. SUFFICES ASSUME ProcTypes, NEW S \in SUBSET Pids, proc' = Gone(S)
              PROVE  proc' \in [Pids -> Process] /\ \A p \in Pids : proc'[p].inv # NoInv => Stays(p)
  OBVIOUS
<1>1. ASSUME NEW p \in Pids
      PROVE  proc'[p] \in Process /\ (proc'[p].inv # NoInv => Stays(p))
  <2>0. proc[p] \in Process
    BY DEF ProcTypes
  <2>1. CASE p \in S
    BY <2>1, FreeType DEF Gone
  <2>2. CASE p \notin S /\ proc[p].parent \in S
    BY <2>0, <2>2 DEF Gone, Process, Stays
  <2>3. CASE p \notin S /\ proc[p].parent \notin S
    BY <2>0, <2>3 DEF Gone, Stays
  <2>. QED
    BY <2>1, <2>2, <2>3
<1>2. proc' = [p \in Pids |-> proc'[p]]
  BY DEF Gone
<1>. QED
  BY <1>1, <1>2

\* The supervisor marks what it saw, and changes nothing else.
LEMMA SawKeeps ==
    ProcTypes => (Saw(Watched) /\ Raises /\ sup'.tracked = Watched =>
        proc' \in [Pids -> Process] /\ \A p \in Pids : proc'[p].inv # NoInv => Stays(p))
<1>. SUFFICES ASSUME ProcTypes, Saw(Watched), Raises, sup'.tracked = Watched
              PROVE  proc' \in [Pids -> Process] /\ \A p \in Pids : proc'[p].inv # NoInv => Stays(p)
  OBVIOUS
<1>1. ASSUME NEW p \in Pids
      PROVE  proc'[p] \in Process /\ (proc'[p].inv # NoInv => Stays(p))
  <2>0. proc[p] \in Process
    BY DEF ProcTypes
  <2>1. CASE Live(p) /\ p \in Watched
    BY <2>0, <2>1 DEF Saw, Process, Stays, Live
  <2>2. CASE ~(Live(p) /\ p \in Watched)
    BY <2>0, <2>2 DEF Saw, Process, Stays, Live
  <2>. QED
    BY <2>1, <2>2
<1>2. proc' = [p \in Pids |-> proc'[p]]
  BY DEF Saw
<1>. QED
  BY <1>1, <1>2
-----------------------------------------------------------------------------
\* Steps of processes.

LEMMA ForkKeeps ==
    ProcTypes => \A p, c \in Pids : Fork(p, c) => ProcTypes' /\ Evolve
<1>. SUFFICES ASSUME ProcTypes, NEW p \in Pids, NEW c \in Pids, Fork(p, c)
              PROVE  ProcTypes' /\ Evolve
  OBVIOUS
<1>. DEFINE child == [proc[p] EXCEPT !.parent = p, !.seen = FALSE]
<1>0. proc[p] \in Process /\ proc[p].inv # NoInv
  BY DEF ProcTypes, Fork, Live
<1>1. child \in Process /\ child.inv = proc[p].inv /\ ~child.seen
      /\ child.grouped = proc[p].grouped /\ child.marked = proc[p].marked
  BY <1>0 DEF Process
<1>2. proc' = [proc EXCEPT ![c] = child] /\ sup' = sup
  BY DEF Fork
<1>. HIDE DEF child
<1>3. ASSUME NEW q \in Pids, proc'[q].inv # NoInv
      PROVE  Stays(q) \/ Copies(q)
  <2>1. CASE q = c
    BY <1>0, <1>1, <1>2, <2>1 DEF ProcTypes, Copies
  <2>2. CASE q # c
    BY <1>2, <1>3, <2>2 DEF ProcTypes, Stays
  <2>. QED
    BY <2>1, <2>2
<1>. QED
  BY <1>1, <1>2, <1>3 DEF ProcTypes, Evolve

LEMMA LossKeeps ==
    ProcTypes => \A p \in Pids : LeaveGroup(p) \/ DropMarker(p) => ProcTypes' /\ Evolve
<1>. SUFFICES ASSUME ProcTypes, NEW p \in Pids, LeaveGroup(p) \/ DropMarker(p)
              PROVE  ProcTypes' /\ Evolve
  OBVIOUS
<1>0. proc[p] \in Process /\ sup' = sup
  BY DEF ProcTypes, LeaveGroup, DropMarker
<1>1. PICK r \in Process : proc' = [proc EXCEPT ![p] = r] /\ r.inv = proc[p].inv /\ r.seen = proc[p].seen
                            /\ (r.grouped => proc[p].grouped) /\ (r.marked => proc[p].marked)
  <2>1. CASE LeaveGroup(p)
    <3>. DEFINE r == [proc[p] EXCEPT !.grouped = FALSE]
    <3>1. r \in Process /\ r.inv = proc[p].inv /\ r.seen = proc[p].seen /\ ~r.grouped /\ r.marked = proc[p].marked
      BY <1>0 DEF Process
    <3>2. proc' = [proc EXCEPT ![p] = r]
      BY <2>1 DEF LeaveGroup
    <3>. QED
      BY <3>1, <3>2
  <2>2. CASE DropMarker(p)
    <3>. DEFINE r == [proc[p] EXCEPT !.marked = FALSE]
    <3>1. r \in Process /\ r.inv = proc[p].inv /\ r.seen = proc[p].seen /\ ~r.marked /\ r.grouped = proc[p].grouped
      BY <1>0 DEF Process
    <3>2. proc' = [proc EXCEPT ![p] = r]
      BY <2>2 DEF DropMarker
    <3>. QED
      BY <3>1, <3>2
  <2>. QED
    BY <2>1, <2>2
<1>. QED
  BY <1>0, <1>1 DEF ProcTypes, Evolve, Stays

LEMMA ExitKeeps ==
    ProcTypes => \A p \in Pids : Exit(p) => ProcTypes' /\ Evolve
BY GoneKeeps DEF Exit, ProcTypes, Evolve

LEMMA TermKeeps ==
    ProcTypes => \A S \in SUBSET Pids :
        Term(S) => proc' \in [Pids -> Process] /\ \A p \in Pids : proc'[p].inv # NoInv => Stays(p)
BY GoneKeeps DEF Term

LEMMA SameProc == UNCHANGED proc => Evolve
BY DEF Evolve, Stays

LEMMA SameSup == ProcTypes /\ UNCHANGED sup /\ (sup.verdict # "none" => sup.round = "done") => Advances
BY DEF Advances, ProcTypes, SupervisorState

\* The spawn.
LEMMA BeginKeeps ==
    ProcTypes => \A p \in Pids :
        Begin(p) /\ pc = "config" /\ sup.round = "off" /\ sup.verdict = "none" /\ pc' \notin Early =>
            ProcTypes' /\ Evolve /\ Advances
<1>. SUFFICES ASSUME ProcTypes, NEW p \in Pids, Begin(p), pc = "config", sup.round = "off",
                     sup.verdict = "none", pc' \notin Early
              PROVE  ProcTypes' /\ Evolve /\ Advances
  OBVIOUS
<1>. DEFINE root == [inv |-> sup.inv, parent |-> NoPid, grouped |-> TRUE, marked |-> TRUE, seen |-> FALSE]
            next == [sup EXCEPT !.root = p, !.round = "watching"]
<1>1. root \in Process /\ root.inv = sup.inv /\ ~root.seen
  BY DEF ProcTypes, SupervisorState, Process
<1>2. next \in SupervisorState /\ next.inv = sup.inv /\ next.tracked = sup.tracked /\ next.round = "watching"
      /\ next.verdict = "none"
  BY DEF ProcTypes, SupervisorState
<1>3. proc' = [proc EXCEPT ![p] = root] /\ sup' = next
  BY DEF Begin
<1>. HIDE DEF root, next
<1>4. Evolve
  <2>. SUFFICES ASSUME NEW q \in Pids, proc'[q].inv # NoInv PROVE Stays(q) \/ Starts(q)
    BY DEF Evolve
  <2>1. CASE q = p
    BY <1>1, <1>2, <1>3, <2>1 DEF ProcTypes, Starts
  <2>2. CASE q # p
    BY <1>3, <2>2 DEF ProcTypes, Stays
  <2>. QED
    BY <2>1, <2>2
<1>. QED
  BY <1>1, <1>2, <1>3, <1>4 DEF ProcTypes, Advances
-----------------------------------------------------------------------------
\* Steps of the supervisor.  Each replaces some fields of its record.

Done == sup.verdict # "none" => sup.round = "done"

Keeps == ProcTypes' /\ Evolve /\ Advances

LEMMA PollKeeps == ProcTypes /\ Done /\ Poll => Keeps
<1>. SUFFICES ASSUME ProcTypes, Done, Poll PROVE Keeps
  OBVIOUS
<1>0. sup.verdict = "none" /\ Raises
  BY DEF Done, Poll, ProcTypes, SupervisorState, Raises
<1>1. CASE sup' = [sup EXCEPT !.tracked = Watched] /\ Saw(Watched)
  <2>. DEFINE next == [sup EXCEPT !.tracked = Watched]
  <2>1. next \in SupervisorState /\ next.tracked = Watched /\ next.inv = sup.inv /\ next.round = "watching"
        /\ next.verdict = "none"
    BY <1>0, WatchedPids DEF ProcTypes, SupervisorState, Poll
  <2>2. sup' = next
    BY <1>1
  <2>. HIDE DEF next
  <2>3. sup.tracked \subseteq Watched
    BY DEF Watched
  <2>4. proc' \in [Pids -> Process] /\ Evolve
    BY <1>0, <1>1, <2>1, <2>2, SawKeeps DEF Evolve
  <2>. QED
    BY <2>1, <2>2, <2>3, <2>4 DEF Keeps, ProcTypes, Advances, Poll
<1>2. CASE sup' = [sup EXCEPT !.blind = TRUE] /\ UNCHANGED proc
  <2>. DEFINE next == [sup EXCEPT !.blind = TRUE]
  <2>1. next \in SupervisorState /\ next.tracked = sup.tracked /\ next.inv = sup.inv /\ next.round = "watching"
        /\ next.verdict = "none"
    BY <1>0 DEF ProcTypes, SupervisorState, Poll
  <2>2. sup' = next
    BY <1>2
  <2>. HIDE DEF next
  <2>. QED
    BY <1>2, <2>1, <2>2, SameProc DEF Keeps, ProcTypes, Advances, Poll
<1>. QED
  BY <1>1, <1>2 DEF Poll

LEMMA RowsKeep == ProcTypes /\ Done /\ ReadRows => Keeps
<1>. SUFFICES ASSUME ProcTypes, Done, ReadRows PROVE Keeps
  OBVIOUS
<1>. DEFINE next == [sup EXCEPT !.tracked = Watched, !.seen = FromRows, !.half = "marks"]
<1>0. sup.verdict = "none" /\ Raises /\ sup.round \in Rounds /\ sup.round # "off" /\ sup.round # "done"
  BY DEF Done, ReadRows, ProcTypes, SupervisorState, Raises, Rounds
<1>1. next \in SupervisorState /\ next.tracked = Watched /\ next.inv = sup.inv /\ next.round = sup.round
      /\ next.verdict = "none" /\ next.seen = FromRows
  BY <1>0, WatchedPids, RowPids DEF ProcTypes, SupervisorState
<1>2. sup' = next /\ Saw(Watched)
  BY DEF ReadRows
<1>. HIDE DEF next
<1>3. sup.tracked \subseteq Watched
  BY DEF Watched
<1>4. proc' \in [Pids -> Process] /\ Evolve
  BY <1>0, <1>1, <1>2, SawKeeps DEF Evolve
<1>. QED
  BY <1>0, <1>1, <1>2, <1>3, <1>4 DEF Keeps, ProcTypes, Advances, FindsNoRow

\* Entering a round, with what was tracked and perhaps more.
LEMMA EnterKeeps ==
    ProcTypes /\ Done => \A round \in Rounds, T \in SUBSET Pids :
        Enter(round, T) /\ sup.tracked \subseteq T /\ sup.round \in Rounds => sup' \in SupervisorState /\ Advances
<1>. SUFFICES ASSUME ProcTypes, Done, NEW round \in Rounds, NEW T \in SUBSET Pids,
                     Enter(round, T), sup.tracked \subseteq T, sup.round \in Rounds
              PROVE  sup' \in SupervisorState /\ Advances
  OBVIOUS
<1>. DEFINE next == [sup EXCEPT !.round = round, !.half = "rows", !.seen = {}, !.tracked = T]
<1>0. sup.verdict = "none" /\ sup.round # "off" /\ sup.round # "done" /\ round # "off"
  BY DEF Done, ProcTypes, SupervisorState, Rounds
<1>1. next \in SupervisorState /\ next.tracked = T /\ next.inv = sup.inv /\ next.round = round
      /\ next.verdict = "none" /\ next.half = "rows"
  BY <1>0 DEF ProcTypes, SupervisorState
<1>2. sup' = next
  BY DEF Enter
<1>. HIDE DEF next
<1>. QED
  BY <1>0, <1>1, <1>2 DEF Advances

LEMMA FirstKeeps == ProcTypes /\ Done /\ ReadMarkersFirst => Keeps
<1>. SUFFICES ASSUME ProcTypes, Done, ReadMarkersFirst PROVE Keeps
  OBVIOUS
<1>. DEFINE T == sup.tracked \cup (FromMarkers \ {sup.root})
<1>1. T \in SUBSET Pids /\ sup.tracked \subseteq T /\ Survivors \in SUBSET Pids
  BY MarkerPids DEF ProcTypes, SupervisorState, Survivors
<1>2. \/ Enter("final", T) /\ UNCHANGED proc
      \/ Enter("afterTerm", T) /\ Term(Survivors)
  BY DEF ReadMarkersFirst
<1>. HIDE DEF T
<1>3. sup' \in SupervisorState /\ Advances
  BY <1>1, <1>2, EnterKeeps DEF ReadMarkersFirst, Rounds
<1>4. proc' \in [Pids -> Process] /\ Evolve
  BY <1>1, <1>2, TermKeeps, SameProc DEF ProcTypes, Evolve
<1>. QED
  BY <1>3, <1>4 DEF Keeps, ProcTypes

LEMMA AgainKeeps == ProcTypes /\ Done /\ (ReadMarkersAgain \/ GraceEnds) => Keeps
<1>. SUFFICES ASSUME ProcTypes, Done, ReadMarkersAgain \/ GraceEnds PROVE Keeps
  OBVIOUS
<1>1. sup.tracked \in SUBSET Pids /\ Survivors \in SUBSET Pids
  BY MarkerPids DEF ProcTypes, SupervisorState, Survivors
<1>2. /\ sup.round \in {"afterTerm", "afterKill"}
      /\ \E round \in Rounds : Enter(round, sup.tracked)
      /\ UNCHANGED proc \/ proc' = Gone(Survivors)
  BY DEF ReadMarkersAgain, GraceEnds, Rounds
<1>3. sup' \in SupervisorState /\ Advances
  BY <1>1, <1>2, EnterKeeps DEF Rounds
<1>4. proc' \in [Pids -> Process] /\ Evolve
  BY <1>1, <1>2, GoneKeeps, SameProc DEF ProcTypes, Evolve
<1>. QED
  BY <1>3, <1>4 DEF Keeps, ProcTypes

LEMMA LastKeeps == ProcTypes /\ Done /\ ReadMarkersLast => Keeps
<1>. SUFFICES ASSUME ProcTypes, Done, ReadMarkersLast PROVE Keeps
  OBVIOUS
<1>1. PICK verdict \in {"verified", "unverified"} :
         /\ sup' = [sup EXCEPT !.round = "done", !.half = "rows", !.seen = {}, !.verdict = verdict]
         /\ verdict = "verified" => Survivors = {}
  BY DEF ReadMarkersLast, Verdict
<1>. DEFINE next == [sup EXCEPT !.round = "done", !.half = "rows", !.seen = {}, !.verdict = verdict]
<1>2. next \in SupervisorState /\ next.tracked = sup.tracked /\ next.inv = sup.inv /\ next.round = "done"
      /\ next.verdict = verdict
  BY DEF ProcTypes, SupervisorState
<1>3. sup' = next
  BY <1>1
<1>. HIDE DEF next
<1>4. verdict = "verified" => FindsNobody
  BY <1>1 DEF FindsNobody, ReadMarkersLast, Survivors
<1>. QED
  BY <1>2, <1>3, <1>4, SameProc DEF Keeps, ProcTypes, Advances, ReadMarkersLast

LEMMA FailsKeep == ProcTypes /\ Done /\ ReadFails => Keeps
<1>. SUFFICES ASSUME ProcTypes, Done, ReadFails PROVE Keeps
  OBVIOUS
<1>0. sup.verdict = "none" /\ sup.round # "off" /\ sup.round # "done"
  BY DEF Done, ProcTypes, SupervisorState, ReadFails, Rounds
<1>1. CASE sup.round = "final" /\ Verdict(FALSE)
  <2>. DEFINE next == [sup EXCEPT !.round = "done", !.half = "rows", !.seen = {}, !.verdict = "unverified"]
  <2>1. next \in SupervisorState /\ next.tracked = sup.tracked /\ next.inv = sup.inv /\ next.round = "done"
        /\ next.verdict = "unverified"
    BY DEF ProcTypes, SupervisorState
  <2>2. sup' = next
    BY <1>1 DEF Verdict
  <2>. HIDE DEF next
  <2>. QED
    BY <1>0, <2>1, <2>2, SameProc DEF Keeps, ProcTypes, Advances, ReadFails
<1>2. CASE sup.round # "final" /\ sup' = [sup EXCEPT !.round = "final", !.half = "rows", !.seen = {}, !.blind = TRUE]
  <2>. DEFINE next == [sup EXCEPT !.round = "final", !.half = "rows", !.seen = {}, !.blind = TRUE]
  <2>1. next \in SupervisorState /\ next.tracked = sup.tracked /\ next.inv = sup.inv /\ next.round = "final"
        /\ next.half = "rows" /\ next.verdict = sup.verdict
    BY DEF ProcTypes, SupervisorState, Rounds
  <2>2. sup' = next
    BY <1>2
  <2>. HIDE DEF next
  <2>. QED
    BY <1>0, <2>1, <2>2, SameProc DEF Keeps, ProcTypes, Advances, ReadFails
<1>. QED
  BY <1>1, <1>2 DEF ReadFails

LEMMA QuiesceKeeps == ProcTypes /\ Done /\ Quiesce /\ pc' \notin Early => Keeps
<1>. SUFFICES ASSUME ProcTypes, Done, Quiesce, pc' \notin Early PROVE Keeps
  OBVIOUS
<1>0. sup.verdict = "none" /\ sup.round # "done"
  BY DEF Done, ProcTypes, SupervisorState, Quiesce
<1>1. CASE sup.round = "off"
  <2>. DEFINE next == [sup EXCEPT !.round = "done", !.verdict = "verified"]
  <2>1. next \in SupervisorState /\ next.tracked = sup.tracked /\ next.inv = sup.inv /\ next.round = "done"
    BY DEF ProcTypes, SupervisorState
  <2>2. sup' = next
    BY <1>1 DEF Quiesce
  <2>. HIDE DEF next
  <2>. QED
    BY <1>0, <1>1, <2>1, <2>2, SameProc DEF Keeps, ProcTypes, Advances, Quiesce, FindsNobody
<1>2. CASE sup.round # "off"
  <2>. DEFINE next == [sup EXCEPT !.round = "first"]
  <2>1. next \in SupervisorState /\ next.tracked = sup.tracked /\ next.inv = sup.inv /\ next.round = "first"
        /\ next.verdict = "none"
    BY <1>0 DEF ProcTypes, SupervisorState, Rounds
  <2>2. sup' = next
    BY <1>2 DEF Quiesce
  <2>. HIDE DEF next
  <2>. QED
    BY <1>0, <2>1, <2>2, SameProc DEF Keeps, ProcTypes, Advances, Quiesce
<1>. QED
  BY <1>1, <1>2
-----------------------------------------------------------------------------
\* Every step starts an attempt or carries the one in progress on.

RestTypes ==
    /\ broker \in [port : Ports \cup {NoPort}, inv : Invs \cup {NoInv}, revoked : BOOLEAN]
    /\ usedPorts \in SUBSET Ports /\ pinned \in [Invs -> Ports \cup {NoPort}]
    /\ held \in SUBSET (Invs \X Invs)
    /\ pc \in {"idle", "broker", "boundary", "register", "config", "calling", "settled", "closing",
               "quiescing", "refuse", "caught", "failed", "complete", "extract", "judge", "testing"}
    /\ outcome \in {"none", "good", "bad"}
    /\ worktree \in 0..MaxWrites /\ wrote \in [Invs -> 0..MaxWrites]
    /\ patch \in [Invs -> 0..NoPatch]
    /\ sound \in BOOLEAN
    /\ ledger \in [Invs -> {"none", "STARTED", "COMPLETED", "ACCEPTED", "REJECTED", "RECONCILED"}]

LEMMA Types == TypeOK <=> ProcTypes /\ RestTypes
BY DEF TypeOK, ProcTypes, RestTypes, Process, SupervisorState

\* An attempt has its invocation, and no supervisor has begun before the spawn.
SupOwn == /\ pc # "idle" => sup.inv \in Invs
          /\ sup.inv \in Invs => ledger[sup.inv] # "none"
          /\ pc \in Early => sup.round = "off"
          /\ Done

LedgerGrows == \A i \in Invs : ledger'[i] = "none" => ledger[i] = "none"

Continues == /\ Evolve
             /\ Advances
             /\ pc' # "idle" => pc # "idle"
             /\ pc' \in Early => pc \in Early
             /\ LedgerGrows

\* The controller's steps that touch neither processes nor the supervisor.
Paperwork ==
    \/ OpenBroker \/ NoBroker \/ Authorize \/ Unauthorized \/ Register \/ NotCalled
    \/ SpawnFails \/ Settle \/ RecordBroker \/ RecordBrokerFails \/ Close
    \/ RecordQuiescence \/ RecordQuiescenceFails \/ RefuseAttempt \/ Catch
    \/ Complete \/ Extract \/ Validate \/ ValidationEnds \/ Assess \/ LedgerFails

LEMMA NotesGrow ==
    RestTypes => \A status \in {"COMPLETED", "ACCEPTED", "REJECTED", "RECONCILED"} :
        Note(status) => /\ LedgerGrows
                        /\ ledger' \in [Invs -> {"none", "STARTED", "COMPLETED", "ACCEPTED", "REJECTED", "RECONCILED"}]
BY DEF RestTypes, Note, LedgerGrows

LEMMA PaperworkKeeps ==
    RestTypes /\ Paperwork => /\ UNCHANGED <<proc, sup>>
                              /\ pc' # "idle" => pc # "idle"
                              /\ pc' \in Early => pc \in Early
                              /\ LedgerGrows
<1>. SUFFICES ASSUME RestTypes, Paperwork
              PROVE  /\ UNCHANGED <<proc, sup>>
                     /\ pc' # "idle" => pc # "idle"
                     /\ pc' \in Early => pc \in Early
                     /\ LedgerGrows
  OBVIOUS
<1>1. UNCHANGED ledger => LedgerGrows
  BY DEF LedgerGrows
<1>2. CASE OpenBroker \/ NoBroker \/ Authorize \/ Unauthorized \/ Register \/ NotCalled \/ SpawnFails \/ Settle
  BY <1>1, <1>2 DEF OpenBroker, NoBroker, Authorize, Unauthorized, Register, NotCalled, SpawnFails, Settle, Goto,
                    Surroundings, Early
<1>3. CASE RecordBroker \/ RecordBrokerFails \/ Close \/ RecordQuiescence \/ RecordQuiescenceFails
           \/ Extract \/ Validate \/ ValidationEnds
  BY <1>1, <1>3 DEF RecordBroker, RecordBrokerFails, Close, RecordQuiescence, RecordQuiescenceFails, Extract, Validate,
                    ValidationEnds, Goto, Surroundings, Early
<1>4. CASE RefuseAttempt \/ Catch \/ Complete \/ Assess \/ LedgerFails
  BY <1>1, <1>4, NotesGrow DEF RefuseAttempt, Catch, Complete, Assess, LedgerFails, Goto, Surroundings, Early
<1>. QED
  BY <1>2, <1>3, <1>4 DEF Paperwork

LEMMA Forms ==
    TypeOK /\ SupOwn /\ Next => ProcTypes' /\ ((\E i \in Invs : StartAttempt(i)) \/ Continues)
<1>. SUFFICES ASSUME TypeOK, SupOwn, Next
              PROVE  ProcTypes' /\ ((\E i \in Invs : StartAttempt(i)) \/ Continues)
  OBVIOUS
<1>0. ProcTypes /\ RestTypes /\ Done /\ (UNCHANGED ledger => LedgerGrows)
  BY Types DEF SupOwn, LedgerGrows
<1>1. UNCHANGED sup => Advances
  BY <1>0, SameSup DEF Done
<1>2. CASE Processes
  <2>1. PICK p \in Pids : \/ Write(p)
                          \/ (\E c \in Pids : Fork(p, c)) /\ Outside
                          \/ (LeaveGroup(p) \/ DropMarker(p) \/ Exit(p)) /\ Outside
                          \/ Ask(p) /\ UNCHANGED <<worktree, wrote, attemptVars>>
    BY <1>2 DEF Processes
  <2>2. UNCHANGED <<sup, pc, ledger>>
    BY <2>1 DEF Write, Outside, Ask, attemptVars, Fork, LeaveGroup, DropMarker, Exit
  <2>3. ProcTypes' /\ Evolve
    BY <1>0, <2>1, ForkKeeps, LossKeeps, ExitKeeps, SameProc DEF Write, Ask, ProcTypes
  <2>. QED
    BY <1>0, <1>1, <2>2, <2>3 DEF Continues
<1>3. CASE Requests
  BY <1>0, <1>1, <1>3, SameProc DEF Requests, Respond, attemptVars, ProcTypes, Continues
<1>4. CASE Supervisor
  <2>1. Keeps
    BY <1>0, <1>4, PollKeeps, RowsKeep, FirstKeeps, AgainKeeps, LastKeeps, FailsKeep DEF Supervisor
  <2>2. UNCHANGED <<pc, ledger>>
    BY <1>4 DEF Supervisor, Outside, attemptVars
  <2>. QED
    BY <1>0, <2>1, <2>2 DEF Keeps, Continues
<1>5. CASE \E i \in Invs : StartAttempt(i)
  BY <1>0, <1>5, IdleType DEF StartAttempt, Surroundings, ProcTypes
<1>6. CASE Paperwork
  BY <1>0, <1>1, <1>6, PaperworkKeeps, SameProc DEF ProcTypes, Continues
<1>7. CASE Spawn
  <2>1. PICK p \in Pids : Begin(p)
    BY <1>7 DEF Spawn
  <2>2. pc = "config" /\ pc' = "calling" /\ UNCHANGED ledger
    BY <1>7 DEF Spawn, Goto
  <2>3. sup.round = "off" /\ sup.verdict = "none"
    BY <1>0, <2>2 DEF SupOwn, Done, Early, ProcTypes, SupervisorState
  <2>. QED
    BY <1>0, <2>1, <2>2, <2>3, BeginKeeps DEF Continues, Early
<1>8. CASE TimeOut
  <2>1. (IF RootLives THEN {sup.root} ELSE {}) \in SUBSET Pids
    BY <1>0 DEF RootLives, ProcTypes, SupervisorState
  <2>. QED
    BY <1>0, <1>1, <1>8, <2>1, TermKeeps DEF TimeOut, Continues, Evolve, ProcTypes
<1>9. CASE StartQuiesce
  BY <1>0, <1>9, QuiesceKeeps DEF StartQuiesce, Early, Keeps, Continues
<1>. QED
  BY <1>2, <1>3, <1>4, <1>5, <1>6, <1>7, <1>8, <1>9 DEF Next, Controller, Paperwork
-----------------------------------------------------------------------------
\* What a verdict rests on.

SupInv ==
    /\ SupOwn
    /\ \A i \in Invs, p \in Pids : ledger[i] = "none" => proc[p].inv # i
    /\ sup.inv \in Invs /\ sup.round = "off" => \A p \in Pids : proc[p].inv # sup.inv
    /\ \A p \in Pids : Live(p) /\ proc[p].inv = sup.inv /\ proc[p].seen => p \in sup.tracked
    /\ sup.round = "final" /\ sup.half = "marks" /\ sup.seen = {} =>
           \A p \in Pids : Live(p) /\ proc[p].inv = sup.inv => ~proc[p].grouped /\ ~proc[p].seen
    /\ VerifiedMeansGone

\* A new attempt has a new invocation, of which there is no process.
LEMMA StartKeepsSup ==
    TypeOK /\ SupInv => \A i \in Invs : StartAttempt(i) => SupInv'
<1>. SUFFICES ASSUME TypeOK, SupInv, NEW i \in Invs, StartAttempt(i) PROVE SupInv'
  OBVIOUS
<1>1. /\ sup'.inv = i /\ sup'.round = "off" /\ sup'.verdict = "none"
      /\ UNCHANGED proc
      /\ ledger[i] = "none" /\ ledger' = [ledger EXCEPT ![i] = "STARTED"]
  BY DEF StartAttempt, Idle, Surroundings
<1>2. \A p \in Pids : proc[p].inv # i
  BY <1>1 DEF SupInv
<1>3. SupOwn'
  BY <1>1 DEF SupOwn, Done, TypeOK
<1>. QED
  BY <1>1, <1>2, <1>3 DEF SupInv, VerifiedMeansGone, Members, Live, TypeOK

LEMMA ContinueKeepsSup == TypeOK /\ TypeOK' /\ SupInv /\ Continues => SupInv'
<1>. SUFFICES ASSUME TypeOK, TypeOK', SupInv, Continues PROVE SupInv'
  OBVIOUS
<1>0. sup'.inv = sup.inv /\ NoInv \notin Invs /\ (pc = "config" => sup.inv \in Invs /\ ledger[sup.inv] # "none")
  BY PidAssumption DEF Continues, Advances, SupInv, SupOwn
<1>1. SupOwn'
  BY <1>0 DEF SupInv, SupOwn, Continues, Advances, LedgerGrows, Done
<1>2. ASSUME NEW i \in Invs, NEW p \in Pids, ledger'[i] = "none" PROVE proc'[p].inv # i
  <2>1. ledger[i] = "none" /\ \A q \in Pids : proc[q].inv # i
    BY <1>2 DEF Continues, LedgerGrows, SupInv
  <2>. QED
    BY <1>0, <2>1 DEF Continues, Evolve, Stays, Copies, Starts
<1>3. ASSUME sup'.inv \in Invs, sup'.round = "off", NEW p \in Pids PROVE proc'[p].inv # sup'.inv
  <2>1. sup' = sup /\ \A q \in Pids : proc[q].inv # sup.inv
    BY <1>3 DEF Continues, Advances, SupInv
  <2>. QED
    BY <1>0, <1>3, <2>1 DEF Continues, Evolve, Stays, Copies, Starts
<1>4. ASSUME NEW p \in Pids, Live(p)', proc'[p].inv = sup'.inv, proc'[p].seen PROVE p \in sup'.tracked
  BY <1>0, <1>4 DEF Continues, Advances, Evolve, Stays, Copies, Starts, SupInv, Live
\* Once nothing is marked any more, nobody joins those who were not found.
<1>5. ASSUME ~Raises, sup'.round # "watching", NEW p \in Pids, Live(p)', proc'[p].inv = sup'.inv
      PROVE  \E q \in Pids : /\ Live(q) /\ proc[q].inv = sup.inv
                             /\ proc'[p].grouped => proc[q].grouped
                             /\ proc'[p].marked => proc[q].marked
                             /\ proc'[p].seen => q = p /\ proc[q].seen
  BY <1>0, <1>5 DEF Continues, Evolve, Stays, Copies, Starts, Live
<1>6. ASSUME sup'.round = "final", sup'.half = "marks", sup'.seen = {}, NEW p \in Pids, Live(p)', proc'[p].inv = sup'.inv
      PROVE  ~proc'[p].grouped /\ ~proc'[p].seen
  <2>1. CASE sup' = sup
    <3>1. ~Raises
      BY <1>6, <2>1 DEF Raises
    <3>. QED
      BY <1>5, <1>6, <2>1, <3>1 DEF SupInv
  <2>2. CASE FindsNoRow
    <3>1. proc'[p].inv = proc[p].inv /\ Live(p) /\ proc'[p].grouped = proc[p].grouped
          /\ (proc'[p].seen => proc[p].seen \/ p \in Watched)
      BY <1>6, <2>2 DEF FindsNoRow, Saw, Live, TypeOK
    <3>2. p \notin Watched /\ ~proc[p].grouped
      BY <1>0, <1>6, <2>2, <3>1 DEF FindsNoRow, FromRows, Members
    <3>3. ~proc[p].seen
      BY <1>0, <1>6, <3>1, <3>2 DEF SupInv, Watched
    <3>. QED
      BY <3>1, <3>2, <3>3 DEF TypeOK
  <2>. QED
    BY <1>6, <2>1, <2>2 DEF Continues, Advances
<1>7. ASSUME sup'.verdict = "verified", NEW p \in Pids, Live(p)', proc'[p].inv = sup'.inv
      PROVE  ~proc'[p].marked /\ ~proc'[p].grouped /\ ~proc'[p].seen
  <2>1. CASE sup' = sup
    <3>1. ~Raises /\ sup'.round # "watching"
      BY <1>7, <2>1 DEF Raises, Rounds, SupInv, SupOwn, Done
    <3>. QED
      BY <1>5, <1>7, <2>1, <3>1 DEF SupInv, VerifiedMeansGone, Members, Live
  <2>2. CASE FindsNobody
    <3>1. UNCHANGED proc /\ Live(p) /\ proc[p].inv = sup.inv /\ sup.inv \in Invs
      BY <1>0, <1>7, <2>2 DEF FindsNobody, Live, TypeOK
    <3>2. sup.round = "final" /\ sup.half = "marks" /\ sup.seen = {} /\ FromMarkers = {}
      BY <2>2, <3>1 DEF FindsNobody, SupInv
    <3>. QED
      BY <3>1, <3>2 DEF SupInv, FromMarkers, Members
  <2>. QED
    BY <1>7, <2>1, <2>2 DEF Continues, Advances
<1>. QED
  BY <1>1, <1>2, <1>3, <1>4, <1>6, <1>7 DEF SupInv, VerifiedMeansGone, Members, Live
-----------------------------------------------------------------------------
\* Types.

LEMMA RestKeeps == TypeOK /\ Next => RestTypes'
<1>. SUFFICES ASSUME TypeOK, Next PROVE RestTypes'
  OBVIOUS
<1>0. RestTypes /\ ProcTypes
  BY Types
<1>1. CASE Processes
  <2>1. PICK p \in Pids : \/ Write(p)
                          \/ Outside
                          \/ Ask(p) /\ UNCHANGED <<worktree, wrote, attemptVars>>
    BY <1>1 DEF Processes
  <2>2. CASE Write(p)
    <3>1. worktree' \in 0..MaxWrites
      BY <1>0, <2>2, WritesAssumption DEF Write, RestTypes
    <3>2. wrote' \in [Invs -> 0..MaxWrites]
      BY <1>0, <2>2, <3>1 DEF Write, RestTypes
    <3>. QED
      BY <1>0, <2>2, <3>1, <3>2 DEF Write, RestTypes, brokerVars, attemptVars
  <2>3. CASE Outside
    BY <1>0, <2>3 DEF Outside, RestTypes, brokerVars, attemptVars
  <2>4. CASE Ask(p) /\ UNCHANGED <<worktree, wrote, attemptVars>>
    <3>1. <<proc[p].inv, broker.inv>> \in Invs \X Invs
      BY <1>0, <2>4 DEF Ask, RestTypes
    <3>. QED
      BY <1>0, <2>4, <3>1 DEF Ask, RestTypes, attemptVars
  <2>. QED
    BY <2>1, <2>2, <2>3, <2>4
<1>2. CASE Requests
  BY <1>0, <1>2 DEF Requests, Respond, RestTypes, attemptVars
<1>3. CASE Supervisor
  BY <1>0, <1>3 DEF Supervisor, Outside, RestTypes, brokerVars, attemptVars
<1>4. CASE \E i \in Invs : StartAttempt(i)
  BY <1>0, <1>4 DEF StartAttempt, Goto, Surroundings, RestTypes, brokerVars
<1>5. CASE OpenBroker \/ NoBroker \/ Authorize \/ Unauthorized \/ Register \/ NotCalled \/ SpawnFails \/ Settle
  <2>1. broker' \in [port : Ports \cup {NoPort}, inv : Invs \cup {NoInv}, revoked : BOOLEAN]
    BY <1>0, <1>5 DEF OpenBroker, NoBroker, Authorize, Unauthorized, Register, NotCalled, SpawnFails, Settle, RestTypes,
                      StartBroker, Closed, Pin, RegisterInvocation, RevokeInvocation, brokerVars, This,
                      ProcTypes, SupervisorState
  <2>2. usedPorts' \in SUBSET Ports /\ pinned' \in [Invs -> Ports \cup {NoPort}] /\ UNCHANGED held
    BY <1>0, <1>5 DEF OpenBroker, NoBroker, Authorize, Unauthorized, Register, NotCalled, SpawnFails, Settle, RestTypes,
                      StartBroker, Pin, RegisterInvocation, RevokeInvocation, brokerVars
  <2>. QED
    BY <1>0, <1>5, <2>1, <2>2 DEF OpenBroker, NoBroker, Authorize, Unauthorized, Register, NotCalled, SpawnFails, Settle,
                      RestTypes, Goto, Findings, Surroundings
<1>6. CASE RecordBroker \/ RecordBrokerFails \/ Close \/ RecordQuiescence \/ RecordQuiescenceFails \/ RefuseAttempt \/ Catch
  <2>1. /\ UNCHANGED <<broker, usedPorts, pinned, held>> \/ CloseBroker
        /\ \/ UNCHANGED ledger \/ Note("REJECTED") \/ Note("COMPLETED") \/ Note("RECONCILED")
        /\ pc' \in {"closing", "caught", "quiescing", "complete", "refuse", "failed"}
        /\ Findings /\ UNCHANGED <<worktree, wrote>>
    BY <1>6 DEF RecordBroker, RecordBrokerFails, Close, RecordQuiescence, RecordQuiescenceFails, RefuseAttempt, Catch,
                Goto, Surroundings, brokerVars
  <2>2. broker' \in [port : Ports \cup {NoPort}, inv : Invs \cup {NoInv}, revoked : BOOLEAN]
        /\ held' \in SUBSET (Invs \X Invs) /\ UNCHANGED <<usedPorts, pinned>>
    <3>1. CASE CloseBroker
      BY <1>0, <3>1 DEF CloseBroker, Closed, RestTypes
    <3>. QED
      BY <1>0, <2>1, <3>1 DEF RestTypes
  <2>3. ledger' \in [Invs -> {"none", "STARTED", "COMPLETED", "ACCEPTED", "REJECTED", "RECONCILED"}]
    BY <1>0, <2>1, NotesGrow DEF RestTypes
  <2>4. UNCHANGED <<outcome, patch, sound, worktree, wrote>>
    BY <2>1 DEF Findings
  <2>. QED
    BY <1>0, <2>1, <2>2, <2>3, <2>4 DEF RestTypes
<1>7. CASE Complete \/ Extract \/ Validate \/ ValidationEnds \/ Assess \/ LedgerFails
  <2>1. /\ UNCHANGED <<brokerVars, worktree, wrote>>
        /\ \/ UNCHANGED ledger \/ Note("COMPLETED") \/ Note("ACCEPTED") \/ Note("REJECTED") \/ Note("RECONCILED")
        /\ pc' \in {"extract", "judge", "testing", "idle", "failed"}
        /\ outcome' = outcome \/ outcome' = "none"
    BY <1>7 DEF Complete, Extract, Validate, ValidationEnds, Assess, LedgerFails, Goto, Surroundings, Findings
  <2>2. sound' \in BOOLEAN
    BY <1>0, <1>7 DEF Complete, Extract, Validate, ValidationEnds, Assess, LedgerFails, RestTypes, Findings
  <2>3. patch' \in [Invs -> 0..NoPatch]
    BY <1>0, <1>7, WritesAssumption DEF Complete, Extract, Validate, ValidationEnds, Assess, LedgerFails, RestTypes,
                Findings, NoPatch
  <2>. QED
    BY <1>0, <2>1, <2>2, <2>3, NotesGrow DEF RestTypes, brokerVars
<1>8. CASE Spawn \/ TimeOut \/ StartQuiesce
  BY <1>0, <1>8 DEF Spawn, TimeOut, StartQuiesce, RestTypes, Findings, Goto, brokerVars
<1>. QED
  BY <1>1, <1>2, <1>3, <1>4, <1>5, <1>6, <1>7, <1>8 DEF Next, Controller
-----------------------------------------------------------------------------
\* The broker of an attempt is closed before the next one begins, and no port comes back.

BrokerInv ==
    /\ broker.port # NoPort => broker.port \in usedPorts
    /\ \A i \in Invs : pinned[i] \in usedPorts \cup {NoPort}
    /\ \A i \in Invs : broker.port # NoPort /\ pinned[i] = broker.port => i = sup.inv
    /\ broker.inv \in {NoInv, sup.inv}
    /\ pc \in {"idle", "broker", "quiescing", "refuse", "complete", "extract", "judge", "testing"} => broker = Closed
    /\ TransportIsOwn

LEMMA BrokerKeeps ==
    TypeOK /\ SupOwn /\ BrokerInv /\ sup'.inv = sup.inv /\ Next => BrokerInv'
<1>. SUFFICES ASSUME TypeOK, SupOwn, BrokerInv, sup'.inv = sup.inv, Next PROVE BrokerInv'
  OBVIOUS
<1>0. /\ broker \in [port : Ports \cup {NoPort}, inv : Invs \cup {NoInv}, revoked : BOOLEAN]
      /\ pinned \in [Invs -> Ports \cup {NoPort}] /\ NoPort \notin Ports /\ NoInv \notin Invs
      /\ (pc # "idle" => sup.inv \in Invs)
  BY PortAssumption, PidAssumption DEF TypeOK, SupOwn
<1>1. CASE UNCHANGED <<broker, usedPorts, pinned, held>>
           /\ (pc' \in {"idle", "broker", "quiescing", "refuse", "complete", "extract", "judge", "testing"} => broker = Closed)
  BY <1>1 DEF BrokerInv, TransportIsOwn
<1>2. CASE Processes
  <2>1. PICK p \in Pids : \/ Write(p) \/ Outside
                          \/ Ask(p) /\ UNCHANGED <<worktree, wrote, attemptVars>>
    BY <1>2 DEF Processes
  <2>2. CASE Write(p) \/ Outside
    BY <1>1, <2>2 DEF Write, Outside, brokerVars, attemptVars, BrokerInv
  <2>3. CASE Ask(p) /\ UNCHANGED <<worktree, wrote, attemptVars>>
    <3>1. proc[p].inv = sup.inv /\ broker.inv = sup.inv
      BY <1>0, <2>3 DEF Ask, Reaches, BrokerInv
    <3>2. held' = held \cup {<<proc[p].inv, broker.inv>>} /\ UNCHANGED <<broker, usedPorts, pinned, pc>>
      BY <2>3 DEF Ask, attemptVars
    <3>. QED
      BY <3>1, <3>2 DEF BrokerInv, TransportIsOwn
  <2>. QED
    BY <2>1, <2>2, <2>3
<1>3. CASE Requests
  BY <1>3 DEF Requests, Respond, attemptVars, BrokerInv, TransportIsOwn
<1>4. CASE Supervisor
  BY <1>1, <1>4 DEF Supervisor, Outside, brokerVars, attemptVars, BrokerInv
<1>5. CASE OpenBroker
  <2>1. PICK port \in Ports \ usedPorts : /\ broker' = [Closed EXCEPT !.port = port]
                                          /\ usedPorts' = usedPorts \cup {port}
                                          /\ UNCHANGED <<pinned, held>>
    BY <1>5 DEF OpenBroker, StartBroker
  <2>2. broker'.port = port /\ broker'.inv = NoInv /\ pc' = "boundary"
    BY <1>5, <2>1 DEF Closed, OpenBroker, Goto
  <2>. QED
    BY <1>0, <2>1, <2>2 DEF BrokerInv, TransportIsOwn
<1>6. CASE Authorize
  <2>1. pinned' = [pinned EXCEPT ![sup.inv] = broker.port] /\ UNCHANGED <<broker, usedPorts, held>>
        /\ pc' = "register" /\ sup.inv \in Invs
    BY <1>0, <1>6 DEF Authorize, Pin, This, Goto
  <2>. QED
    BY <1>0, <2>1 DEF BrokerInv, TransportIsOwn
<1>7. CASE Register \/ SpawnFails \/ Settle
  <2>1. /\ broker' = [broker EXCEPT !.inv = sup.inv] \/ broker' = [broker EXCEPT !.revoked = TRUE]
        /\ UNCHANGED <<usedPorts, pinned, held>>
        /\ pc' \in {"config", "settled"}
    BY <1>7 DEF Register, SpawnFails, Settle, RegisterInvocation, RevokeInvocation, This, Goto
  <2>2. broker'.port = broker.port /\ broker'.inv \in {broker.inv, sup.inv}
    BY <1>0, <2>1
  <2>. QED
    BY <2>1, <2>2 DEF BrokerInv, TransportIsOwn
<1>8. CASE Close \/ Catch
  BY <1>0, <1>8 DEF Close, Catch, CloseBroker, Closed, BrokerInv, TransportIsOwn
<1>9. CASE \E i \in Invs : StartAttempt(i)
  BY <1>1, <1>9 DEF StartAttempt, Goto, brokerVars, BrokerInv
<1>10. CASE NoBroker \/ Unauthorized \/ NotCalled \/ Spawn \/ TimeOut \/ RecordBroker \/ RecordBrokerFails \/ StartQuiesce
  BY <1>1, <1>10 DEF NoBroker, Unauthorized, NotCalled, Spawn, TimeOut, RecordBroker, RecordBrokerFails, StartQuiesce,
                     Goto, brokerVars, BrokerInv
<1>11. CASE RecordQuiescence \/ RecordQuiescenceFails \/ RefuseAttempt
            \/ Complete \/ Extract \/ Validate \/ ValidationEnds \/ Assess \/ LedgerFails
  BY <1>1, <1>11 DEF RecordQuiescence, RecordQuiescenceFails, RefuseAttempt, Complete, Extract, Validate, ValidationEnds,
                     Assess, LedgerFails, Goto, brokerVars, BrokerInv
<1>. QED
  BY <1>2, <1>3, <1>4, <1>5, <1>6, <1>7, <1>8, <1>9, <1>10, <1>11 DEF Next, Controller

LEMMA BrokerStarts ==
    TypeOK /\ BrokerInv => \A i \in Invs : StartAttempt(i) => BrokerInv'
<1>. SUFFICES ASSUME TypeOK, BrokerInv, NEW i \in Invs, StartAttempt(i) PROVE BrokerInv'
  OBVIOUS
<1>1. UNCHANGED <<broker, usedPorts, pinned, held>> /\ broker = Closed
  BY DEF StartAttempt, Goto, BrokerInv, brokerVars
<1>. QED
  BY <1>1 DEF BrokerInv, TransportIsOwn, Closed
-----------------------------------------------------------------------------
\* The patch is taken when nobody is left who could still be counted.

Owns(p, i) == Live(p) /\ proc[p].inv = i
Verified == pc \in {"complete", "extract", "judge", "testing"}

PatchInv ==
    /\ \A i \in Invs : wrote[i] <= worktree
    /\ Verified => sup.verdict = "verified"
    /\ \A i \in Invs : patch[i] # NoPatch => ledger[i] # "none"
    /\ sup.inv \in Invs /\ patch[sup.inv] # NoPatch => sup.verdict = "verified"
    /\ \A i \in Invs, p \in Pids : patch[i] # NoPatch /\ Owns(p, i) =>
           ~proc[p].grouped /\ ~proc[p].marked /\ (i = sup.inv => ~proc[p].seen)
    /\ PatchIsFinal

LEMMA PatchStarts ==
    TypeOK /\ PatchInv => \A i \in Invs : StartAttempt(i) => PatchInv'
<1>. SUFFICES ASSUME TypeOK, PatchInv, NEW i \in Invs, StartAttempt(i) PROVE PatchInv'
  OBVIOUS
<1>1. /\ sup'.inv = i /\ pc' = "broker"
      /\ UNCHANGED <<proc, worktree, wrote, patch>>
      /\ ledger[i] = "none" /\ ledger' = [ledger EXCEPT ![i] = "STARTED"]
  BY DEF StartAttempt, Idle, Surroundings, Goto
<1>2. patch[i] = NoPatch
  BY <1>1 DEF PatchInv
<1>3. \A j \in Invs : patch'[j] # NoPatch => j # i /\ ledger'[j] # "none"
  BY <1>1, <1>2 DEF PatchInv, TypeOK
<1>. QED
  BY <1>1, <1>2, <1>3 DEF PatchInv, PatchIsFinal, Verified, Owns, Live

\* Every step but one leaves the patches alone, and every step but one what was written.
LEMMA PatchSteps ==
    TypeOK /\ Next => /\ patch' = patch \/ Extract
                      /\ UNCHANGED <<worktree, wrote>> \/ \E p \in Pids : Write(p)
                      /\ Verified' => Verified \/ (pc = "quiescing" /\ sup.verdict = "verified")
<1>. SUFFICES ASSUME TypeOK, Next
              PROVE  /\ patch' = patch \/ Extract
                     /\ UNCHANGED <<worktree, wrote>> \/ \E p \in Pids : Write(p)
                     /\ Verified' => Verified \/ (pc = "quiescing" /\ sup.verdict = "verified")
  OBVIOUS
<1>1. CASE Processes \/ Requests \/ Supervisor
  BY <1>1 DEF Processes, Requests, Supervisor, Write, Outside, attemptVars, Verified
<1>2. CASE \E i \in Invs : StartAttempt(i)
  BY <1>2 DEF StartAttempt, Goto, Surroundings, Verified
<1>3. CASE OpenBroker \/ NoBroker \/ Authorize \/ Unauthorized \/ Register \/ NotCalled \/ Spawn \/ SpawnFails
           \/ TimeOut \/ Settle
  BY <1>3 DEF OpenBroker, NoBroker, Authorize, Unauthorized, Register, NotCalled, Spawn, SpawnFails, TimeOut, Settle,
              Goto, Findings, Surroundings, Verified
<1>4. CASE RecordBroker \/ RecordBrokerFails \/ Close \/ StartQuiesce \/ RecordQuiescence \/ RecordQuiescenceFails
           \/ RefuseAttempt \/ Catch
  BY <1>4 DEF RecordBroker, RecordBrokerFails, Close, StartQuiesce, RecordQuiescence, RecordQuiescenceFails,
              RefuseAttempt, Catch, Goto, Findings, Surroundings, Verified
<1>5. CASE Complete \/ Extract \/ Validate \/ ValidationEnds \/ Assess \/ LedgerFails
  BY <1>5 DEF Complete, Extract, Validate, ValidationEnds, Assess, LedgerFails, Goto, Findings, Surroundings, Verified
<1>. QED
  BY <1>1, <1>2, <1>3, <1>4, <1>5 DEF Next, Controller

LEMMA PatchContinues ==
    TypeOK /\ TypeOK' /\ SupInv /\ PatchInv /\ Continues /\ Next => PatchInv'
<1>. SUFFICES ASSUME TypeOK, TypeOK', SupInv, PatchInv, Continues, Next PROVE PatchInv'
  OBVIOUS
<1>0. sup'.inv = sup.inv /\ (sup.verdict = "verified" => sup' = sup /\ ~Raises)
  BY DEF Continues, Advances, SupInv, SupOwn, Done, Raises, Rounds
<1>1. Verified => sup.verdict = "verified" /\ sup.inv \in Invs
  BY DEF PatchInv, SupInv, SupOwn, Verified
<1>2. Verified' => sup'.verdict = "verified"
  BY <1>0, <1>1, PatchSteps
<1>3. CASE Extract
  <2>1. /\ patch' = [patch EXCEPT ![sup.inv] = worktree] \/ patch' = [patch EXCEPT ![sup.inv] = NoPatch]
        /\ sup.verdict = "verified" /\ sup.inv \in Invs
        /\ UNCHANGED <<proc, sup, worktree, wrote, ledger>>
    BY <1>1, <1>3 DEF Extract, This, Surroundings, Goto, Verified
  <2>2. \A i \in Invs : patch'[i] # NoPatch => IF i = sup.inv THEN patch'[i] = worktree ELSE patch'[i] = patch[i]
    BY <2>1 DEF TypeOK
  <2>3. ledger[sup.inv] # "none"
    BY <2>1 DEF SupInv, SupOwn
  <2>4. \A p \in Pids : Owns(p, sup.inv) => ~proc[p].grouped /\ ~proc[p].marked /\ ~proc[p].seen
    BY <2>1 DEF SupInv, VerifiedMeansGone, Members, Owns
  <2>5. \A i \in Invs : patch'[i] # NoPatch => wrote[i] <= patch'[i]
    BY <2>2 DEF PatchInv, PatchIsFinal
  <2>6. \A i \in Invs : patch'[i] # NoPatch => ledger[i] # "none"
    BY <2>2, <2>3 DEF PatchInv
  <2>7. \A i \in Invs, p \in Pids : patch'[i] # NoPatch /\ Owns(p, i) =>
            ~proc[p].grouped /\ ~proc[p].marked /\ (i = sup.inv => ~proc[p].seen)
    BY <2>2, <2>4 DEF PatchInv
  <2>. QED
    BY <1>2, <2>1, <2>5, <2>6, <2>7 DEF PatchInv, PatchIsFinal, Owns, Live
<1>4. CASE patch' = patch
  <2>1. \A i \in Invs : patch[i] # NoPatch => ledger'[i] # "none"
    BY DEF PatchInv, Continues, LedgerGrows
  <2>2. sup.inv \in Invs /\ patch[sup.inv] # NoPatch => sup'.verdict = "verified"
    BY <1>0 DEF PatchInv
  <2>3. ASSUME NEW i \in Invs, NEW p \in Pids, patch[i] # NoPatch, Owns(p, i)'
        PROVE  ~proc'[p].grouped /\ ~proc'[p].marked /\ (i = sup.inv => ~proc'[p].seen)
    <3>1. i = sup.inv => sup.verdict = "verified" /\ ~Raises
      BY <1>0, <2>3 DEF PatchInv
    <3>2. ~Starts(p)
      BY <2>3, <3>1 DEF Starts, Owns, SupInv, SupOwn, Done, Early
    <3>3. proc'[p].inv = i /\ i # NoInv
      BY <2>3, PidAssumption DEF Owns
    <3>. QED
      BY <2>3, <3>1, <3>2, <3>3 DEF Continues, Evolve, Stays, Copies, PatchInv, Owns, Live
  <2>4. ASSUME NEW i \in Invs PROVE wrote'[i] <= worktree' /\ (patch[i] # NoPatch => wrote'[i] <= patch[i])
    <3>1. CASE UNCHANGED <<worktree, wrote>>
      BY <3>1 DEF PatchInv, PatchIsFinal
    <3>2. ASSUME NEW p \in Pids, Write(p) PROVE wrote'[i] <= worktree' /\ (patch[i] # NoPatch => wrote'[i] <= patch[i])
      <4>1. worktree' = worktree + 1 /\ worktree \in Nat /\ wrote[i] \in Nat /\ wrote[i] <= worktree
        BY <3>2, WritesAssumption DEF Write, TypeOK, PatchInv
      <4>2. CASE wrote' = wrote
        BY <4>1, <4>2 DEF PatchInv, PatchIsFinal
      <4>3. CASE wrote' = [wrote EXCEPT ![proc[p].inv] = worktree']
                 /\ (proc[p].grouped \/ proc[p].marked \/ (proc[p].seen /\ proc[p].inv = sup.inv))
        <5>1. proc[p].inv = i => patch[i] = NoPatch
          BY <3>2, <4>3 DEF PatchInv, Owns, Write
        <5>2. wrote'[i] = IF proc[p].inv = i THEN worktree' ELSE wrote[i]
          BY <4>3 DEF TypeOK
        <5>. QED
          BY <4>1, <5>1, <5>2 DEF PatchInv, PatchIsFinal
      <4>. QED
        BY <3>2, <4>2, <4>3 DEF Write, This
    <3>. QED
      BY <3>1, <3>2, PatchSteps
  <2>. QED
    BY <1>0, <1>2, <1>4, <2>1, <2>2, <2>3, <2>4 DEF PatchInv, PatchIsFinal
<1>. QED
  BY <1>3, <1>4, PatchSteps
-----------------------------------------------------------------------------
\* The whole.

IInv == TypeOK /\ SupInv /\ BrokerInv /\ PatchInv

LEMMA Initially == Init => IInv
<1>. SUFFICES ASSUME Init PROVE IInv
  OBVIOUS
<1>1. ProcTypes
  BY FreeType, IdleType DEF Init, InitSupervisor, ProcTypes
<1>2. RestTypes
  <2>1. 0 \in 0..MaxWrites /\ NoPatch \in 0..NoPatch
    BY WritesAssumption DEF NoPatch
  <2>2. broker \in [port : Ports \cup {NoPort}, inv : Invs \cup {NoInv}, revoked : BOOLEAN]
    BY DEF Init, InitBroker, Closed
  <2>. QED
    BY <2>1, <2>2 DEF Init, InitBroker, RestTypes
<1>3. sup.inv = NoInv /\ sup.round = "off" /\ sup.verdict = "none" /\ (\A p \in Pids : proc[p].inv = NoInv)
      /\ pc = "idle" /\ NoInv \notin Invs /\ broker = Closed
  BY FreeType, PidAssumption DEF Init, InitSupervisor, Idle, InitBroker
<1>4. SupInv
  BY <1>3 DEF SupInv, SupOwn, Done, Early, VerifiedMeansGone, Live
<1>5. BrokerInv
  BY <1>3 DEF Init, InitBroker, Closed, BrokerInv, TransportIsOwn
<1>6. PatchInv
  BY <1>3 DEF Init, PatchInv, PatchIsFinal, Verified
<1>. QED
  BY <1>1, <1>2, <1>4, <1>5, <1>6, Types DEF IInv

LEMMA Step == IInv /\ [Next]_vars => IInv'
<1>. SUFFICES ASSUME IInv, [Next]_vars PROVE IInv'
  OBVIOUS
<1>1. CASE UNCHANGED vars
  <2>1. UNCHANGED <<proc, sup, broker, usedPorts, pinned, held, worktree, wrote, pc, outcome, patch, sound, ledger>>
    BY <1>1 DEF vars, brokerVars, attemptVars
  <2>2. TypeOK'
    BY <2>1 DEF IInv, TypeOK
  <2>3. SupInv'
    BY <2>1 DEF IInv, SupInv, SupOwn, Done, VerifiedMeansGone, Members, Live
  <2>4. BrokerInv' /\ PatchInv'
    BY <2>1 DEF IInv, BrokerInv, TransportIsOwn, PatchInv, PatchIsFinal, Verified, Owns, Live
  <2>. QED
    BY <2>2, <2>3, <2>4 DEF IInv
<1>2. CASE Next
  <2>1. ProcTypes' /\ ((\E i \in Invs : StartAttempt(i)) \/ Continues)
    BY <1>2, Forms DEF IInv, SupInv
  <2>2. TypeOK'
    <3>1. RestTypes'
      BY <1>2, RestKeeps DEF IInv
    <3>. QED
      BY <2>1, <3>1 DEF TypeOK, ProcTypes, RestTypes, Process, SupervisorState
  <2>3. CASE \E i \in Invs : StartAttempt(i)
    BY <2>2, <2>3, StartKeepsSup, BrokerStarts, PatchStarts DEF IInv
  <2>4. CASE Continues
    BY <1>2, <2>2, <2>4, ContinueKeepsSup, BrokerKeeps, PatchContinues DEF IInv, SupInv, Continues, Advances
  <2>. QED
    BY <2>1, <2>3, <2>4
<1>. QED
  BY <1>1, <1>2

LEMMA Always == Spec => []IInv
BY Initially, Step, PTL DEF Spec

\* Every value stays in its type.
THEOREM TypeCorrect == Spec => []TypeOK
<1>1. IInv => TypeOK
  BY DEF IInv
<1>. QED
  BY <1>1, Always, PTL

\* However processes fork, leave the group, lose the marker, reuse pids or die between two reads of
\* the process table: a verdict of quiescence leaves only those that all three layers cannot see.
THEOREM VerdictIsSound == Spec => []VerifiedMeansGone
<1>1. IInv => VerifiedMeansGone
  BY DEF IInv, SupInv
<1>. QED
  BY <1>1, Always, PTL

\* No process of one invocation ever asks the broker with the capability of another.
THEOREM CapabilityIsOwn == Spec => []TransportIsOwn
<1>1. IInv => TransportIsOwn
  BY DEF IInv, BrokerInv
<1>. QED
  BY <1>1, Always, PTL

\* What processes still bound to their invocation write is in its patch, or the patch is not taken.
THEOREM PatchTakenIsFinal == Spec => []PatchIsFinal
<1>1. IInv => PatchIsFinal
  BY DEF IInv, PatchInv
<1>. QED
  BY <1>1, Always, PTL
=============================================================================
