--------------------------- MODULE WorktreeProofs ---------------------------
(***************************************************************************)
(* Theorems about Worktree for any number of processes, worktree ids and   *)
(* paths, with broken locks, crashes and vanishing checkouts.              *)
(***************************************************************************)
EXTENDS Worktree, SequenceTheorems, TLAPS

Jobless == {"idle", "worker"}

\* A job is held exactly outside idle and worker.
JobsHeld == \A p \in Procs :
    /\ pc[p] \in Jobless => job[p] = NoJob
    /\ pc[p] \notin Jobless => job[p] \in Job

\* The ids a process works on or retains.
IdsOf(p) == {job[p].id, home[p]} \ {NoId}

\* Ids in use were drawn.
IdsDrawn ==
    /\ \A n \in DOMAIN registry : registry[n].id \in used
    /\ \A p \in Procs : IdsOf(p) \subseteq used

\* An id belongs to one process at a time.
IdsExclusive == \A p, q \in Procs : p # q => IdsOf(p) \cap IdsOf(q) = {}

\* Only the two mutations get to append.
AppendNeeds == \A p \in Procs :
    pc[p] = "append" => job[p].need \in {"CREATED", "REMOVED"}

\* p has added its worktree and not yet recorded it.
Unrecorded(p) ==
    \/ pc[p] = "mark"
    \/ pc[p] \in AtLock \ {"close"} /\ job[p].need = "CREATED"

HoldersOwn == \A p \in Procs :
    Unrecorded(p) => tree[job[p].path] # NoTree /\ tree[job[p].path].for = job[p].id

MarkersOwn == \A d \in Paths :
    tree[d] # NoTree => tree[d].marker = NoId \/ tree[d].marker = tree[d].for

RemoversOwn == \A p \in Procs :
    pc[p] = "remove" => tree[job[p].path] # NoTree /\ tree[job[p].path].for = job[p].id

Claiming(p) == pc[p] = "add" \/ (pc[p] \in AtLock /\ job[p].need = "CLAIM")
CreatesFresh == \A p \in Procs :
    Unrecorded(p) \/ Claiming(p) => ~Recorded(job[p].id)

AppendsUnclaimed == \A p \in Procs :
    pc[p] = "append" /\ job[p].need = "CREATED" => Claimants(registry, job[p].id, job[p].path) = {}

HomesRecorded ==
    /\ \A p \in Procs : home[p] # NoId => Recorded(home[p])
    /\ \A p \in Procs : pc[p] = "worker" => home[p] # NoId
    /\ \A p \in Procs : pc[p] = "close" /\ job[p].need = "CREATED" /\ job[p].ok => Recorded(job[p].id)

\* A record is only written when its patch is stored.
PersistsStored == \A p \in Procs : pc[p] = "persist" => job[p].patch \in artifacts

IInv == /\ TypeOK /\ JobsHeld /\ AppendNeeds /\ IdsDrawn /\ IdsExclusive /\ HoldersOwn /\ MarkersOwn
        /\ RemoversOwn /\ CreatesFresh /\ AppendsUnclaimed /\ HomesRecorded /\ PathClaimedOnce
        /\ PersistsStored /\ RecordsHavePatches

-----------------------------------------------------------------------------
\* What the three ways to change a job leave.
LEMMA JobValues ==
    /\ NoJob \notin Job
    /\ NoJob.id = NoId
    /\ \A i \in Ids, d \in Paths, n \in Needs, c \in Content :
          /\ Start(i, d, n, c) \in Job
          /\ Start(i, d, n, c).id = i
          /\ Start(i, d, n, c).path = d
          /\ Start(i, d, n, c).need = n
    /\ \A j \in Job, n \in Needs :
          /\ [j EXCEPT !.need = n, !.ok = FALSE, !.tries = 0] \in Job
          /\ j.id \in Ids /\ j.path \in Paths /\ j.id # NoId
<1>1. NoJob \notin Job /\ NoJob.id = NoId
  BY IdAssumption DEF NoJob, Job
<1>2. 0 \in 0..(LockRetries - 1)
  BY BoundsAssumption
<1>3. ASSUME NEW i \in Ids, NEW d \in Paths, NEW n \in Needs, NEW c \in Content
      PROVE  /\ Start(i, d, n, c) \in Job
             /\ Start(i, d, n, c).id = i
             /\ Start(i, d, n, c).path = d
             /\ Start(i, d, n, c).need = n
  BY <1>2 DEF Start, Job
<1>4. ASSUME NEW j \in Job, NEW n \in Needs
      PROVE  /\ [j EXCEPT !.need = n, !.ok = FALSE, !.tries = 0] \in Job
             /\ j.id \in Ids /\ j.path \in Paths /\ j.id # NoId
  BY <1>2, IdAssumption DEF Job
<1>. QED
  BY <1>1, <1>3, <1>4

\* The places and jobs of the other processes stay.
LEMMA OthersStay ==
    TypeOK => \A p \in Procs : Step(p) \/ Request(p) \/ Crash(p) =>
       \A q \in Procs : q # p => pc'[q] = pc[q] /\ job'[q] = job[q] /\ home'[q] = home[q]
<1>. SUFFICES ASSUME TypeOK, NEW p \in Procs, Step(p) \/ Request(p) \/ Crash(p),
                     NEW q \in Procs, q # p
              PROVE  pc'[q] = pc[q] /\ job'[q] = job[q] /\ home'[q] = home[q]
  OBVIOUS
<1>. USE DEF TypeOK, Goto, Leave, Enter, TryAgain
<1>1. CASE OpenLock(p) \/ LockExists(p) \/ LockIsFresh(p) \/ LockIsStale(p) \/ BreakLock(p)
  BY <1>1 DEF OpenLock, LockExists, LockIsFresh, LockIsStale, BreakLock
<1>2. CASE Load(p) \/ AppendEvent(p) \/ CloseLock(p)
  BY <1>2 DEF Load, AppendEvent, CloseLock
<1>3. CASE GitAdd(p) \/ GitAddFails(p) \/ Mark(p) \/ MarkFails(p)
  BY <1>3 DEF GitAdd, GitAddFails, Mark, MarkFails
<1>4. CASE FailAttempt(p) \/ StorePatch(p) \/ StoreRecord(p)
  BY <1>4 DEF FailAttempt, StorePatch, StoreRecord
<1>5. CASE Inspect(p) \/ GitRemove(p) \/ GitRemoveFails(p)
  BY <1>5 DEF Inspect, GitRemove, GitRemoveFails
<1>6. CASE Request(p) \/ Crash(p)
  BY <1>6 DEF Request, StartAttempt, CreateWorktree, RemoveWorktree, Crash
<1>. QED
  BY <1>1, <1>2, <1>3, <1>4, <1>5, <1>6 DEF Step

Placed == /\ pc \in [Procs -> Places]
          /\ job \in [Procs -> Job \cup {NoJob}]
          /\ JobsHeld

\* A busy process works on a worktree.
LEMMA Busy ==
    Placed => \A p \in Procs : pc[p] \notin Jobless =>
       /\ job[p] \in Job /\ job[p].id \in IdsOf(p)
       /\ job[p].id \in Ids /\ job[p].path \in Paths
<1>. SUFFICES ASSUME Placed, NEW p \in Procs, pc[p] \notin Jobless
              PROVE  /\ job[p] \in Job /\ job[p].id \in IdsOf(p)
                     /\ job[p].id \in Ids /\ job[p].path \in Paths
  OBVIOUS
<1>1. job[p] \in Job
  BY DEF Placed, JobsHeld
<1>2. job[p].id \in Ids /\ job[p].path \in Paths /\ job[p].id # NoId
  BY <1>1, IdAssumption DEF Job
<1>. QED
  BY <1>1, <1>2 DEF IdsOf

\* A process that moves to a place with a job that fits it.
LEMMA Moves ==
    Placed => \A p \in Procs, a \in Places, j \in Job \cup {NoJob} :
       /\ pc' = [pc EXCEPT ![p] = a]
       /\ job' = [job EXCEPT ![p] = j]
       /\ a \in Jobless => j = NoJob
       /\ a \notin Jobless => j \in Job
       => Placed'
BY DEF Placed, JobsHeld

\* A process that moves and keeps its job.
LEMMA MovesOn ==
    Placed => \A p \in Procs, a \in Places :
       /\ pc' = [pc EXCEPT ![p] = a]
       /\ job' = job
       /\ a \in Jobless <=> pc[p] \in Jobless
       => Placed'
BY DEF Placed, JobsHeld

\* A process that leaves.
LEMMA Leaves ==
    Placed => \A p \in Procs : Leave(p) => Placed'
BY DEF Placed, JobsHeld, Leave, Goto, Jobless, Places

\* A process that asks for the lock.
LEMMA Enters ==
    Placed => \A p \in Procs, n \in Needs :
       pc[p] \notin Jobless /\ Enter(p, n) => Placed'
<1>. SUFFICES ASSUME Placed, NEW p \in Procs, NEW n \in Needs, pc[p] \notin Jobless, Enter(p, n)
              PROVE  Placed'
  OBVIOUS
<1>. DEFINE j == [job[p] EXCEPT !.need = n, !.ok = FALSE, !.tries = 0]
<1>1. job[p] \in Job
  BY DEF Placed, JobsHeld
<1>2. j \in Job
  BY <1>1, JobValues
<1>3. job' = [job EXCEPT ![p] = j]
  BY DEF Enter, Placed
<1>4. pc' = [pc EXCEPT ![p] = "open"]
  BY DEF Enter, Goto
<1>5. "open" \in Places /\ "open" \notin Jobless
  BY DEF Places, AtLock, Jobless
<1>. HIDE DEF j
<1>. QED
  BY <1>2, <1>3, <1>4, <1>5, Moves

\* A process that tries the lock once more, or gives up.
LEMMA Tries ==
    Placed => \A p \in Procs : pc[p] \notin Jobless /\ TryAgain(p) => Placed'
<1>. SUFFICES ASSUME Placed, NEW p \in Procs, pc[p] \notin Jobless, TryAgain(p)
              PROVE  Placed'
  OBVIOUS
<1>1. CASE job[p].tries + 1 < LockRetries
  <2>. DEFINE j == [job[p] EXCEPT !.tries = @ + 1]
  <2>1. job[p] \in Job
    BY DEF Placed, JobsHeld
  <2>2. job[p].tries + 1 \in 0..(LockRetries - 1)
    BY <1>1, <2>1, BoundsAssumption DEF Job
  <2>3. j \in Job
    BY <2>1, <2>2 DEF Job
  <2>4. job' = [job EXCEPT ![p] = j] /\ pc' = [pc EXCEPT ![p] = "open"]
    BY <1>1 DEF TryAgain, Goto
  <2>5. "open" \in Places /\ "open" \notin Jobless
    BY DEF Places, AtLock, Jobless
  <2>. HIDE DEF j
  <2>. QED
    BY <2>3, <2>4, <2>5, Moves
<1>2. CASE ~(job[p].tries + 1 < LockRetries)
  BY <1>2, Leaves DEF TryAgain
<1>. QED
  BY <1>1, <1>2

\* A process that starts an operation on a worktree.
LEMMA Starts ==
    Placed => \A p \in Procs, a \in Places \ Jobless, i \in Ids, d \in Paths, n \in Needs, c \in Content :
       pc' = [pc EXCEPT ![p] = a] /\ job' = [job EXCEPT ![p] = Start(i, d, n, c)] => Placed'
<1>. SUFFICES ASSUME Placed, NEW p \in Procs, NEW a \in Places \ Jobless, NEW i \in Ids,
                     NEW d \in Paths, NEW n \in Needs, NEW c \in Content,
                     pc' = [pc EXCEPT ![p] = a], job' = [job EXCEPT ![p] = Start(i, d, n, c)]
              PROVE  Placed'
  OBVIOUS
<1>1. Start(i, d, n, c) \in Job
  BY JobValues
<1>. QED
  BY <1>1, Moves

\* The path of a recorded id.
LEMMA RecordedPath ==
    TypeOK => \A i \in Ids : Recorded(i) => PathOf(i) \in Paths
<1>. SUFFICES ASSUME TypeOK, NEW i \in Ids, Recorded(i) PROVE PathOf(i) \in Paths
  OBVIOUS
<1>. DEFINE R == {registry[n] : n \in DOMAIN registry}
<1>1. \A n \in DOMAIN registry : registry[n] \in RegistryEvent
  BY DEF TypeOK
<1>2. \E r \in R : r.id = i
  BY DEF Recorded
<1>3. (CHOOSE r \in R : r.id = i) \in R
  BY <1>2
<1>4. (CHOOSE r \in R : r.id = i) \in RegistryEvent
  BY <1>1, <1>3
<1>. QED
  BY <1>4 DEF PathOf, RegistryEvent

-----------------------------------------------------------------------------
\* Every step leaves the processes in order.
LEMMA PlacedStep ==
    TypeOK /\ Placed /\ HomesRecorded => \A p \in Procs : Step(p) \/ Request(p) \/ Crash(p) => Placed'
<1>. SUFFICES ASSUME TypeOK, Placed, HomesRecorded, NEW p \in Procs, Step(p) \/ Request(p) \/ Crash(p)
              PROVE  Placed'
  OBVIOUS
<1>. USE DEF Jobless
<1>p. Places = {"idle", "add", "mark", "inspect", "remove", "worker", "persist",
                "open", "stat", "break", "load", "append", "close"}
  BY DEF Places, AtLock, InSection
<1>n. Needs = {"CLAIM", "CREATED", "FIND", "CONTEND", "REMOVED"}
  BY DEF Needs
<1>1. CASE OpenLock(p)
  BY <1>1, <1>p, MovesOn DEF OpenLock, Goto
<1>2. CASE LockExists(p)
  BY <1>2, <1>p, MovesOn DEF LockExists, Goto
<1>3. CASE LockIsFresh(p)
  BY <1>3, Tries DEF LockIsFresh
<1>4. CASE LockIsStale(p)
  BY <1>4, <1>p, MovesOn DEF LockIsStale, Goto
<1>5. CASE BreakLock(p)
  BY <1>5, Tries DEF BreakLock
<1>6. CASE Load(p)
  <2>. DEFINE j == [job[p] EXCEPT !.ok = Accepts(job[p])]
              a == IF Accepts(job[p]) /\ job[p].need \in {"CREATED", "REMOVED"}
                   THEN "append" ELSE "close"
  <2>1. job[p] \in Job
    BY <1>6 DEF Load, Placed, JobsHeld
  <2>2. Accepts(job[p]) \in BOOLEAN
    BY DEF Accepts
  <2>3. j \in Job
    BY <2>1, <2>2 DEF Job
  <2>4. job' = [job EXCEPT ![p] = j] /\ pc' = [pc EXCEPT ![p] = a]
    BY <1>6 DEF Load, Goto
  <2>5. a \in Places \ Jobless
    BY <1>p
  <2>. HIDE DEF j, a
  <2>. QED
    BY <2>3, <2>4, <2>5, Moves
<1>7. CASE AppendEvent(p)
  BY <1>7, <1>p, MovesOn DEF AppendEvent, Goto
<1>8. CASE CloseLock(p)
  <2>1. CASE Leave(p)
    BY <2>1, Leaves
  <2>2. CASE Enter(p, "CONTEND")
    BY <1>8, <2>2, <1>n, Enters DEF CloseLock
  <2>3. CASE job' = job /\ (Goto(p, "add") \/ Goto(p, "inspect"))
    BY <1>8, <2>3, <1>p, MovesOn DEF CloseLock, Goto
  <2>. QED
    BY <1>8, <2>1, <2>2, <2>3 DEF CloseLock
<1>9. CASE GitAdd(p)
  BY <1>9, <1>p, MovesOn DEF GitAdd, Goto
<1>10. CASE GitAddFails(p)
  BY <1>10, Leaves DEF GitAddFails
<1>11. CASE Mark(p)
  BY <1>11, <1>n, Enters DEF Mark
<1>12. CASE MarkFails(p)
  BY <1>12, Leaves DEF MarkFails
<1>13. CASE FailAttempt(p)
  BY <1>13, <1>p, MovesOn DEF FailAttempt, Goto
<1>14. CASE StorePatch(p)
  <2>. DEFINE d == PathOf(home[p])
  <2>1. home[p] \in Ids /\ Recorded(home[p])
    BY <1>14 DEF StorePatch, HomesRecorded, TypeOK
  <2>2. d \in Paths
    BY <2>1, RecordedPath
  <2>3. files[d] \in Content
    BY <1>14, <2>2 DEF StorePatch, TypeOK
  <2>4. pc' = [pc EXCEPT ![p] = "persist"] /\ job' = [job EXCEPT ![p] = Start(home[p], d, "CLAIM", files[d])]
    BY <1>14 DEF StorePatch, Goto
  <2>. HIDE DEF d
  <2>. QED
    BY <2>1, <2>2, <2>3, <2>4, <1>p, <1>n, Starts
<1>15. CASE StoreRecord(p)
  BY <1>15, Leaves DEF StoreRecord
<1>16. CASE Inspect(p)
  <2>1. CASE Leave(p)
    BY <2>1, Leaves
  <2>2. CASE Goto(p, "remove") /\ job' = job
    BY <1>16, <2>2, <1>p, MovesOn DEF Inspect, Goto
  <2>. QED
    BY <1>16, <2>1, <2>2 DEF Inspect
<1>17. CASE GitRemove(p)
  BY <1>17, <1>n, Enters DEF GitRemove
<1>18. CASE GitRemoveFails(p)
  BY <1>18, Leaves DEF GitRemoveFails
<1>19. CASE StartAttempt(p)
  BY <1>19, <1>p, MovesOn DEF StartAttempt, Goto
<1>20. CASE Crash(p)
  BY <1>20, Leaves DEF Crash
<1>z. 0 \in Content
  BY BoundsAssumption DEF Content
<1>21. ASSUME NEW i \in Ids, NEW d \in Paths, CreateWorktree(p, i, d) PROVE Placed'
  <2>1. pc' = [pc EXCEPT ![p] = "open"] /\ job' = [job EXCEPT ![p] = Start(i, d, "CLAIM", 0)]
    BY <1>21 DEF CreateWorktree, Goto
  <2>. QED
    BY <2>1, <1>p, <1>n, <1>z, Starts
<1>22. ASSUME NEW i \in Ids, RemoveWorktree(p, i) PROVE Placed'
  <2>1. PathOf(i) \in Paths
    BY <1>22, RecordedPath DEF RemoveWorktree
  <2>2. pc' = [pc EXCEPT ![p] = "open"] /\ job' = [job EXCEPT ![p] = Start(i, PathOf(i), "FIND", 0)]
    BY <1>22 DEF RemoveWorktree, Goto
  <2>. QED
    BY <2>1, <2>2, <1>p, <1>n, <1>z, Starts
<1>. QED
  BY <1>1, <1>2, <1>3, <1>4, <1>5, <1>6, <1>7, <1>8, <1>9, <1>10, <1>11, <1>12, <1>13,
     <1>14, <1>15, <1>16, <1>17, <1>18, <1>19, <1>20, <1>21, <1>22 DEF Step, Request

LEMMA TypeStep ==
    TypeOK /\ Placed /\ HomesRecorded /\ AppendNeeds /\ HoldersOwn => \A p \in Procs : Step(p) \/ Request(p) \/ Crash(p) => TypeOK'
<1>. SUFFICES ASSUME TypeOK, Placed, HomesRecorded, AppendNeeds, HoldersOwn, NEW p \in Procs, Step(p) \/ Request(p) \/ Crash(p)
              PROVE  TypeOK'
  OBVIOUS
<1>. USE DEF treeVars, evidenceVars
<1>p. pc' \in [Procs -> Places] /\ job' \in [Procs -> Job \cup {NoJob}]
  BY PlacedStep DEF Placed
<1>j. pc[p] \notin Jobless => job[p] \in Job
  BY DEF Placed, JobsHeld
<1>1. CASE OpenLock(p) \/ LockExists(p) \/ LockIsFresh(p) \/ LockIsStale(p) \/ BreakLock(p) \/ Load(p)
  BY <1>1, <1>p DEF TypeOK, OpenLock, LockExists, LockIsFresh, LockIsStale, BreakLock, Load
<1>2. CASE AppendEvent(p)
  <2>1. job[p] \in Job /\ job[p].need \in {"CREATED", "REMOVED"}
    BY <1>2, <1>j DEF AppendEvent, Jobless, AppendNeeds
  <2>. QED
    BY <1>2, <2>1, <1>p DEF TypeOK, AppendEvent, RegistryEvent, Job
<1>3. CASE CloseLock(p)
  <2>1. job[p].id \in Ids
    BY <1>3, <1>j DEF CloseLock, Jobless, Job
  <2>. QED
    BY <1>3, <2>1, <1>p DEF TypeOK, CloseLock
<1>4. CASE GitAdd(p)
  <2>1. job[p].id \in Ids /\ 0 \in Content
    BY <1>4, <1>j, BoundsAssumption DEF GitAdd, Jobless, Job, Content
  <2>. QED
    BY <1>4, <2>1, <1>p DEF TypeOK, GitAdd, AdminDir
<1>5. CASE GitAddFails(p) \/ MarkFails(p) \/ Inspect(p) \/ GitRemoveFails(p) \/ StartAttempt(p)
  BY <1>5, <1>p DEF TypeOK, GitAddFails, MarkFails, Inspect, GitRemoveFails, StartAttempt
<1>6. CASE Mark(p)
  <2>1. job[p].id \in Ids /\ job[p].path \in Paths
    BY <1>6, <1>j DEF Mark, Jobless, Job
  <2>2. tree[job[p].path] # NoTree => [tree[job[p].path] EXCEPT !.marker = job[p].id] \in AdminDir
    BY <2>1 DEF TypeOK, AdminDir
  <2>3. tree[job[p].path] # NoTree
    BY <1>6 DEF Mark, HoldersOwn, Unrecorded
  <2>. QED
    BY <1>6, <2>1, <2>2, <2>3, <1>p DEF TypeOK, Mark
<1>7. CASE FailAttempt(p)
  BY <1>7, <1>p DEF TypeOK, FailAttempt, HomesRecorded
<1>8. CASE StorePatch(p)
  <2>. DEFINE d == PathOf(home[p])
  <2>1. home[p] \in Ids /\ Recorded(home[p])
    BY <1>8 DEF StorePatch, HomesRecorded, TypeOK
  <2>2. d \in Paths
    BY <2>1, RecordedPath
  <2>3. files[d] \in Content /\ artifacts' = artifacts \cup {files[d]}
    BY <1>8, <2>2 DEF StorePatch, TypeOK
  <2>. HIDE DEF d
  <2>. QED
    BY <1>8, <2>3, <1>p DEF TypeOK, StorePatch
<1>9. CASE StoreRecord(p)
  <2>1. pc[p] \notin Jobless
    BY <1>9 DEF StoreRecord, Jobless
  <2>2. job[p].id \in Ids /\ job[p].patch \in Content
    BY <2>1, <1>j DEF Job
  <2>. QED
    BY <1>9, <2>2, <1>p DEF TypeOK, StoreRecord, Evidence
<1>10. CASE GitRemove(p)
  BY <1>10, <1>p DEF TypeOK, GitRemove
<1>11. CASE Crash(p)
  <2>1. crashes' \in 0..MaxCrashes
    BY <1>11, BoundsAssumption DEF TypeOK, Crash
  <2>2. live' \subseteq Ids
    BY <1>11 DEF TypeOK, Crash, HomesRecorded
  <2>. QED
    BY <1>11, <2>1, <2>2, <1>p DEF TypeOK, Crash
<1>12. ASSUME NEW i \in Ids, NEW d \in Paths, CreateWorktree(p, i, d) PROVE TypeOK'
  BY <1>12, <1>p DEF TypeOK, CreateWorktree
<1>13. ASSUME NEW i \in Ids, RemoveWorktree(p, i) PROVE TypeOK'
  BY <1>13, <1>p DEF TypeOK, RemoveWorktree
<1>. QED
  BY <1>1, <1>2, <1>3, <1>4, <1>5, <1>6, <1>7, <1>8, <1>9, <1>10, <1>11, <1>12, <1>13 DEF Step, Request

-----------------------------------------------------------------------------
(* What a step of p does to its own place and job, in terms of the         *)
(* lifecycle it works on.                                                  *)

Same(p) == job'[p].id = job[p].id /\ job'[p].path = job[p].path
InLock == AtLock \ {"close"}

Idles(p) == /\ pc'[p] \in Jobless /\ job'[p] = NoJob
            /\ pc'[p] = "worker" => StartAttempt(p)
AtTheLock(p) ==
    /\ pc[p] \in InLock /\ pc'[p] \in AtLock
    /\ Same(p) /\ job'[p].need = job[p].need
    /\ pc'[p] = "append" => Load(p)
    /\ pc'[p] = "close" => Load(p) \/ AppendEvent(p)
GoesOn(p) ==
    /\ pc[p] = "close" /\ Same(p)
    /\ \/ pc'[p] = "add" /\ job[p].need = "CLAIM"
       \/ pc'[p] = "inspect"
       \/ pc'[p] = "open" /\ job'[p].need = "CONTEND"
Adds(p) == pc[p] = "add" /\ pc'[p] = "mark" /\ job' = job /\ GitAdd(p)
Marks(p) == /\ pc[p] = "mark" /\ pc'[p] = "open" /\ Same(p)
            /\ job'[p].need = "CREATED" /\ Mark(p)
Approves(p) == pc[p] = "inspect" /\ pc'[p] = "remove" /\ job' = job /\ MayRemove(job[p])
Removes(p) == /\ pc[p] = "remove" /\ pc'[p] = "open" /\ Same(p)
              /\ job'[p].need = "REMOVED" /\ GitRemove(p)
Persists(p) == pc'[p] = "persist" /\ job'[p].id = home[p] /\ StorePatch(p)
Creates(p) == \E i \in Ids, d \in Paths :
    /\ CreateWorktree(p, i, d) /\ pc'[p] = "open"
    /\ job'[p].id = i /\ job'[p].need = "CLAIM"
Cleans(p) == \E i \in Ids :
    /\ RemoveWorktree(p, i) /\ pc'[p] = "open"
    /\ job'[p].id = i /\ job'[p].need = "FIND"

Moved(p) == \/ Idles(p) \/ AtTheLock(p) \/ GoesOn(p) \/ Adds(p) \/ Marks(p) \/ Approves(p)
            \/ Removes(p) \/ Persists(p) \/ Creates(p) \/ Cleans(p)

LEMMA Movement ==
    Placed => \A p \in Procs : Step(p) \/ Request(p) \/ Crash(p) => Moved(p)
<1>. SUFFICES ASSUME Placed, NEW p \in Procs, Step(p) \/ Request(p) \/ Crash(p)
              PROVE  Moved(p)
  OBVIOUS
<1>. USE DEF Placed
<1>0. InLock = {"open", "stat", "break", "load", "append"} /\ AtLock = InLock \cup {"close"}
  BY DEF InLock, AtLock, InSection
<1>j. pc[p] \notin Jobless => job[p] \in Job
  BY DEF JobsHeld
<1>l. Leave(p) => Idles(p)
  BY DEF Leave, Goto, Idles, Jobless
<1>e. ASSUME NEW n \in Needs, Enter(p, n), job[p] \in Job
      PROVE  pc'[p] = "open" /\ Same(p) /\ job'[p].need = n
  BY <1>e DEF Enter, Goto, Same, Job
<1>t. ASSUME TryAgain(p), pc[p] \in InLock PROVE Idles(p) \/ AtTheLock(p)
  <2>1. CASE Leave(p)
    BY <2>1, <1>l
  <2>2. CASE Goto(p, "open") /\ job' = [job EXCEPT ![p].tries = @ + 1]
    <3>1. job[p] \in Job
      BY <1>t, <1>0, <1>j DEF Jobless
    <3>2. job'[p].id = job[p].id /\ job'[p].path = job[p].path /\ job'[p].need = job[p].need
      BY <2>2, <3>1 DEF Job
    <3>3. pc'[p] = "open"
      BY <2>2 DEF Goto
    <3>. QED
      BY <1>t, <3>2, <3>3, <1>0 DEF AtTheLock, Same
  <2>. QED
    BY <1>t, <2>1, <2>2 DEF TryAgain
<1>1. CASE OpenLock(p) \/ LockExists(p) \/ LockIsStale(p)
  BY <1>1, <1>0 DEF OpenLock, LockExists, LockIsStale, Goto, Moved, AtTheLock, Same
<1>2. CASE LockIsFresh(p) \/ BreakLock(p)
  BY <1>2, <1>0, <1>t DEF LockIsFresh, BreakLock, Moved
<1>3. CASE Load(p)
  <2>1. pc[p] \in InLock /\ pc'[p] \in AtLock
    BY <1>3, <1>0 DEF Load, Goto
  <2>2. job[p] \in Job
    BY <1>3, <1>j DEF Load, Jobless
  <2>3. job'[p].id = job[p].id /\ job'[p].path = job[p].path /\ job'[p].need = job[p].need
    BY <1>3, <2>2 DEF Load, Job
  <2>. QED
    BY <1>3, <2>1, <2>3 DEF Moved, AtTheLock, Same
<1>4. CASE AppendEvent(p)
  BY <1>4, <1>0 DEF AppendEvent, Goto, Moved, AtTheLock, Same
<1>5. CASE CloseLock(p)
  <2>1. CASE Leave(p)
    BY <2>1, <1>l DEF Moved
  <2>2. CASE Enter(p, "CONTEND")
    <3>1. job[p] \in Job /\ "CONTEND" \in Needs
      BY <1>5, <1>j DEF CloseLock, Jobless, Needs
    <3>. QED
      BY <1>5, <2>2, <3>1, <1>e DEF CloseLock, Moved, GoesOn
  <2>3. CASE job' = job /\ ((job[p].need = "CLAIM" /\ Goto(p, "add")) \/ Goto(p, "inspect"))
    BY <1>5, <2>3 DEF CloseLock, Goto, Moved, GoesOn, Same
  <2>. QED
    BY <1>5, <2>1, <2>2, <2>3 DEF CloseLock
<1>6. CASE GitAdd(p)
  BY <1>6 DEF GitAdd, Goto, Moved, Adds
<1>7. CASE Mark(p)
  <2>1. job[p] \in Job /\ "CREATED" \in Needs
    BY <1>7, <1>j DEF Mark, Jobless, Needs
  <2>2. Enter(p, "CREATED") /\ pc[p] = "mark"
    BY <1>7 DEF Mark
  <2>. QED
    BY <1>7, <2>1, <2>2, <1>e DEF Moved, Marks
<1>8. CASE GitAddFails(p) \/ MarkFails(p) \/ StoreRecord(p) \/ GitRemoveFails(p) \/ Crash(p)
  BY <1>8, <1>l DEF GitAddFails, MarkFails, StoreRecord, GitRemoveFails, Crash, Moved
<1>9. CASE FailAttempt(p) \/ StartAttempt(p)
  BY <1>9 DEF FailAttempt, StartAttempt, Goto, Moved, Idles, JobsHeld, Jobless
<1>10. CASE StorePatch(p)
  <2>. DEFINE d == PathOf(home[p])
  <2>1. job'[p] = Start(home[p], d, "CLAIM", files[d]) /\ pc'[p] = "persist"
    BY <1>10 DEF StorePatch, Goto
  <2>2. job'[p].id = home[p]
    BY <2>1 DEF Start
  <2>. QED
    BY <1>10, <2>1, <2>2 DEF Moved, Persists
<1>11. CASE Inspect(p)
  <2>1. CASE Leave(p)
    BY <2>1, <1>l DEF Moved
  <2>2. CASE MayRemove(job[p]) /\ Goto(p, "remove") /\ job' = job
    BY <1>11, <2>2 DEF Inspect, Goto, Moved, Approves
  <2>. QED
    BY <1>11, <2>1, <2>2 DEF Inspect
<1>12. CASE GitRemove(p)
  <2>1. job[p] \in Job /\ "REMOVED" \in Needs
    BY <1>12, <1>j DEF GitRemove, Jobless, Needs
  <2>2. Enter(p, "REMOVED") /\ pc[p] = "remove"
    BY <1>12 DEF GitRemove
  <2>. QED
    BY <1>12, <2>1, <2>2, <1>e DEF Moved, Removes
<1>13. ASSUME NEW i \in Ids, NEW d \in Paths, CreateWorktree(p, i, d) PROVE Moved(p)
  <2>1. job'[p] = Start(i, d, "CLAIM", 0) /\ pc'[p] = "open"
    BY <1>13 DEF CreateWorktree, Goto
  <2>2. job'[p].id = i /\ job'[p].need = "CLAIM"
    BY <2>1 DEF Start
  <2>. QED
    BY <1>13, <2>1, <2>2 DEF Moved, Creates
<1>14. ASSUME NEW i \in Ids, RemoveWorktree(p, i) PROVE Moved(p)
  <2>1. job'[p] = Start(i, PathOf(i), "FIND", 0) /\ pc'[p] = "open"
    BY <1>14 DEF RemoveWorktree, Goto
  <2>2. job'[p].id = i /\ job'[p].need = "FIND"
    BY <2>1 DEF Start
  <2>. QED
    BY <1>14, <2>1, <2>2 DEF Moved, Cleans
<1>. QED
  BY <1>1, <1>2, <1>3, <1>4, <1>5, <1>6, <1>7, <1>8, <1>9, <1>10, <1>11, <1>12, <1>13, <1>14 DEF Step, Request

\* Which steps touch the registry, git's registrations and the stored patches.
LEMMA Frames ==
    \A p \in Procs : Step(p) \/ Request(p) \/ Crash(p) =>
       /\ registry' = registry \/ AppendEvent(p)
       /\ tree' = tree \/ GitAdd(p) \/ Mark(p) \/ GitRemove(p)
       /\ artifacts \subseteq artifacts' /\ used \subseteq used'
       /\ records' = records \/ StoreRecord(p)
<1>. SUFFICES ASSUME NEW p \in Procs, Step(p) \/ Request(p) \/ Crash(p)
              PROVE  /\ registry' = registry \/ AppendEvent(p)
                     /\ tree' = tree \/ GitAdd(p) \/ Mark(p) \/ GitRemove(p)
                     /\ artifacts \subseteq artifacts' /\ used \subseteq used'
                     /\ records' = records \/ StoreRecord(p)
  OBVIOUS
<1>. USE DEF treeVars, evidenceVars
<1>1. CASE OpenLock(p) \/ LockExists(p) \/ LockIsFresh(p) \/ LockIsStale(p) \/ BreakLock(p)
  BY <1>1 DEF OpenLock, LockExists, LockIsFresh, LockIsStale, BreakLock
<1>2. CASE Load(p) \/ AppendEvent(p) \/ CloseLock(p)
  BY <1>2 DEF Load, AppendEvent, CloseLock
<1>3. CASE GitAdd(p) \/ GitAddFails(p) \/ Mark(p) \/ MarkFails(p)
  BY <1>3 DEF GitAdd, GitAddFails, Mark, MarkFails
<1>4. CASE FailAttempt(p) \/ StorePatch(p) \/ StoreRecord(p)
  BY <1>4 DEF FailAttempt, StorePatch, StoreRecord
<1>5. CASE Inspect(p) \/ GitRemove(p) \/ GitRemoveFails(p)
  BY <1>5 DEF Inspect, GitRemove, GitRemoveFails
<1>6. CASE Request(p) \/ Crash(p)
  BY <1>6 DEF Request, StartAttempt, CreateWorktree, RemoveWorktree, Crash
<1>. QED
  BY <1>1, <1>2, <1>3, <1>4, <1>5, <1>6 DEF Step

\* What a process retains afterwards it retained, worked on, or dropped.
LEMMA HomeStep ==
    TypeOK => \A p \in Procs : Step(p) \/ Request(p) \/ Crash(p) =>
       \/ home'[p] = home[p]
       \/ home'[p] = NoId
       \/ /\ home'[p] = job[p].id
          /\ pc[p] = "close" /\ job[p].need = "CREATED" /\ job[p].ok
<1>. SUFFICES ASSUME TypeOK, NEW p \in Procs, Step(p) \/ Request(p) \/ Crash(p)
              PROVE  \/ home'[p] = home[p]
                     \/ home'[p] = NoId
                     \/ /\ home'[p] = job[p].id
                        /\ pc[p] = "close" /\ job[p].need = "CREATED" /\ job[p].ok
  OBVIOUS
<1>. USE DEF TypeOK
<1>1. CASE OpenLock(p) \/ LockExists(p) \/ LockIsFresh(p) \/ LockIsStale(p) \/ BreakLock(p)
  BY <1>1 DEF OpenLock, LockExists, LockIsFresh, LockIsStale, BreakLock
<1>2. CASE Load(p) \/ AppendEvent(p) \/ CloseLock(p)
  BY <1>2 DEF Load, AppendEvent, CloseLock
<1>3. CASE GitAdd(p) \/ GitAddFails(p) \/ Mark(p) \/ MarkFails(p)
  BY <1>3 DEF GitAdd, GitAddFails, Mark, MarkFails
<1>4. CASE FailAttempt(p) \/ StorePatch(p) \/ StoreRecord(p)
  BY <1>4 DEF FailAttempt, StorePatch, StoreRecord
<1>5. CASE Inspect(p) \/ GitRemove(p) \/ GitRemoveFails(p)
  BY <1>5 DEF Inspect, GitRemove, GitRemoveFails
<1>6. CASE Request(p) \/ Crash(p)
  BY <1>6 DEF Request, StartAttempt, CreateWorktree, RemoveWorktree, Crash
<1>. QED
  BY <1>1, <1>2, <1>3, <1>4, <1>5, <1>6 DEF Step

\* A process acquires an id only freshly, or for a cleanup nobody else does.
LEMMA IdStep ==
    TypeOK /\ Placed => \A p \in Procs : Step(p) \/ Request(p) \/ Crash(p) => \A i \in IdsOf(p)' :
       \/ i \in IdsOf(p)
       \/ i \notin used /\ i \in used'
       \/ Recorded(i) /\ \A q \in Procs : q # p => i \notin IdsOf(q)
<1>. SUFFICES ASSUME TypeOK, Placed, NEW p \in Procs, Step(p) \/ Request(p) \/ Crash(p),
                     NEW i \in {job'[p].id, home'[p]} \ {NoId}, i \notin IdsOf(p)
              PROVE  \/ i \notin used /\ i \in used'
                     \/ Recorded(i) /\ \A q \in Procs : q # p => i \notin IdsOf(q)
  BY DEF IdsOf
<1>1. i # NoId /\ i # job[p].id /\ i # home[p] /\ i = job'[p].id
  BY HomeStep DEF IdsOf
<1>2. Moved(p)
  BY Movement
<1>3. ~Idles(p)
  BY <1>1, JobValues DEF Idles
<1>4. Creates(p) \/ Cleans(p)
  BY <1>1, <1>2, <1>3 DEF Moved, AtTheLock, GoesOn, Adds, Marks, Approves, Removes, Persists, Same
<1>5. CASE Creates(p)
  BY <1>1, <1>5 DEF Creates, CreateWorktree
<1>6. CASE Cleans(p)
  BY <1>1, <1>6 DEF Cleans, RemoveWorktree, IdsOf
<1>. QED
  BY <1>4, <1>5, <1>6

LEMMA ExclusiveStep ==
    TypeOK /\ Placed /\ IdsDrawn /\ IdsExclusive =>
       \A p \in Procs : Step(p) \/ Request(p) \/ Crash(p) => IdsDrawn' /\ IdsExclusive'
<1>. SUFFICES ASSUME TypeOK, Placed, IdsDrawn, IdsExclusive,
                     NEW p \in Procs, Step(p) \/ Request(p) \/ Crash(p)
              PROVE  IdsDrawn' /\ IdsExclusive'
  OBVIOUS
<1>1. \A q \in Procs : q # p => IdsOf(q)' = IdsOf(q)
  BY OthersStay DEF IdsOf
<1>2. used \subseteq used'
  BY Frames
<1>3. \A n \in DOMAIN registry : registry[n].id \in used
  BY DEF IdsDrawn
<1>4. \A n \in DOMAIN registry' : registry'[n].id \in used'
  <2>1. CASE registry' = registry
    BY <1>2, <1>3, <2>1
  <2>2. CASE AppendEvent(p)
    <3>0. pc[p] \notin Jobless
      BY <2>2 DEF AppendEvent, Jobless
    <3>1. job[p].id \in used
      BY <3>0, Busy DEF IdsDrawn
    <3>2. registry \in Seq(RegistryEvent)
      BY DEF TypeOK
    <3>. QED
      BY <1>2, <1>3, <2>2, <3>1, <3>2 DEF AppendEvent
  <2>. QED
    BY <2>1, <2>2, Frames
<1>5. \A i \in IdsOf(p)' : i \in used'
  BY <1>2, IdStep DEF IdsDrawn, Recorded
<1>6. IdsDrawn'
  BY <1>1, <1>2, <1>4, <1>5 DEF IdsDrawn
<1>7. \A q \in Procs : q # p => IdsOf(p)' \cap IdsOf(q)' = {}
  <2>. SUFFICES ASSUME NEW q \in Procs, q # p, NEW i \in IdsOf(p)', i \in IdsOf(q)
                PROVE  FALSE
    BY <1>1
  <2>. QED
    BY IdStep DEF IdsExclusive, IdsDrawn
<1>. QED
  BY <1>1, <1>6, <1>7 DEF IdsExclusive

-----------------------------------------------------------------------------
(* Who owns what git has registered.                                       *)

\* Processes at work on a worktree do not share its id.
LEMMA Apart ==
    Placed /\ IdsExclusive => \A p, q \in Procs :
       p # q /\ pc[p] \notin Jobless /\ pc[q] \notin Jobless => job[p].id # job[q].id
BY Busy DEF IdsExclusive

\* A step leaves the registrations another process relies on.
LEMMA TreeKept ==
    TypeOK /\ Placed /\ IdsExclusive /\ RemoversOwn => \A p, q \in Procs :
       /\ Step(p) \/ Request(p) \/ Crash(p)
       /\ p # q /\ pc[q] \notin Jobless
       /\ tree[job[q].path] # NoTree /\ tree[job[q].path].for = job[q].id
       => tree'[job[q].path] # NoTree /\ tree'[job[q].path].for = job[q].id
<1>. SUFFICES ASSUME TypeOK, Placed, IdsExclusive, RemoversOwn, NEW p \in Procs, NEW q \in Procs,
                     Step(p) \/ Request(p) \/ Crash(p), p # q, pc[q] \notin Jobless,
                     tree[job[q].path] # NoTree, tree[job[q].path].for = job[q].id
              PROVE  tree'[job[q].path] # NoTree /\ tree'[job[q].path].for = job[q].id
  OBVIOUS
<1>. DEFINE d == job[q].path
<1>0. d \in Paths /\ tree[d] \in AdminDir /\ tree \in [Paths -> AdminDir \cup {NoTree}]
  BY Busy DEF TypeOK
<1>1. CASE tree' = tree
  BY <1>1
<1>2. CASE GitAdd(p)
  BY <1>0, <1>2 DEF GitAdd
<1>3. CASE Mark(p)
  <2>. DEFINE e == job[p].path
              t == [tree[e] EXCEPT !.marker = job[p].id]
  <2>1. CASE e # d
    BY <1>0, <1>3, <2>1 DEF Mark
  <2>2. CASE e = d
    <3>1. tree'[d] = t /\ job[p].id \in Ids
      BY <1>0, <1>3, <2>2, Busy DEF Mark, Jobless
    <3>2. t \in AdminDir /\ t.for = tree[d].for
      BY <1>0, <2>2, <3>1 DEF AdminDir
    <3>. QED
      BY <3>1, <3>2, TreesAssumption
  <2>. QED
    BY <2>1, <2>2
<1>4. CASE GitRemove(p)
  <2>1. pc[p] \notin Jobless /\ pc[p] = "remove"
    BY <1>4 DEF GitRemove, Jobless
  <2>2. job[p].id # job[q].id
    BY <2>1, Apart
  <2>3. job[p].path # d
    BY <2>1, <2>2 DEF RemoversOwn
  <2>. QED
    BY <1>0, <1>4, <2>3 DEF GitRemove
<1>. QED
  BY <1>1, <1>2, <1>3, <1>4, Frames

LEMMA OwnersStep ==
    IInv => \A p \in Procs : Step(p) \/ Request(p) \/ Crash(p) => HoldersOwn' /\ RemoversOwn' /\ MarkersOwn'
<1>. SUFFICES ASSUME IInv, NEW p \in Procs, Step(p) \/ Request(p) \/ Crash(p)
              PROVE  HoldersOwn' /\ RemoversOwn' /\ MarkersOwn'
  OBVIOUS
<1>0. Placed /\ Moved(p)
  BY Movement DEF IInv, Placed, TypeOK
<1>a. AtLock = {"open", "stat", "break", "load", "append", "close"} /\ InLock = AtLock \ {"close"}
  BY DEF InLock, AtLock, InSection
<1>1. ASSUME NEW q \in Procs, q # p, Unrecorded(q)' \/ pc'[q] = "remove"
      PROVE  tree'[job'[q].path] # NoTree /\ tree'[job'[q].path].for = job'[q].id
  <2>1. pc'[q] = pc[q] /\ job'[q] = job[q]
    BY <1>1, OthersStay DEF IInv
  <2>2. Unrecorded(q) \/ pc[q] = "remove"
    BY <1>1, <2>1 DEF Unrecorded
  <2>3. pc[q] \notin Jobless
    BY <2>2, <1>a DEF Unrecorded, Jobless
  <2>4. tree[job[q].path] # NoTree /\ tree[job[q].path].for = job[q].id
    BY <2>2 DEF IInv, HoldersOwn, RemoversOwn
  <2>. QED
    BY <1>0, <1>1, <2>1, <2>3, <2>4, TreeKept DEF IInv
<1>2. ASSUME Unrecorded(p)'
      PROVE  tree'[job'[p].path] # NoTree /\ tree'[job'[p].path].for = job'[p].id
  <2>0. pc'[p] = "mark" \/ (pc'[p] \in InLock /\ job'[p].need = "CREATED")
    BY <1>2, <1>a DEF Unrecorded
  <2>1. Adds(p) \/ Marks(p) \/ AtTheLock(p)
    BY <1>0, <1>a, <2>0 DEF Moved, Idles, Jobless, GoesOn, Approves, Removes, Persists, Creates, Cleans
  <2>2. CASE Adds(p)
    <3>1. job[p].path \in Paths /\ tree \in [Paths -> AdminDir \cup {NoTree}] /\ job[p].id \in Ids
      BY <1>0, <2>2, Busy DEF Adds, Jobless, IInv, TypeOK
    <3>2. tree'[job[p].path] = [for |-> job[p].id, marker |-> NoId, head |-> "base"]
      BY <2>2, <3>1 DEF Adds, GitAdd
    <3>3. tree'[job[p].path] \in AdminDir
      BY <3>1, <3>2 DEF AdminDir
    <3>. QED
      BY <2>2, <3>2, <3>3, TreesAssumption DEF Adds
  <2>3. CASE Marks(p)
    <3>1. tree[job[p].path] # NoTree /\ tree[job[p].path].for = job[p].id
      BY <2>3 DEF Marks, IInv, HoldersOwn, Unrecorded
    <3>2. job[p].path \in Paths /\ tree \in [Paths -> AdminDir \cup {NoTree}] /\ job[p].id \in Ids
      BY <1>0, <2>3, Busy DEF Marks, Jobless, IInv, TypeOK
    <3>3. tree'[job[p].path] = [tree[job[p].path] EXCEPT !.marker = job[p].id]
      BY <2>3, <3>2 DEF Marks, Mark
    <3>4. tree'[job[p].path] \in AdminDir /\ tree'[job[p].path].for = tree[job[p].path].for
      BY <3>1, <3>2, <3>3 DEF AdminDir
    <3>. QED
      BY <2>3, <3>1, <3>4, TreesAssumption DEF Marks, Same
  <2>4. CASE AtTheLock(p)
    <3>1. Unrecorded(p)
      BY <2>0, <2>4, <1>a DEF AtTheLock, Unrecorded
    <3>2. tree' = tree
      <4>1. ~GitAdd(p) /\ ~Mark(p) /\ ~GitRemove(p)
        BY <2>4, <1>a DEF AtTheLock, GitAdd, Mark, GitRemove
      <4>. QED
        BY <4>1, Frames
    <3>. QED
      BY <2>4, <3>1, <3>2 DEF AtTheLock, Same, IInv, HoldersOwn
  <2>. QED
    BY <2>1, <2>2, <2>3, <2>4
<1>3. ASSUME pc'[p] = "remove"
      PROVE  tree'[job'[p].path] # NoTree /\ tree'[job'[p].path].for = job'[p].id
  <2>1. Approves(p)
    BY <1>0, <1>3, <1>a DEF Moved, Idles, Jobless, AtTheLock, GoesOn, Adds, Marks, Removes, Persists, Creates, Cleans
  <2>2. tree' = tree
    <3>1. ~GitAdd(p) /\ ~Mark(p) /\ ~GitRemove(p)
      BY <2>1 DEF Approves, GitAdd, Mark, GitRemove
    <3>. QED
      BY <3>1, Frames
  <2>3. tree[job[p].path] # NoTree /\ tree[job[p].path].marker = job[p].id
    BY <2>1 DEF Approves, MayRemove, MarkerBinds
  <2>4. job[p].path \in Paths /\ job[p].id \in Ids
    BY <1>0, <2>1, Busy DEF Approves, Jobless
  <2>5. tree[job[p].path].for = job[p].id
    BY <2>3, <2>4, IdAssumption DEF IInv, MarkersOwn
  <2>. QED
    BY <2>1, <2>2, <2>3, <2>5 DEF Approves
<1>4. MarkersOwn'
  <2>. SUFFICES ASSUME NEW d \in Paths, tree'[d] # NoTree
                PROVE  tree'[d].marker = NoId \/ tree'[d].marker = tree'[d].for
    BY DEF MarkersOwn
  <2>0. tree \in [Paths -> AdminDir \cup {NoTree}] /\ MarkersOwn
    BY DEF IInv, TypeOK
  <2>1. CASE tree' = tree
    BY <2>0, <2>1 DEF MarkersOwn
  <2>2. CASE GitAdd(p)
    BY <2>0, <2>2 DEF GitAdd, MarkersOwn
  <2>3. CASE Mark(p)
    <3>1. tree[job[p].path] # NoTree /\ tree[job[p].path].for = job[p].id
      BY <2>3 DEF Mark, IInv, HoldersOwn, Unrecorded
    <3>2. CASE d = job[p].path
      <4>1. tree'[d] = [tree[d] EXCEPT !.marker = job[p].id] /\ tree[d] \in AdminDir
        BY <2>0, <2>3, <3>1, <3>2 DEF Mark
      <4>. QED
        BY <4>1, <3>1, <3>2 DEF AdminDir
    <3>3. CASE d # job[p].path
      BY <2>0, <2>3, <3>3 DEF Mark, MarkersOwn
    <3>. QED
      BY <3>2, <3>3
  <2>4. CASE GitRemove(p)
    BY <2>0, <2>4 DEF GitRemove, MarkersOwn
  <2>. QED
    BY <2>1, <2>2, <2>3, <2>4, Frames
<1>5. HoldersOwn'
  BY <1>1, <1>2 DEF HoldersOwn
<1>6. RemoversOwn'
  BY <1>1, <1>3 DEF RemoversOwn
<1>. QED
  BY <1>4, <1>5, <1>6

-----------------------------------------------------------------------------
(* What gets into the registry.                                            *)

\* Appending an event activates at most its own record.
LEMMA ActiveAppend ==
    ASSUME NEW reg \in Seq(RegistryEvent), NEW e \in RegistryEvent,
           NEW r \in ActiveRecords(Append(reg, e))
    PROVE  r \in ActiveRecords(reg) \/ (r = e /\ e.event = "CREATED")
<1>. DEFINE A == Append(reg, e)
<1>1. Len(A) = Len(reg) + 1 /\ DOMAIN A = 1..(Len(reg) + 1) /\ DOMAIN reg = 1..Len(reg)
  OBVIOUS
<1>2. \A m \in DOMAIN reg : m \in DOMAIN A /\ A[m] = reg[m]
  OBVIOUS
<1>3. PICK n \in DOMAIN A : r = A[n] /\ Latest(A, n) /\ A[n].event = "CREATED"
  BY DEF ActiveRecords
<1>4. CASE n \in DOMAIN reg
  <2>1. Latest(reg, n)
    BY <1>2, <1>3, <1>4 DEF Latest
  <2>. QED
    BY <1>2, <1>3, <1>4, <2>1 DEF ActiveRecords
<1>5. CASE n = Len(reg) + 1
  <2>1. A[n] = e
    BY <1>5
  <2>. QED
    BY <1>3, <2>1
<1>. QED
  BY <1>1, <1>3, <1>4, <1>5

RecordedIn(reg, i) == \E n \in DOMAIN reg : reg[n].id = i

\* An id gets recorded by an append, and stays recorded.
LEMMA RecordedStep ==
    IInv => \A p \in Procs : Step(p) \/ Request(p) \/ Crash(p) =>
       /\ \A i \in Ids : RecordedIn(registry', i) => RecordedIn(registry, i) \/ (AppendEvent(p) /\ i = job[p].id)
       /\ \A i \in Ids : RecordedIn(registry, i) => RecordedIn(registry', i)
       /\ AppendEvent(p) => RecordedIn(registry', job[p].id)
<1>. SUFFICES ASSUME IInv, NEW p \in Procs, Step(p) \/ Request(p) \/ Crash(p)
              PROVE  /\ \A i \in Ids : RecordedIn(registry', i) => RecordedIn(registry, i) \/ (AppendEvent(p) /\ i = job[p].id)
                     /\ \A i \in Ids : RecordedIn(registry, i) => RecordedIn(registry', i)
                     /\ AppendEvent(p) => RecordedIn(registry', job[p].id)
  OBVIOUS
<1>1. CASE registry' = registry /\ ~AppendEvent(p)
  BY <1>1 DEF RecordedIn, AppendEvent
<1>2. CASE AppendEvent(p)
  <2>. DEFINE e == [id |-> job[p].id, path |-> job[p].path, event |-> job[p].need]
  <2>1. registry' = Append(registry, e) /\ registry \in Seq(RegistryEvent)
    BY <1>2 DEF AppendEvent, IInv, TypeOK
  <2>2. e.id = job[p].id
    OBVIOUS
  <2>. HIDE DEF e
  <2>3. DOMAIN registry' = DOMAIN registry \cup {Len(registry) + 1}
        /\ registry'[Len(registry) + 1] = e
        /\ \A n \in DOMAIN registry : registry'[n] = registry[n]
    BY <2>1
  <2>. QED
    BY <1>2, <2>2, <2>3 DEF RecordedIn
<1>. QED
  BY <1>1, <1>2, Frames

LEMMA FreshStep ==
    IInv => \A p \in Procs : Step(p) \/ Request(p) \/ Crash(p) => CreatesFresh'
<1>. SUFFICES ASSUME IInv, NEW p \in Procs, Step(p) \/ Request(p) \/ Crash(p), NEW q \in Procs,
                     Unrecorded(q)' \/ Claiming(q)'
              PROVE  ~RecordedIn(registry', job'[q].id)
  BY DEF CreatesFresh, Recorded, RecordedIn
<1>0. Placed /\ Moved(p)
  BY Movement DEF IInv, Placed, TypeOK
<1>a. AtLock = {"open", "stat", "break", "load", "append", "close"} /\ InLock = AtLock \ {"close"}
  BY DEF InLock, AtLock, InSection
<1>1. CASE q # p
  <2>1. pc'[q] = pc[q] /\ job'[q] = job[q]
    BY <1>1, OthersStay DEF IInv
  <2>2. Unrecorded(q) \/ Claiming(q)
    BY <2>1 DEF Unrecorded, Claiming
  <2>3. pc[q] \notin Jobless
    BY <2>2, <1>a DEF Unrecorded, Claiming, Jobless
  <2>4. AppendEvent(p) => job[p].id # job[q].id
    BY <1>0, <1>1, <2>3, Apart DEF IInv, AppendEvent, Jobless
  <2>5. ~RecordedIn(registry, job[q].id) /\ job[q].id \in Ids
    BY <1>0, <2>2, <2>3, Busy DEF IInv, CreatesFresh, Recorded, RecordedIn
  <2>. QED
    BY <2>1, <2>4, <2>5, RecordedStep
<1>2. CASE q = p
  <2>1. CASE Creates(p)
    <3>1. PICK i \in Ids, d \in Paths : CreateWorktree(p, i, d) /\ job'[p].id = i
      BY <2>1 DEF Creates
    <3>2. ~RecordedIn(registry, i) /\ registry' = registry
      BY <3>1 DEF CreateWorktree, IInv, IdsDrawn, RecordedIn
    <3>. QED
      BY <1>2, <3>1, <3>2 DEF RecordedIn
  <2>2. CASE ~Creates(p)
    <3>1. \/ Adds(p) \/ Marks(p) \/ AtTheLock(p)
          \/ (GoesOn(p) /\ pc'[p] = "add")
      BY <1>0, <1>a, <1>2, <2>2 DEF Moved, Unrecorded, Claiming, Idles, Jobless, GoesOn, Approves, Removes, Persists, Cleans
    <3>2. (Unrecorded(p) \/ Claiming(p)) /\ job'[p].id = job[p].id /\ ~AppendEvent(p)
      <4>1. CASE Adds(p)
        BY <4>1 DEF Adds, Claiming, AppendEvent
      <4>2. CASE Marks(p)
        BY <4>2 DEF Marks, Same, Unrecorded, AppendEvent
      <4>3. CASE GoesOn(p) /\ pc'[p] = "add"
        BY <4>3, <1>a DEF GoesOn, Same, Claiming, AppendEvent
      <4>4. CASE AtTheLock(p)
        <5>1. ~AppendEvent(p)
          BY <1>a, <1>2, <4>4 DEF AtTheLock, AppendEvent, Goto, Unrecorded, Claiming, IInv, AppendNeeds, TypeOK
        <5>. QED
          BY <1>a, <1>2, <4>4, <5>1 DEF AtTheLock, Same, Unrecorded, Claiming
      <4>. QED
        BY <3>1, <4>1, <4>2, <4>3, <4>4
    <3>3. pc[p] \notin Jobless
      BY <3>2, <1>a DEF Unrecorded, Claiming, Jobless
    <3>4. ~RecordedIn(registry, job[p].id) /\ job[p].id \in Ids
      BY <1>0, <3>2, <3>3, Busy DEF IInv, CreatesFresh, Recorded, RecordedIn
    <3>. QED
      BY <1>2, <3>2, <3>4, RecordedStep
  <2>. QED
    BY <2>1, <2>2
<1>. QED
  BY <1>1, <1>2

LEMMA ClaimStep ==
    IInv => \A p \in Procs : Step(p) \/ Request(p) \/ Crash(p) => AppendsUnclaimed' /\ PathClaimedOnce'
<1>. SUFFICES ASSUME IInv, NEW p \in Procs, Step(p) \/ Request(p) \/ Crash(p)
              PROVE  AppendsUnclaimed' /\ PathClaimedOnce'
  OBVIOUS
<1>0. Placed /\ Moved(p)
  BY Movement DEF IInv, Placed, TypeOK
<1>a. AtLock = {"open", "stat", "break", "load", "append", "close"} /\ InLock = AtLock \ {"close"}
  BY DEF InLock, AtLock, InSection
<1>. DEFINE e == [id |-> job[p].id, path |-> job[p].path, event |-> job[p].need]
<1>e. ASSUME AppendEvent(p)
      PROVE  /\ pc[p] = "append" /\ pc[p] \notin Jobless
             /\ e.id = job[p].id /\ e.path = job[p].path /\ e.event = job[p].need
             /\ \A r \in ActiveRecords(registry') : r \in ActiveRecords(registry) \/ (r = e /\ e.event = "CREATED")
  <2>1. pc[p] = "append" /\ pc[p] \notin Jobless
    BY <1>e DEF AppendEvent, Jobless
  <2>2. e \in RegistryEvent
    BY <1>0, <2>1, Busy DEF IInv, AppendNeeds, RegistryEvent
  <2>3. registry' = Append(registry, e) /\ registry \in Seq(RegistryEvent)
    BY <1>e DEF AppendEvent, IInv, TypeOK
  <2>. QED
    BY <2>1, <2>2, <2>3, ActiveAppend
<1>. HIDE DEF e
<1>1. ASSUME NEW q \in Procs, q # p, pc'[q] = "append", job'[q].need = "CREATED"
      PROVE  Claimants(registry', job'[q].id, job'[q].path) = {}
  <2>1. pc[q] = "append" /\ job'[q] = job[q] /\ job[q].need = "CREATED"
    BY <1>1, OthersStay DEF IInv
  <2>2. Claimants(registry, job[q].id, job[q].path) = {}
    BY <2>1 DEF IInv, AppendsUnclaimed
  <2>3. CASE registry' = registry
    BY <2>1, <2>2, <2>3
  <2>4. CASE AppendEvent(p)
    <3>1. job[p].id # job[q].id
      BY <1>0, <1>1, <2>1, <2>4, <1>e, Apart DEF IInv, Jobless
    <3>2. e.event = "CREATED" => job[p].path # job[q].path
      BY <1>a, <1>e, <2>1, <2>4, <3>1 DEF IInv, HoldersOwn, Unrecorded
    <3>. QED
      BY <1>e, <2>1, <2>2, <2>4, <3>2 DEF Claimants
  <2>. QED
    BY <2>3, <2>4, Frames
<1>2. ASSUME pc'[p] = "append", job'[p].need = "CREATED"
      PROVE  Claimants(registry', job'[p].id, job'[p].path) = {}
  <2>1. AtTheLock(p)
    BY <1>0, <1>2, <1>a DEF Moved, Idles, Jobless, GoesOn, Adds, Marks, Approves, Removes, Persists, Creates, Cleans
  <2>2. Load(p) /\ job[p].need = "CREATED" /\ Same(p)
    BY <1>2, <2>1 DEF AtTheLock
  <2>3. Accepts(job[p]) /\ registry' = registry
    BY <1>2, <2>2 DEF Load, Goto, IInv, TypeOK
  <2>. QED
    BY <2>2, <2>3 DEF Accepts, Same
<1>3. AppendsUnclaimed'
  BY <1>1, <1>2 DEF AppendsUnclaimed, Claimants
<1>4. PathClaimedOnce'
  <2>1. CASE registry' = registry
    BY <2>1 DEF IInv, PathClaimedOnce
  <2>2. CASE AppendEvent(p)
    <3>1. e.event = "CREATED" => Claimants(registry, job[p].id, job[p].path) = {}
      BY <1>e, <2>2 DEF IInv, AppendsUnclaimed
    <3>2. \A r, s \in ActiveRecords(registry) : r.path = s.path => r.id = s.id
      BY DEF IInv, PathClaimedOnce
    <3>3. \A s \in ActiveRecords(registry) : e.event = "CREATED" /\ e.path = s.path => e.id = s.id
      BY <1>e, <2>2, <3>1 DEF Claimants
    <3>4. \A r, s \in ActiveRecords(registry') : r.path = s.path => r.id = s.id
      BY <1>e, <2>2, <3>2, <3>3
    <3>. QED
      BY <3>4 DEF PathClaimedOnce
  <2>. QED
    BY <2>1, <2>2, Frames
<1>. QED
  BY <1>3, <1>4

LEMMA HomesRecordedStep ==
    IInv => \A p \in Procs : Step(p) \/ Request(p) \/ Crash(p) => HomesRecorded'
<1>. SUFFICES ASSUME IInv, NEW p \in Procs, Step(p) \/ Request(p) \/ Crash(p)
              PROVE  HomesRecorded'
  OBVIOUS
<1>0. Placed /\ Moved(p)
  BY Movement DEF IInv, Placed, TypeOK
<1>a. AtLock = {"open", "stat", "break", "load", "append", "close"} /\ InLock = AtLock \ {"close"}
  BY DEF InLock, AtLock, InSection
<1>o. \A q \in Procs : q # p => pc'[q] = pc[q] /\ job'[q] = job[q] /\ home'[q] = home[q]
  BY OthersStay DEF IInv
<1>r. \A i \in Ids : RecordedIn(registry, i) => RecordedIn(registry', i)
  BY RecordedStep
<1>h. \A q \in Procs : home[q] # NoId => home[q] \in Ids /\ RecordedIn(registry, home[q])
  BY DEF IInv, TypeOK, HomesRecorded, Recorded, RecordedIn
<1>1. ASSUME NEW q \in Procs, home'[q] # NoId PROVE RecordedIn(registry', home'[q])
  <2>1. CASE q # p \/ home'[p] = home[p]
    BY <1>1, <2>1, <1>o, <1>r, <1>h
  <2>2. CASE q = p /\ home'[p] # home[p]
    <3>1. home'[p] = job[p].id /\ pc[p] = "close" /\ job[p].need = "CREATED" /\ job[p].ok
      BY <1>1, <2>2, HomeStep DEF IInv
    <3>2. RecordedIn(registry, job[p].id)
      BY <3>1 DEF IInv, HomesRecorded, Recorded, RecordedIn
    <3>3. job[p].id \in Ids
      BY <1>0, <3>1, Busy DEF Jobless
    <3>. QED
      BY <2>2, <3>1, <3>2, <3>3, <1>r
  <2>. QED
    BY <2>1, <2>2
<1>2. ASSUME NEW q \in Procs, pc'[q] = "worker" PROVE home'[q] # NoId
  <2>1. CASE q # p
    BY <1>2, <2>1, <1>o DEF IInv, HomesRecorded
  <2>2. CASE q = p
    <3>1. StartAttempt(p)
      BY <1>0, <1>2, <1>a, <2>2 DEF Moved, Idles, AtTheLock, GoesOn, Adds, Marks, Approves, Removes, Persists, Creates, Cleans
    <3>. QED
      BY <2>2, <3>1 DEF StartAttempt
  <2>. QED
    BY <2>1, <2>2
<1>3. ASSUME NEW q \in Procs, pc'[q] = "close", job'[q].need = "CREATED", job'[q].ok
      PROVE  RecordedIn(registry', job'[q].id)
  <2>1. CASE q # p
    <3>1. pc[q] = "close" /\ job'[q] = job[q]
      BY <1>3, <2>1, <1>o
    <3>2. RecordedIn(registry, job[q].id)
      BY <1>3, <3>1 DEF IInv, HomesRecorded, Recorded, RecordedIn
    <3>3. job[q].id \in Ids
      BY <1>0, <3>1, Busy DEF Jobless
    <3>. QED
      BY <3>1, <3>2, <3>3, <1>r
  <2>2. CASE q = p
    <3>1. AtTheLock(p)
      BY <1>0, <1>3, <1>a, <2>2 DEF Moved, Idles, Jobless, GoesOn, Adds, Marks, Approves, Removes, Persists, Creates, Cleans
    <3>2. CASE AppendEvent(p)
      BY <2>2, <3>1, <3>2, RecordedStep DEF AtTheLock, Same
    <3>3. CASE Load(p)
      <4>1. job[p] \in Job
        BY <1>0, <3>3, Busy DEF Load, Jobless
      <4>2. job'[p].ok = Accepts(job[p]) /\ job[p].need = "CREATED"
        <5>. DEFINE j == [job[p] EXCEPT !.ok = Accepts(job[p])]
        <5>1. job'[p] = j
          BY <1>0, <3>3 DEF Load, Placed
        <5>2. j.ok = Accepts(job[p])
          BY <4>1 DEF Job
        <5>3. job[p].need = "CREATED"
          BY <1>3, <2>2, <3>1 DEF AtTheLock
        <5>. HIDE DEF j
        <5>. QED
          BY <5>1, <5>2, <5>3
      <4>3. pc'[p] = "append"
        BY <1>3, <2>2, <3>3, <4>2 DEF Load, Goto, IInv, TypeOK
      <4>. QED
        BY <1>3, <2>2, <4>3
    <3>. QED
      BY <1>3, <2>2, <3>1, <3>2, <3>3 DEF AtTheLock
  <2>. QED
    BY <2>1, <2>2
<1>. QED
  BY <1>1, <1>2, <1>3 DEF HomesRecorded, Recorded, RecordedIn

LEMMA EvidenceStep ==
    IInv => \A p \in Procs : Step(p) \/ Request(p) \/ Crash(p) =>
       AppendNeeds' /\ PersistsStored' /\ RecordsHavePatches'
<1>. SUFFICES ASSUME IInv, NEW p \in Procs, Step(p) \/ Request(p) \/ Crash(p)
              PROVE  AppendNeeds' /\ PersistsStored' /\ RecordsHavePatches'
  OBVIOUS
<1>0. Placed /\ Moved(p)
  BY Movement DEF IInv, Placed, TypeOK
<1>a. AtLock = {"open", "stat", "break", "load", "append", "close"} /\ InLock = AtLock \ {"close"}
  BY DEF InLock, AtLock, InSection
<1>o. \A q \in Procs : q # p => pc'[q] = pc[q] /\ job'[q] = job[q]
  BY OthersStay DEF IInv
<1>g. artifacts \subseteq artifacts'
  BY Frames
<1>1. ASSUME pc'[p] = "append" PROVE job'[p].need \in {"CREATED", "REMOVED"}
  <2>1. AtTheLock(p)
    BY <1>0, <1>1, <1>a DEF Moved, Idles, Jobless, GoesOn, Adds, Marks, Approves, Removes, Persists, Creates, Cleans
  <2>2. Load(p)
    BY <1>1, <2>1 DEF AtTheLock
  <2>3. job[p].need \in {"CREATED", "REMOVED"}
    BY <1>1, <2>2 DEF Load, Goto, IInv, TypeOK
  <2>. QED
    BY <2>1, <2>3 DEF AtTheLock
<1>2. AppendNeeds'
  BY <1>1, <1>o DEF AppendNeeds, IInv
<1>3. ASSUME pc'[p] = "persist" PROVE job'[p].patch \in artifacts'
  <2>. DEFINE d == PathOf(home[p])
  <2>1. StorePatch(p)
    BY <1>0, <1>3, <1>a DEF Moved, Persists, Idles, Jobless, AtTheLock, GoesOn, Adds, Marks, Approves, Removes, Creates, Cleans
  <2>2. job'[p] = Start(home[p], d, "CLAIM", files[d]) /\ artifacts' = artifacts \cup {files[d]}
    BY <2>1, <1>0 DEF StorePatch, Placed
  <2>3. job'[p].patch = files[d]
    BY <2>2 DEF Start
  <2>. QED
    BY <2>2, <2>3
<1>4. PersistsStored'
  BY <1>3, <1>o, <1>g DEF PersistsStored, IInv
<1>5. RecordsHavePatches'
  <2>1. CASE records' = records
    BY <2>1, <1>g DEF IInv, RecordsHavePatches
  <2>2. CASE StoreRecord(p)
    BY <2>2, <1>g DEF StoreRecord, IInv, RecordsHavePatches, PersistsStored
  <2>. QED
    BY <2>1, <2>2, Frames
<1>. QED
  BY <1>2, <1>4, <1>5

-----------------------------------------------------------------------------
KeepsTrees ==
    /\ tree' \in [Paths -> AdminDir \cup {NoTree}]
    /\ \A d \in Paths : /\ tree[d] = NoTree <=> tree'[d] = NoTree
                        /\ tree[d] # NoTree => /\ tree'[d].for = tree[d].for
                                               /\ tree'[d].marker = tree[d].marker

\* What happens around the controllers keeps git's registrations.
LEMMA EnvironmentKeeps ==
    IInv /\ (LockAges \/ (\E i \in Ids : Write(i) \/ MoveHead(i)) \/ (\E d \in Paths : Vanish(d)))
      => KeepsTrees
<1>. SUFFICES ASSUME IInv,
                     LockAges \/ (\E i \in Ids : Write(i) \/ MoveHead(i)) \/ (\E d \in Paths : Vanish(d))
              PROVE  KeepsTrees
  OBVIOUS
<1>. USE DEF KeepsTrees
<1>1. CASE tree' = tree
  BY <1>1 DEF IInv, TypeOK
<1>2. ASSUME NEW i \in Ids, MoveHead(i) PROVE KeepsTrees
  <2>. DEFINE e == PathOf(i)
  <2>1. tree' = [tree EXCEPT ![e] = [tree[e] EXCEPT !.head = "moved"]] /\ tree[e] # NoTree
    BY <1>2 DEF MoveHead
  <2>2. tree \in [Paths -> AdminDir \cup {NoTree}]
    BY DEF IInv, TypeOK
  <2>. HIDE DEF e
  <2>3. CASE e \in Paths
    <3>1. tree[e] \in AdminDir
      BY <2>1, <2>2, <2>3
    <3>. DEFINE t == [tree[e] EXCEPT !.head = "moved"]
    <3>2. t \in AdminDir /\ t.for = tree[e].for /\ t.marker = tree[e].marker
      BY <3>1 DEF AdminDir
    <3>3. t # NoTree
      BY <3>2, TreesAssumption
    <3>4. tree' = [tree EXCEPT ![e] = t]
      BY <2>1
    <3>. HIDE DEF t
    <3>. QED
      BY <2>1, <2>2, <2>3, <3>2, <3>3, <3>4
  <2>4. CASE e \notin Paths
    BY <2>1, <2>2, <2>4
  <2>. QED
    BY <2>3, <2>4
<1>. QED
  BY <1>1, <1>2 DEF LockAges, Write, Vanish, treeVars

\* What happens around the controllers disturbs nothing of this.
LEMMA EnvironmentStep ==
    IInv /\ (LockAges \/ (\E i \in Ids : Write(i) \/ MoveHead(i)) \/ (\E d \in Paths : Vanish(d)))
      => IInv'
<1>. SUFFICES ASSUME IInv,
                     LockAges \/ (\E i \in Ids : Write(i) \/ MoveHead(i)) \/ (\E d \in Paths : Vanish(d))
              PROVE  IInv'
  OBVIOUS
<1>1. UNCHANGED <<registry, used, pc, job, home, live, evidenceVars, crashes>>
  BY DEF LockAges, Write, MoveHead, Vanish
<1>2. KeepsTrees
  BY EnvironmentKeeps
<1>3. files' \in [Paths -> Content \cup {Missing}] /\ lockFile' \in {"absent", "fresh", "stale"}
  <2>1. CASE LockAges
    BY <2>1 DEF LockAges, treeVars, IInv, TypeOK
  <2>2. ASSUME NEW i \in Ids, Write(i) \/ MoveHead(i) PROVE <1>3!1 /\ <1>3!2
    <3>1. CASE MoveHead(i)
      BY <3>1 DEF MoveHead, IInv, TypeOK
    <3>2. CASE Write(i)
      <4>1. files[PathOf(i)] + 1 \in Content
        BY <3>2, BoundsAssumption DEF Write, Content
      <4>. QED
        BY <3>2, <4>1 DEF Write, IInv, TypeOK
    <3>. QED
      BY <2>2, <3>1, <3>2
  <2>3. ASSUME NEW d \in Paths, Vanish(d) PROVE <1>3!1 /\ <1>3!2
    BY <2>3 DEF Vanish, IInv, TypeOK
  <2>. QED
    BY <2>1, <2>2, <2>3
<1>4. TypeOK'
  BY <1>1, <1>2, <1>3 DEF IInv, TypeOK, evidenceVars, KeepsTrees
<1>5. (JobsHeld /\ AppendNeeds /\ IdsDrawn /\ IdsExclusive /\ CreatesFresh /\ AppendsUnclaimed
       /\ HomesRecorded /\ PathClaimedOnce /\ PersistsStored /\ RecordsHavePatches)'
  BY <1>1 DEF IInv, JobsHeld, AppendNeeds, IdsDrawn, IdsOf, IdsExclusive, CreatesFresh, Unrecorded, Claiming,
       Recorded, AppendsUnclaimed, HomesRecorded, PathClaimedOnce, PersistsStored, RecordsHavePatches, evidenceVars,
       Claimants, ActiveRecords, Latest
<1>6. \A p \in Procs : pc[p] \notin Jobless => job[p].path \in Paths
  BY Busy DEF IInv, TypeOK, Placed
<1>7. AtLock = {"open", "stat", "break", "load", "append", "close"}
  BY DEF AtLock, InSection
<1>8. HoldersOwn'
  BY <1>1, <1>2, <1>6, <1>7 DEF KeepsTrees, IInv, HoldersOwn, Unrecorded, Jobless
<1>9. RemoversOwn'
  BY <1>1, <1>2, <1>6 DEF KeepsTrees, IInv, RemoversOwn, Jobless
<1>10. MarkersOwn'
  BY <1>2 DEF KeepsTrees, IInv, MarkersOwn
<1>. QED
  BY <1>4, <1>5, <1>8, <1>9, <1>10 DEF IInv

LEMMA Initially == Init => IInv
<1>. SUFFICES ASSUME Init PROVE IInv
  OBVIOUS
<1>. USE DEF Init
<1>1. registry = <<>> /\ DOMAIN registry = {} /\ registry \in Seq(RegistryEvent)
  OBVIOUS
<1>2. TypeOK
  BY <1>1, BoundsAssumption DEF TypeOK, Places
<1>3. \A p \in Procs : pc[p] = "idle" /\ job[p] = NoJob /\ job[p].id = NoId /\ home[p] = NoId /\ IdsOf(p) = {}
  BY DEF NoJob, IdsOf
<1>4. "idle" \notin AtLock
  BY DEF AtLock, InSection
<1>5. JobsHeld /\ AppendNeeds /\ IdsDrawn /\ IdsExclusive
  BY <1>1, <1>3 DEF JobsHeld, Jobless, AppendNeeds, IdsDrawn, IdsExclusive
<1>6. HoldersOwn /\ RemoversOwn /\ MarkersOwn /\ CreatesFresh /\ AppendsUnclaimed /\ HomesRecorded
  BY <1>3, <1>4 DEF HoldersOwn, RemoversOwn, MarkersOwn, CreatesFresh, AppendsUnclaimed, HomesRecorded, Unrecorded, Claiming
<1>7. ActiveRecords(registry) = {}
  BY <1>1 DEF ActiveRecords
<1>8. PathClaimedOnce /\ PersistsStored /\ RecordsHavePatches
  BY <1>3, <1>7 DEF PathClaimedOnce, PersistsStored, RecordsHavePatches
<1>. QED
  BY <1>2, <1>5, <1>6, <1>8 DEF IInv

LEMMA NextStep == IInv /\ [Next]_vars => IInv'
<1>. SUFFICES ASSUME IInv, [Next]_vars PROVE IInv'
  OBVIOUS
<1>0. Placed
  BY DEF IInv, Placed, TypeOK
<1>1. CASE UNCHANGED vars
  <2>1. /\ registry' = registry /\ lockFile' = lockFile /\ tree' = tree /\ files' = files /\ used' = used
        /\ pc' = pc /\ job' = job /\ home' = home /\ live' = live /\ artifacts' = artifacts
        /\ records' = records /\ crashes' = crashes
    BY <1>1 DEF vars, treeVars, evidenceVars
  <2>2. TypeOK'
    BY <2>1 DEF IInv, TypeOK
  <2>3. (JobsHeld /\ AppendNeeds /\ IdsDrawn /\ IdsExclusive /\ HomesRecorded /\ PersistsStored /\ RecordsHavePatches)'
    BY <2>1 DEF IInv, JobsHeld, AppendNeeds, IdsDrawn, IdsOf, IdsExclusive, HomesRecorded, Recorded,
         PersistsStored, RecordsHavePatches
  <2>4. (HoldersOwn /\ MarkersOwn /\ RemoversOwn /\ CreatesFresh)'
    BY <2>1 DEF IInv, HoldersOwn, Unrecorded, MarkersOwn, RemoversOwn, CreatesFresh, Claiming, Recorded
  <2>5. (AppendsUnclaimed /\ PathClaimedOnce)'
    BY <2>1 DEF IInv, AppendsUnclaimed, Claimants, ActiveRecords, Latest, PathClaimedOnce
  <2>. QED
    BY <2>2, <2>3, <2>4, <2>5 DEF IInv
<1>2. ASSUME NEW p \in Procs, Step(p) \/ Request(p) \/ Crash(p) PROVE IInv'
  <2>1. TypeOK'
    BY <1>0, <1>2, TypeStep DEF IInv
  <2>2. JobsHeld'
    BY <1>0, <1>2, PlacedStep DEF IInv, Placed
  <2>3. IdsDrawn' /\ IdsExclusive'
    BY <1>0, <1>2, ExclusiveStep DEF IInv
  <2>4. HoldersOwn' /\ RemoversOwn' /\ MarkersOwn'
    BY <1>2, OwnersStep
  <2>5. CreatesFresh' /\ AppendsUnclaimed' /\ PathClaimedOnce' /\ HomesRecorded'
    BY <1>2, FreshStep, ClaimStep, HomesRecordedStep
  <2>6. AppendNeeds' /\ PersistsStored' /\ RecordsHavePatches'
    BY <1>2, EvidenceStep
  <2>. QED
    BY <2>1, <2>2, <2>3, <2>4, <2>5, <2>6 DEF IInv
<1>3. CASE LockAges \/ (\E i \in Ids : Write(i) \/ MoveHead(i)) \/ (\E d \in Paths : Vanish(d))
  BY <1>3, EnvironmentStep
<1>. QED
  BY <1>1, <1>2, <1>3 DEF Next, Environment

-----------------------------------------------------------------------------
(* The types hold in every reachable state, whatever locks are broken.     *)
THEOREM TypeCorrect == Spec => []TypeOK
<1>1. IInv => TypeOK
  BY DEF IInv
<1>. QED
  BY <1>1, Initially, NextStep, PTL DEF Spec

(* Two open lifecycles never claim one path, for any number of controllers *)
(* that break each other's registry locks, die and reuse paths.            *)
THEOREM ClaimedOnce == Spec => []PathClaimedOnce
<1>1. IInv => PathClaimedOnce
  BY DEF IInv
<1>. QED
  BY <1>1, Initially, NextStep, PTL DEF Spec

(* Evidence records never refer to a patch that is not stored.             *)
THEOREM EvidenceComplete == Spec => []RecordsHavePatches
<1>1. IInv => RecordsHavePatches
  BY DEF IInv
<1>. QED
  BY <1>1, Initially, NextStep, PTL DEF Spec

\* A worktree disappears by a removal of the lifecycle that made it.
LEMMA RemovalStep ==
    IInv /\ Next => \A d \in Paths : tree[d] # NoTree /\ tree'[d] = NoTree =>
       \E p \in Procs : pc[p] = "remove" /\ job[p].id = tree[d].for /\ job[p].path = d
<1>. SUFFICES ASSUME IInv, Next, NEW d \in Paths, tree[d] # NoTree, tree'[d] = NoTree
              PROVE  \E p \in Procs : pc[p] = "remove" /\ job[p].id = tree[d].for /\ job[p].path = d
  OBVIOUS
<1>0. tree \in [Paths -> AdminDir \cup {NoTree}] /\ IInv'
  BY NextStep DEF IInv, TypeOK
<1>1. ASSUME NEW p \in Procs, Step(p) \/ Request(p) \/ Crash(p)
      PROVE  GitRemove(p)
  <2>1. CASE GitAdd(p)
    BY <1>0, <2>1, TreesAssumption DEF GitAdd
  <2>2. CASE Mark(p)
    <3>1. CASE d = job[p].path
      <4>. DEFINE t == [tree[d] EXCEPT !.marker = job[p].id]
      <4>1. tree'[d] = t /\ tree[d] \in AdminDir /\ job[p].id \in Ids
        BY <1>0, <2>2, <3>1, Busy DEF Mark, Jobless, IInv, TypeOK, Placed
      <4>2. t \in AdminDir
        BY <4>1 DEF AdminDir
      <4>. HIDE DEF t
      <4>. QED
        BY <4>1, <4>2, TreesAssumption
    <3>2. CASE d # job[p].path
      BY <1>0, <2>2, <3>2 DEF Mark
    <3>. QED
      BY <3>1, <3>2
  <2>. QED
    BY <1>1, <2>1, <2>2, Frames
<1>2. ASSUME NEW p \in Procs, Step(p) \/ Request(p) \/ Crash(p)
      PROVE  pc[p] = "remove" /\ job[p].id = tree[d].for /\ job[p].path = d
  <2>1. GitRemove(p)
    BY <1>1, <1>2
  <2>2. pc[p] = "remove" /\ job[p].path = d
    BY <1>0, <2>1 DEF GitRemove
  <2>. QED
    BY <2>2 DEF IInv, RemoversOwn
<1>3. CASE LockAges \/ (\E i \in Ids : Write(i) \/ MoveHead(i)) \/ (\E c \in Paths : Vanish(c))
  <2>1. tree'[d] # NoTree
    BY <1>3, EnvironmentKeeps DEF KeepsTrees
  <2>. QED
    BY <2>1
<1>. QED
  BY <1>2, <1>3 DEF Next, Environment

(* Cleanup only ever removes the worktree of the id being cleaned up.      *)
THEOREM OwnRemoval == Spec => RemovesOnlyItsOwn
<1>1. IInv /\ [Next]_vars => [\A d \in Paths : tree[d] # NoTree /\ tree'[d] = NoTree =>
          \E p \in Procs : pc[p] = "remove" /\ job[p].id = tree[d].for /\ job[p].path = d]_vars
  BY RemovalStep
<1>. QED
  BY <1>1, Initially, NextStep, PTL DEF Spec, RemovesOnlyItsOwn
-----------------------------------------------------------------------------
(* What the registry says of an id: its path, and whether it is open.      *)

EventOf(j) == [id |-> j.id, path |-> j.path, event |-> j.need]
OnePathIn(reg) == \A m, n \in DOMAIN reg : reg[m].id = reg[n].id => reg[m].path = reg[n].path
PathIn(reg, i) == (CHOOSE r \in {reg[n] : n \in DOMAIN reg} : r.id = i).path

\* Where an appended event stands.
LEMMA Appended ==
    ASSUME NEW reg \in Seq(RegistryEvent), NEW e \in RegistryEvent
    PROVE  /\ Len(reg) \in Nat /\ DOMAIN reg = 1..Len(reg)
           /\ DOMAIN Append(reg, e) = 1..(Len(reg) + 1)
           /\ Append(reg, e)[Len(reg) + 1] = e
           /\ \A n \in DOMAIN reg : Append(reg, e)[n] = reg[n]
OBVIOUS

\* An event opens or closes no other id than its own.
LEMMA ActiveOther ==
    ASSUME NEW reg \in Seq(RegistryEvent), NEW e \in RegistryEvent, NEW i, i # e.id
    PROVE  Active(Append(reg, e), i) <=> Active(reg, i)
<1>. DEFINE A == Append(reg, e)
<1>1. ASSUME Active(A, i) PROVE Active(reg, i)
  BY <1>1, ActiveAppend DEF Active
<1>2. ASSUME Active(reg, i) PROVE Active(A, i)
  <2>1. PICK n \in DOMAIN reg : Latest(reg, n) /\ reg[n].event = "CREATED" /\ reg[n].id = i
    BY <1>2 DEF Active, ActiveRecords
  <2>2. n \in DOMAIN A /\ A[n] = reg[n]
    BY Appended
  <2>3. ASSUME NEW m \in DOMAIN A, A[m].id = A[n].id PROVE m <= n
    <3>1. m # Len(reg) + 1
      BY <2>1, <2>2, <2>3, Appended
    <3>2. m \in DOMAIN reg /\ A[m] = reg[m]
      BY <3>1, Appended
    <3>. QED
      BY <2>1, <2>2, <2>3, <3>2 DEF Latest
  <2>4. Latest(A, n) /\ A[n].event = "CREATED" /\ A[n].id = i
    BY <2>1, <2>2, <2>3 DEF Latest
  <2>. HIDE DEF A
  <2>. QED
    BY <2>2, <2>4 DEF Active, ActiveRecords
<1>. QED
  BY <1>1, <1>2

\* CREATED opens its id and REMOVED closes it.
LEMMA ActiveOwn ==
    ASSUME NEW reg \in Seq(RegistryEvent), NEW e \in RegistryEvent
    PROVE  Active(Append(reg, e), e.id) <=> e.event = "CREATED"
<1>. DEFINE A == Append(reg, e)
            l == Len(reg) + 1
<1>1. DOMAIN A = 1..l /\ l \in Nat /\ A[l] = e /\ l \in DOMAIN A
  BY Appended
<1>. HIDE DEF A, l
<1>2. Latest(A, l)
  BY <1>1 DEF Latest
<1>3. ASSUME e.event = "CREATED" PROVE Active(A, e.id)
  BY <1>1, <1>2, <1>3 DEF Active, ActiveRecords
<1>4. ASSUME Active(A, e.id) PROVE e.event = "CREATED"
  <2>1. PICK n \in DOMAIN A : Latest(A, n) /\ A[n].event = "CREATED" /\ A[n].id = e.id
    BY <1>4 DEF Active, ActiveRecords
  <2>2. l <= n
    BY <1>1, <2>1 DEF Latest
  <2>3. n = l
    BY <1>1, <2>2
  <2>. QED
    BY <1>1, <2>1, <2>3
<1>. QED
  BY <1>3, <1>4 DEF A

\* An open id is recorded.
LEMMA ActiveRecorded == ASSUME NEW reg, NEW i, Active(reg, i) PROVE RecordedIn(reg, i)
BY DEF Active, ActiveRecords, RecordedIn

\* When every record of an id has one path, that is the path of the id.
LEMMA PathKnown ==
    ASSUME NEW reg, OnePathIn(reg), NEW n \in DOMAIN reg
    PROVE  PathIn(reg, reg[n].id) = reg[n].path
<1>. DEFINE R == {reg[m] : m \in DOMAIN reg}
            c == CHOOSE r \in R : r.id = reg[n].id
<1>1. c \in R /\ c.id = reg[n].id
  OBVIOUS
<1>2. PICK m \in DOMAIN reg : c = reg[m]
  BY <1>1
<1>. HIDE DEF c
<1>3. c.path = reg[n].path
  BY <1>1, <1>2 DEF OnePathIn
<1>. QED
  BY <1>3 DEF c, PathIn

\* What AppendEvent appends.
LEMMA Appending ==
    IInv => \A p \in Procs : AppendEvent(p) =>
       /\ EventOf(job[p]) \in RegistryEvent
       /\ registry \in Seq(RegistryEvent) /\ registry' = Append(registry, EventOf(job[p]))
       /\ pc[p] = "append" /\ pc'[p] = "close" /\ job' = job /\ home' = home
       /\ job[p].need \in {"CREATED", "REMOVED"}
       /\ job[p].id \in IdsOf(p)
<1>. SUFFICES ASSUME IInv, NEW p \in Procs, AppendEvent(p)
              PROVE  /\ EventOf(job[p]) \in RegistryEvent
                     /\ registry \in Seq(RegistryEvent) /\ registry' = Append(registry, EventOf(job[p]))
                     /\ pc[p] = "append" /\ pc'[p] = "close" /\ job' = job /\ home' = home
                     /\ job[p].need \in {"CREATED", "REMOVED"}
                     /\ job[p].id \in IdsOf(p)
  OBVIOUS
<1>1. pc[p] = "append" /\ pc[p] \notin Jobless /\ job[p].need \in {"CREATED", "REMOVED"}
  BY DEF AppendEvent, Jobless, IInv, AppendNeeds
<1>2. job[p].id \in Ids /\ job[p].path \in Paths /\ job[p].id \in IdsOf(p)
  BY <1>1, Busy DEF IInv, Placed, TypeOK
<1>3. EventOf(job[p]) \in RegistryEvent
  BY <1>1, <1>2 DEF EventOf, RegistryEvent
<1>4. registry \in Seq(RegistryEvent) /\ registry' = Append(registry, EventOf(job[p]))
      /\ pc'[p] = "close" /\ job' = job /\ home' = home
  BY DEF AppendEvent, IInv, TypeOK, EventOf, Goto
<1>. QED
  BY <1>1, <1>2, <1>3, <1>4
-----------------------------------------------------------------------------
(* Who keeps a lifecycle open.                                             *)

\* All events of an id are about one path, the one its job is about.
OnePath == OnePathIn(registry)
JobPath == \A p \in Procs : pc[p] \notin Jobless =>
    \A n \in DOMAIN registry : registry[n].id = job[p].id => registry[n].path = job[p].path

\* The places of a process whose lifecycle has to be open: a creation that has
\* recorded it, and a removal that found it and has not recorded the end.
Opened(p) ==
    \/ pc[p] \in {"inspect", "remove"}
    \/ pc[p] \in AtLock /\ job[p].need = "CONTEND"
    \/ pc[p] \in InLock /\ job[p].need = "REMOVED"
    \/ pc[p] = "close" /\ job[p].need \in {"FIND", "CREATED"} /\ job[p].ok

\* Those lifecycles are open, and so is the one a process retains.
HeldActive == \A p \in Procs :
    /\ home[p] # NoId => Active(registry, home[p])
    /\ Opened(p) => Active(registry, job[p].id)

\* Only a process without a worktree creates or removes one.
HomeFree == \A p \in Procs : pc[p] \notin Jobless \cup {"persist"} => home[p] = NoId

\* The workers that outlived their attempt worked on a recorded worktree.
LiveRecorded == \A i \in live : RecordedIn(registry, i)

CInv == OnePath /\ JobPath /\ HeldActive /\ HomeFree /\ LiveRecorded

\* A process that leaves the lock and goes on.
LEMMA AtClose ==
    \A p \in Procs : (Step(p) \/ Request(p) \/ Crash(p)) /\ GoesOn(p) /\ IInv =>
       /\ registry' = registry /\ job[p].ok /\ home' = home
       /\ \/ pc'[p] = "add" /\ job[p].need = "CLAIM"
          \/ pc'[p] = "open" /\ job[p].need = "FIND"
          \/ pc'[p] = "inspect" /\ job[p].need = "CONTEND"
<1>. SUFFICES ASSUME NEW p \in Procs, Step(p) \/ Request(p) \/ Crash(p), GoesOn(p), IInv
              PROVE  /\ registry' = registry /\ job[p].ok /\ home' = home
                     /\ \/ pc'[p] = "add" /\ job[p].need = "CLAIM"
                        \/ pc'[p] = "open" /\ job[p].need = "FIND"
                        \/ pc'[p] = "inspect" /\ job[p].need = "CONTEND"
  OBVIOUS
<1>0. pc[p] = "close" /\ pc'[p] # "idle" /\ pc \in [Procs -> Places]
  BY DEF GoesOn, IInv, TypeOK
<1>1. ~Crash(p) /\ ~Request(p)
  BY <1>0 DEF Crash, Leave, Goto, Request, StartAttempt, CreateWorktree, RemoveWorktree
<1>2. CloseLock(p)
  BY <1>0, <1>1 DEF Step, OpenLock, LockExists, LockIsFresh, LockIsStale, BreakLock, Load, AppendEvent,
     GitAdd, GitAddFails, Mark, MarkFails, FailAttempt, StorePatch, StoreRecord, Inspect, GitRemove,
     GitRemoveFails
<1>. QED
  BY <1>0, <1>2 DEF CloseLock, Leave, Enter, Goto

\* A step keeps the path of every recorded id, and of every job.
LEMMA PathStep ==
    IInv /\ OnePath /\ JobPath =>
       \A p \in Procs : Step(p) \/ Request(p) \/ Crash(p) => OnePath' /\ JobPath'
<1>. SUFFICES ASSUME IInv, OnePath, JobPath, NEW p \in Procs, Step(p) \/ Request(p) \/ Crash(p)
              PROVE  OnePath' /\ JobPath'
  OBVIOUS
<1>0. Placed /\ Moved(p)
  BY Movement DEF IInv, Placed, TypeOK
<1>. DEFINE e == EventOf(job[p])
<1>1. ASSUME AppendEvent(p)
      PROVE  /\ e \in RegistryEvent /\ registry \in Seq(RegistryEvent) /\ registry' = Append(registry, e)
             /\ e.id = job[p].id /\ e.path = job[p].path /\ pc[p] \notin Jobless /\ job' = job
  BY <1>1, Appending DEF EventOf, Jobless
<1>. HIDE DEF e
<1>2. OnePath'
  <2>1. CASE registry' = registry
    BY <2>1 DEF OnePath
  <2>2. CASE AppendEvent(p)
    <3>1. \A n \in DOMAIN registry : registry[n].id = e.id => registry[n].path = e.path
      BY <1>1, <2>2 DEF JobPath
    <3>2. \A m \in DOMAIN registry' : \/ m = Len(registry) + 1 /\ registry'[m] = e
                                      \/ m \in DOMAIN registry /\ registry'[m] = registry[m]
      BY <1>1, <2>2, Appended
    <3>. QED
      BY <3>1, <3>2 DEF OnePath, OnePathIn
  <2>. QED
    BY <2>1, <2>2, Frames
\* What a job that is not new says of the registry is not disturbed by a step.
<1>3. ASSUME NEW q \in Procs, pc[q] \notin Jobless,
             job'[q].id = job[q].id, job'[q].path = job[q].path,
             NEW n \in DOMAIN registry', registry'[n].id = job'[q].id
      PROVE  registry'[n].path = job'[q].path
  <2>1. CASE registry' = registry
    BY <1>3, <2>1 DEF JobPath
  <2>2. CASE AppendEvent(p)
    <3>1. CASE n \in DOMAIN registry /\ registry'[n] = registry[n]
      BY <1>3, <3>1 DEF JobPath
    <3>2. CASE registry'[n] = e
      <4>1. q = p
        BY <1>0, <1>1, <1>3, <2>2, <3>2, Apart DEF IInv
      <4>. QED
        BY <1>1, <1>3, <2>2, <3>2, <4>1
    <3>. QED
      BY <1>1, <2>2, <3>1, <3>2, Appended
  <2>. QED
    BY <2>1, <2>2, Frames
<1>4. ASSUME NEW i, NEW d, job'[p].id = i, job'[p].path = d, d = PathIn(registry, i), registry' = registry
      PROVE  \A n \in DOMAIN registry' : registry'[n].id = job'[p].id => registry'[n].path = job'[p].path
  BY <1>4, PathKnown DEF OnePath
<1>5. ASSUME pc'[p] \notin Jobless
      PROVE  \A n \in DOMAIN registry' : registry'[n].id = job'[p].id => registry'[n].path = job'[p].path
  <2>1. CASE AtTheLock(p) \/ GoesOn(p) \/ Adds(p) \/ Marks(p) \/ Approves(p) \/ Removes(p)
    <3>1. pc[p] \notin Jobless /\ job'[p].id = job[p].id /\ job'[p].path = job[p].path
      BY <2>1 DEF AtTheLock, GoesOn, Adds, Marks, Approves, Removes, Same, Jobless, InLock, AtLock, InSection
    <3>. QED
      BY <1>3, <3>1
  <2>2. CASE Persists(p)
    <3>1. StorePatch(p) /\ registry' = registry
      BY <2>2 DEF Persists, StorePatch
    <3>2. job'[p].id = home[p] /\ job'[p].path = PathIn(registry, home[p])
      BY <1>0, <3>1 DEF StorePatch, Start, Placed, PathOf, PathIn
    <3>. QED
      BY <1>4, <3>1, <3>2
  <2>3. CASE Creates(p)
    <3>1. PICK i \in Ids, d \in Paths : CreateWorktree(p, i, d) /\ job'[p].id = i
      BY <2>3 DEF Creates
    <3>. QED
      BY <3>1 DEF CreateWorktree, IInv, IdsDrawn
  <2>4. CASE Cleans(p)
    <3>1. PICK i \in Ids : RemoveWorktree(p, i)
      BY <2>4 DEF Cleans
    <3>2. registry' = registry /\ job'[p].id = i /\ job'[p].path = PathIn(registry, i)
      BY <1>0, <3>1 DEF RemoveWorktree, Start, Placed, PathOf, PathIn
    <3>. QED
      BY <1>4, <3>2
  <2>. QED
    BY <1>0, <1>5, <2>1, <2>2, <2>3, <2>4 DEF Moved, Idles
<1>6. \A q \in Procs : q # p => pc'[q] = pc[q] /\ job'[q] = job[q]
  BY OthersStay DEF IInv
<1>. QED
  BY <1>2, <1>3, <1>5, <1>6 DEF JobPath
\* A step of another process opens and closes none of the ids of q.
LEMMA OthersActive ==
    IInv => \A p, q \in Procs : Step(p) \/ Request(p) \/ Crash(p) => \A i \in IdsOf(q) :
       p # q \/ registry' = registry => (Active(registry', i) <=> Active(registry, i))
<1>. SUFFICES ASSUME IInv, NEW p \in Procs, NEW q \in Procs, Step(p) \/ Request(p) \/ Crash(p),
                     NEW i \in IdsOf(q), p # q \/ registry' = registry
              PROVE  Active(registry', i) <=> Active(registry, i)
  OBVIOUS
<1>1. CASE registry' = registry
  BY <1>1
<1>2. CASE AppendEvent(p) /\ p # q
  <2>1. EventOf(job[p]) \in RegistryEvent /\ registry \in Seq(RegistryEvent)
        /\ registry' = Append(registry, EventOf(job[p])) /\ job[p].id \in IdsOf(p)
    BY <1>2, Appending
  <2>2. i # EventOf(job[p]).id
    BY <1>2, <2>1 DEF IInv, IdsExclusive, EventOf
  <2>. QED
    BY <2>1, <2>2, ActiveOther
<1>. QED
  BY <1>1, <1>2, Frames

\* A step that brings a process to a place where its lifecycle has to be open,
\* or that gives it a worktree to retain, finds or makes the lifecycle open.
LEMMA OpenedStep ==
    ASSUME IInv, HeldActive, HomeFree, NEW p \in Procs, Step(p) \/ Request(p) \/ Crash(p)
    PROVE  /\ Opened(p)' => Active(registry', job'[p].id)
           /\ home'[p] # NoId => Active(registry', home'[p])
           /\ pc'[p] \notin Jobless \cup {"persist"} => home'[p] = NoId
<1>0. Placed /\ Moved(p)
  BY Movement DEF IInv, Placed, TypeOK
<1>a. AtLock = {"open", "stat", "break", "load", "append", "close"} /\ InLock = AtLock \ {"close"}
  BY DEF InLock, AtLock, InSection
<1>b. ASSUME AppendEvent(p)
      PROVE  /\ Active(registry', job[p].id) <=> job[p].need = "CREATED"
             /\ job[p].need \in {"CREATED", "REMOVED"} /\ pc'[p] = "close" /\ pc[p] = "append"
             /\ home' = home
  <2>1. EventOf(job[p]).id = job[p].id /\ EventOf(job[p]).event = job[p].need
    BY DEF EventOf
  <2>. QED
    BY <1>b, <2>1, Appending, ActiveOwn
<1>c. ASSUME ~AppendEvent(p), Opened(p) PROVE Active(registry', job[p].id)
  BY <1>c, Frames DEF HeldActive
<1>1. ASSUME Opened(p)' PROVE Active(registry', job'[p].id)
  <2>1. CASE AtTheLock(p)
    <3>1. job'[p].id = job[p].id /\ job'[p].need = job[p].need /\ pc[p] \in InLock /\ pc'[p] \in AtLock
      BY <2>1 DEF AtTheLock, Same
    <3>2. CASE AppendEvent(p)
      <4>1. job[p].need = "CREATED"
        BY <1>1, <1>a, <1>b, <3>1, <3>2 DEF Opened
      <4>. QED
        BY <1>b, <3>1, <3>2, <4>1
    <3>3. CASE Load(p) /\ pc'[p] = "close"
      <4>1. job[p] \in Job
        BY <1>0, <3>3, Busy DEF Load, Jobless
      <4>. DEFINE j == [job[p] EXCEPT !.ok = Accepts(job[p])]
      <4>2. job'[p] = j
        BY <1>0, <3>3 DEF Load, Placed
      <4>3. j.ok = Accepts(job[p])
        BY <4>1 DEF Job
      <4>. HIDE DEF j
      <4>4. CASE job[p].need = "FIND"
        <5>1. Accepts(job[p]) /\ registry' = registry
          BY <1>1, <1>a, <3>1, <3>3, <4>2, <4>3, <4>4 DEF Opened, Load
        <5>2. Active(registry, job[p].id)
          BY <4>4, <5>1 DEF Accepts
        <5>. QED
          BY <3>1, <5>1, <5>2
      <4>5. CASE job[p].need = "CONTEND"
        BY <1>a, <1>c, <3>1, <3>3, <4>5 DEF Opened, Load, AppendEvent
      <4>6. ASSUME job[p].need = "CREATED" PROVE FALSE
        <5>1. Accepts(job[p])
          BY <1>1, <1>a, <3>1, <3>3, <4>2, <4>3, <4>6 DEF Opened
        <5>. QED
          BY <3>3, <4>6, <5>1 DEF Load, Goto, IInv, TypeOK
      <4>. QED
        BY <1>1, <1>a, <3>1, <3>3, <4>4, <4>5, <4>6 DEF Opened
    <3>4. CASE ~AppendEvent(p) /\ pc'[p] # "close"
      BY <1>1, <1>a, <1>c, <3>1, <3>4 DEF Opened
    <3>. QED
      BY <2>1, <3>2, <3>3, <3>4 DEF AtTheLock
  <2>2. CASE GoesOn(p)
    <3>1. registry' = registry /\ job[p].ok /\ job'[p].id = job[p].id /\ pc[p] = "close"
      BY <2>2, AtClose DEF GoesOn, Same
    <3>2. pc'[p] = "open" \/ pc'[p] = "inspect" => Opened(p)
      BY <1>a, <2>2, <3>1, AtClose DEF Opened
    <3>3. pc'[p] # "add"
      BY <1>1, <1>a DEF Opened
    <3>. QED
      BY <2>2, <3>1, <3>2, <3>3, AtClose DEF HeldActive
  <2>3. CASE Approves(p) \/ Removes(p)
    <3>1. Opened(p) /\ ~AppendEvent(p) /\ job'[p].id = job[p].id
      BY <2>3 DEF Approves, Removes, Same, Opened, AppendEvent
    <3>. QED
      BY <1>c, <3>1
  <2>4. ~Idles(p) /\ ~Adds(p) /\ ~Marks(p) /\ ~Persists(p) /\ ~Creates(p) /\ ~Cleans(p)
    BY <1>1, <1>a DEF Opened, Idles, Jobless, Adds, Marks, Persists, Creates, Cleans
  <2>. QED
    BY <1>0, <2>1, <2>2, <2>3, <2>4 DEF Moved
<1>2. ASSUME home'[p] # NoId PROVE Active(registry', home'[p])
  <2>1. CASE home'[p] = home[p] /\ registry' = registry
    BY <1>2, <2>1 DEF HeldActive
  <2>2. CASE home'[p] = job[p].id /\ pc[p] = "close" /\ job[p].need = "CREATED" /\ job[p].ok
    <3>1. Opened(p) /\ ~AppendEvent(p)
      BY <2>2 DEF Opened, AppendEvent
    <3>. QED
      BY <1>c, <2>2, <3>1
  <2>3. ASSUME AppendEvent(p) PROVE FALSE
    BY <1>2, <1>b, <2>3 DEF HomeFree, Jobless
  <2>. QED
    BY <1>2, <2>1, <2>2, <2>3, HomeStep, Frames DEF IInv
<1>3. ASSUME pc'[p] \notin Jobless \cup {"persist"} PROVE home'[p] = NoId
  <2>1. CASE Creates(p) \/ Cleans(p)
    BY <2>1 DEF Creates, Cleans, CreateWorktree, RemoveWorktree, IInv, TypeOK
  <2>2. CASE AtTheLock(p) \/ GoesOn(p) \/ Adds(p) \/ Marks(p) \/ Approves(p) \/ Removes(p)
    <3>1. pc[p] \notin Jobless \cup {"persist"}
      BY <1>a, <2>2 DEF AtTheLock, GoesOn, Adds, Marks, Approves, Removes, Jobless
    <3>2. home[p] = NoId
      BY <3>1 DEF HomeFree
    <3>3. ~(pc[p] = "close" /\ job[p].need = "CREATED" /\ job[p].ok)
      BY <1>a, <2>2, AtClose DEF AtTheLock, Adds, Marks, Approves, Removes
    <3>. QED
      BY <3>2, <3>3, HomeStep DEF IInv
  <2>3. ~Idles(p) /\ ~Persists(p)
    BY <1>3 DEF Idles, Persists
  <2>. QED
    BY <1>0, <2>1, <2>2, <2>3 DEF Moved
<1>. QED
  BY <1>1, <1>2, <1>3

\* Which steps touch the checkouts, the evidence and the surviving workers.
LEMMA MoreFrames ==
    \A p \in Procs : Step(p) \/ Request(p) \/ Crash(p) =>
       /\ files' = files \/ GitAdd(p) \/ GitRemove(p)
       /\ records \subseteq records'
       /\ live' = live \/ (pc[p] = "worker" /\ live' = live \cup {home[p]})
<1>. SUFFICES ASSUME NEW p \in Procs, Step(p) \/ Request(p) \/ Crash(p)
              PROVE  /\ files' = files \/ GitAdd(p) \/ GitRemove(p)
                     /\ records \subseteq records'
                     /\ live' = live \/ (pc[p] = "worker" /\ live' = live \cup {home[p]})
  OBVIOUS
<1>. USE DEF treeVars, evidenceVars
<1>1. CASE OpenLock(p) \/ LockExists(p) \/ LockIsFresh(p) \/ LockIsStale(p) \/ BreakLock(p)
  BY <1>1 DEF OpenLock, LockExists, LockIsFresh, LockIsStale, BreakLock
<1>2. CASE Load(p) \/ AppendEvent(p) \/ CloseLock(p)
  BY <1>2 DEF Load, AppendEvent, CloseLock
<1>3. CASE GitAdd(p) \/ GitAddFails(p) \/ Mark(p) \/ MarkFails(p)
  BY <1>3 DEF GitAdd, GitAddFails, Mark, MarkFails
<1>4. CASE FailAttempt(p) \/ StorePatch(p) \/ StoreRecord(p)
  BY <1>4 DEF FailAttempt, StorePatch, StoreRecord
<1>5. CASE Inspect(p) \/ GitRemove(p) \/ GitRemoveFails(p)
  BY <1>5 DEF Inspect, GitRemove, GitRemoveFails
<1>6. CASE Request(p) \/ Crash(p)
  BY <1>6 DEF Request, StartAttempt, CreateWorktree, RemoveWorktree, Crash
<1>. QED
  BY <1>1, <1>2, <1>3, <1>4, <1>5, <1>6 DEF Step

\* A lifecycle somebody holds stays open, whatever step is taken.
LEMMA HeldStep ==
    IInv /\ CInv => \A p \in Procs : Step(p) \/ Request(p) \/ Crash(p) => CInv'
<1>. SUFFICES ASSUME IInv, CInv, NEW p \in Procs, Step(p) \/ Request(p) \/ Crash(p)
              PROVE  CInv'
  OBVIOUS
<1>0. Placed /\ HeldActive /\ HomeFree /\ LiveRecorded
  BY DEF IInv, Placed, TypeOK, CInv
<1>1. OnePath' /\ JobPath'
  BY PathStep DEF CInv
<1>2. \A q \in Procs : q # p => pc'[q] = pc[q] /\ job'[q] = job[q] /\ home'[q] = home[q]
  BY OthersStay DEF IInv
<1>3. ASSUME NEW q \in Procs, q # p
      PROVE  /\ home'[q] # NoId => Active(registry', home'[q])
             /\ Opened(q)' => Active(registry', job'[q].id)
             /\ pc'[q] \notin Jobless \cup {"persist"} => home'[q] = NoId
  <2>1. \A i \in IdsOf(q) : Active(registry', i) <=> Active(registry, i)
    BY <1>3, OthersActive
  <2>2. home[q] # NoId => home[q] \in IdsOf(q)
    BY DEF IdsOf
  <2>3. Opened(q) => job[q].id \in IdsOf(q)
    <3>1. Opened(q) => pc[q] \notin Jobless
      BY DEF Opened, Jobless, InLock, AtLock, InSection
    <3>. QED
      BY <1>0, <3>1, Busy
  <2>4. Opened(q)' => Opened(q)
    BY <1>2, <1>3 DEF Opened
  <2>. QED
    BY <1>0, <1>2, <1>3, <2>1, <2>2, <2>3, <2>4 DEF HeldActive, HomeFree
<1>4. HeldActive' /\ HomeFree'
  BY <1>0, <1>3, OpenedStep DEF HeldActive, HomeFree
<1>5. LiveRecorded'
  <2>1. \A i \in live : RecordedIn(registry', i)
    BY <1>0, RecordedStep DEF LiveRecorded, IInv, TypeOK
  <2>2. pc[p] = "worker" => RecordedIn(registry', home[p])
    BY RecordedStep DEF IInv, HomesRecorded, Recorded, RecordedIn, TypeOK
  <2>. QED
    BY <2>1, <2>2, MoreFrames DEF LiveRecorded
<1>. QED
  BY <1>1, <1>4, <1>5 DEF CInv
-----------------------------------------------------------------------------
(* What is removed with changes in it.                                     *)

EvidenceIn(recs, i) == {r \in recs : r.id = i}

\* A removal that was approved of a clean checkout has one unless workers
\* outlived an attempt at its path; any other has evidence.
DirtyInv == \A p \in Procs :
    pc[p] = "remove" /\ files[job[p].path] \notin {Missing, 0} =>
       \/ EvidenceIn(records, job[p].id) # {}
       \/ \E i \in live : PathIn(registry, i) = job[p].path

\* The path of a recorded id stays its path.
LEMMA PathStays ==
    IInv /\ CInv /\ CInv' => \A p \in Procs : Step(p) \/ Request(p) \/ Crash(p) =>
       \A i \in Ids : RecordedIn(registry, i) => PathIn(registry', i) = PathIn(registry, i)
<1>. SUFFICES ASSUME IInv, CInv, CInv', NEW p \in Procs, Step(p) \/ Request(p) \/ Crash(p),
                     NEW n \in DOMAIN registry
              PROVE  PathIn(registry', registry[n].id) = PathIn(registry, registry[n].id)
  BY DEF RecordedIn
<1>1. OnePathIn(registry) /\ OnePathIn(registry')
  BY DEF CInv, OnePath
<1>2. n \in DOMAIN registry' /\ registry'[n] = registry[n]
  <2>1. CASE AppendEvent(p)
    BY <2>1, Appending, Appended
  <2>. QED
    BY <2>1, Frames
<1>3. PathIn(registry', registry'[n].id) = registry'[n].path
  BY <1>1, <1>2, PathKnown
<1>. QED
  BY <1>1, <1>2, <1>3, PathKnown

\* A step of a process keeps the removals of the others justified, and starts
\* one only of a clean checkout or with evidence.
LEMMA DirtyStep ==
    IInv /\ CInv /\ DirtyInv => \A p \in Procs : Step(p) \/ Request(p) \/ Crash(p) => DirtyInv'
<1>. SUFFICES ASSUME IInv, CInv, DirtyInv, NEW p \in Procs, Step(p) \/ Request(p) \/ Crash(p)
              PROVE  DirtyInv'
  OBVIOUS
<1>0. Placed /\ Moved(p) /\ CInv'
  BY Movement, HeldStep DEF IInv, Placed, TypeOK
<1>1. \A i : EvidenceIn(records, i) # {} => EvidenceIn(records', i) # {}
  BY MoreFrames DEF EvidenceIn
<1>2. \A i \in live : i \in live' /\ PathIn(registry', i) = PathIn(registry, i)
  <2>1. \A i \in live : RecordedIn(registry, i) /\ i \in Ids
    BY DEF CInv, LiveRecorded, IInv, TypeOK
  <2>. QED
    BY <1>0, <2>1, PathStays, MoreFrames
<1>3. \A q \in Procs : q # p => pc'[q] = pc[q] /\ job'[q] = job[q]
  BY OthersStay DEF IInv
<1>4. ASSUME NEW q \in Procs, q # p, pc[q] = "remove"
      PROVE  files'[job[q].path] \in {Missing, files[job[q].path]}
  <2>1. files \in [Paths -> Content \cup {Missing}] /\ tree[job[q].path] # NoTree
    BY <1>4 DEF IInv, TypeOK, RemoversOwn
  <2>2. job[q].path \in Paths
    BY <1>0, <1>4, Busy DEF Jobless
  <2>3. CASE GitAdd(p)
    <3>1. job[p].path # job[q].path
      BY <2>1, <2>3 DEF GitAdd
    <3>. QED
      BY <2>1, <2>2, <2>3, <3>1 DEF GitAdd
  <2>4. CASE GitRemove(p)
    BY <2>1, <2>2, <2>4 DEF GitRemove
  <2>. QED
    BY <2>3, <2>4, MoreFrames
<1>5. ASSUME pc'[p] = "remove", files'[job'[p].path] \notin {Missing, 0}
      PROVE  EvidenceIn(records', job'[p].id) # {}
  <2>1. Approves(p)
    BY <1>0, <1>5 DEF Moved, Idles, Jobless, AtTheLock, AtLock, InSection, GoesOn, Adds, Marks, Removes,
       Persists, Creates, Cleans
  <2>2. files' = files
    BY <2>1, MoreFrames DEF Approves, GitAdd, GitRemove
  <2>3. EvidenceVerified(job[p])
    BY <1>5, <2>1, <2>2 DEF Approves, MayRemove
  <2>. QED
    BY <1>1, <2>1, <2>3 DEF Approves, EvidenceVerified, Evidenced, EvidenceIn
<1>6. ASSUME NEW q \in Procs, q # p, pc'[q] = "remove", files'[job'[q].path] \notin {Missing, 0}
      PROVE  \/ EvidenceIn(records', job'[q].id) # {}
             \/ \E i \in live' : PathIn(registry', i) = job'[q].path
  <2>1. pc[q] = "remove" /\ job'[q] = job[q] /\ files[job[q].path] \notin {Missing, 0}
    BY <1>3, <1>4, <1>6
  <2>. QED
    BY <1>1, <1>2, <2>1 DEF DirtyInv
<1>. QED
  BY <1>5, <1>6 DEF DirtyInv

\* Nor does what happens around the controllers, while a checkout is about to
\* be removed: no retained worktree has its path.
LEMMA AroundStep ==
    IInv /\ CInv /\ DirtyInv
    /\ (LockAges \/ (\E i \in Ids : Write(i) \/ MoveHead(i)) \/ (\E d \in Paths : Vanish(d)))
      => CInv' /\ DirtyInv'
<1>. SUFFICES ASSUME IInv, CInv, DirtyInv,
                     LockAges \/ (\E i \in Ids : Write(i) \/ MoveHead(i)) \/ (\E d \in Paths : Vanish(d))
              PROVE  CInv' /\ DirtyInv'
  OBVIOUS
<1>1. UNCHANGED <<registry, pc, job, home, live, records>>
  BY DEF LockAges, Write, MoveHead, Vanish, evidenceVars
<1>2. CInv'
  BY <1>1 DEF CInv, OnePath, JobPath, HeldActive, Opened, HomeFree, LiveRecorded
<1>3. ASSUME NEW p \in Procs, pc[p] = "remove", files'[job[p].path] \notin {Missing, 0}
      PROVE  EvidenceIn(records, job[p].id) # {} \/ \E i \in live : PathIn(registry, i) = job[p].path
  <2>0. files \in [Paths -> Content \cup {Missing}] /\ job[p].path \in Paths /\ job[p].id \in IdsOf(p)
    BY <1>3, Busy DEF IInv, Placed, TypeOK, Jobless
  <2>1. CASE files'[job[p].path] = files[job[p].path]
    BY <1>3, <2>1 DEF DirtyInv
  <2>2. ASSUME NEW i \in Ids, Write(i), PathOf(i) = job[p].path
        PROVE  i \in live
    <3>. SUFFICES ASSUME i \notin live PROVE FALSE
      OBVIOUS
    <3>1. PICK q \in Procs : home[q] = i /\ pc[q] = "worker"
      BY <2>2 DEF Write, Working
    <3>2. i # NoId /\ i \in IdsOf(q) /\ q # p
      BY <1>3, <3>1, IdAssumption DEF IdsOf
    <3>3. i # job[p].id
      BY <2>0, <3>2 DEF IInv, IdsExclusive
    <3>4. Active(registry, i) /\ Active(registry, job[p].id)
      BY <1>3, <3>1, <3>2 DEF CInv, HeldActive, Opened
    <3>5. PICK m, n \in DOMAIN registry :
             /\ registry[m] \in ActiveRecords(registry) /\ registry[m].id = i
             /\ registry[n] \in ActiveRecords(registry) /\ registry[n].id = job[p].id
      BY <3>4 DEF Active, ActiveRecords
    <3>6. registry[m].path = PathOf(i)
      BY <3>5, PathKnown DEF CInv, OnePath, PathOf, PathIn
    <3>7. registry[n].path = job[p].path
      BY <1>3, <3>5 DEF CInv, JobPath, Jobless
    <3>. QED
      BY <2>2, <3>3, <3>5, <3>6, <3>7 DEF IInv, PathClaimedOnce
  <2>3. ASSUME NEW i \in Ids, Write(i), PathOf(i) # job[p].path
        PROVE  files'[job[p].path] = files[job[p].path]
    BY <2>0, <2>3 DEF Write
  <2>4. ASSUME NEW d \in Paths, Vanish(d) PROVE files'[job[p].path] = files[job[p].path]
    BY <1>3, <2>0, <2>4 DEF Vanish
  <2>5. LockAges \/ (\E i \in Ids : MoveHead(i)) => files' = files
    BY DEF LockAges, MoveHead, treeVars
  <2>. QED
    BY <2>1, <2>2, <2>3, <2>4, <2>5 DEF PathOf, PathIn
<1>. QED
  BY <1>1, <1>2, <1>3 DEF DirtyInv

\* All of it, in every reachable state.
LEMMA Invariance == Spec => [](IInv /\ CInv /\ DirtyInv)
<1>1. Init => CInv /\ DirtyInv
  <2>. SUFFICES ASSUME Init PROVE CInv /\ DirtyInv
    OBVIOUS
  <2>1. DOMAIN registry = {} /\ \A p \in Procs : pc[p] = "idle" /\ home[p] = NoId
    BY DEF Init
  <2>2. live = {}
    BY DEF Init
  <2>. QED
    BY <2>1, <2>2 DEF CInv, OnePath, OnePathIn, JobPath, HeldActive, Opened, HomeFree, LiveRecorded,
       DirtyInv, Jobless, InLock, AtLock, InSection
<1>2. IInv /\ CInv /\ DirtyInv /\ [Next]_vars => CInv' /\ DirtyInv'
  <2>. SUFFICES ASSUME IInv, CInv, DirtyInv, [Next]_vars PROVE CInv' /\ DirtyInv'
    OBVIOUS
  <2>1. CASE UNCHANGED vars
    BY <2>1 DEF vars, treeVars, evidenceVars, CInv, OnePath, JobPath, HeldActive, Opened, HomeFree,
       LiveRecorded, DirtyInv
  <2>2. CASE Next
    BY <2>2, HeldStep, DirtyStep, AroundStep DEF Next, Environment
  <2>. QED
    BY <2>1, <2>2
<1>. QED
  BY <1>1, <1>2, Initially, NextStep, PTL DEF Spec

(* Cleanup destroys uncommitted changes of a worker only when there is     *)
(* evidence of that worktree, or a worker outlived its attempt there.      *)
THEOREM DirtyRemoval == Spec => DirtyRemovalIsEvidenced
<1>1. IInv /\ CInv /\ DirtyInv /\ [Next]_vars =>
        [\A d \in Paths : /\ tree[d] # NoTree /\ tree'[d] = NoTree
                          /\ files[d] \notin {Missing, 0}
                          /\ \A i \in live : PathOf(i) # d
                          => Evidenced(tree[d].for) # {}]_vars
  BY RemovalStep DEF DirtyInv, PathOf, PathIn, Evidenced, EvidenceIn
<1>. QED
  BY <1>1, Invariance, PTL DEF Spec, DirtyRemovalIsEvidenced
-----------------------------------------------------------------------------
(* The registry implements PathClaims.                                     *)

\* The two values PathClaims is about, of a registry.
ClaimIn(reg, i) == IF Active(reg, i) THEN PathIn(reg, i) ELSE NoPath
ClosedIn(reg, i) == RecordedIn(reg, i) /\ ~Active(reg, i)

\* The mapping reads nothing but the registry.
LEMMA Mapping ==
    /\ claimOf = [i \in Ids |-> ClaimIn(registry, i)]
    /\ closedIds = {i \in Ids : ClosedIn(registry, i)}
    /\ claimOf' = [i \in Ids |-> ClaimIn(registry', i)]
    /\ closedIds' = {i \in Ids : ClosedIn(registry', i)}
BY DEF claimOf, closedIds, ClaimIn, ClosedIn, PathOf, PathIn, Recorded, RecordedIn

\* An append changes what is claimed by the id it is about, and nothing else.
LEMMA AppendClaims ==
    IInv /\ CInv /\ CInv' => \A p \in Procs : AppendEvent(p) /\ Step(p) =>
       /\ \A j \in Ids \ {job[p].id} : /\ ClaimIn(registry', j) = ClaimIn(registry, j)
                                       /\ ClosedIn(registry', j) <=> ClosedIn(registry, j)
       /\ job[p].need = "CREATED" => /\ ClaimIn(registry', job[p].id) = job[p].path
                                     /\ ~ClosedIn(registry', job[p].id)
       /\ job[p].need = "REMOVED" => /\ ClaimIn(registry', job[p].id) = NoPath
                                     /\ ClosedIn(registry', job[p].id)
<1>. SUFFICES ASSUME IInv, CInv, CInv', NEW p \in Procs, AppendEvent(p), Step(p)
              PROVE  /\ \A j \in Ids \ {job[p].id} : /\ ClaimIn(registry', j) = ClaimIn(registry, j)
                                                     /\ ClosedIn(registry', j) <=> ClosedIn(registry, j)
                     /\ job[p].need = "CREATED" => /\ ClaimIn(registry', job[p].id) = job[p].path
                                                   /\ ~ClosedIn(registry', job[p].id)
                     /\ job[p].need = "REMOVED" => /\ ClaimIn(registry', job[p].id) = NoPath
                                                   /\ ClosedIn(registry', job[p].id)
  OBVIOUS
<1>. DEFINE e == EventOf(job[p])
<1>1. e \in RegistryEvent /\ registry \in Seq(RegistryEvent) /\ registry' = Append(registry, e)
  BY Appending
<1>2. e.id = job[p].id /\ e.path = job[p].path /\ e.event = job[p].need
  BY DEF EventOf
<1>. HIDE DEF e
<1>3. ASSUME NEW j \in Ids, j # job[p].id
      PROVE  /\ ClaimIn(registry', j) = ClaimIn(registry, j)
             /\ ClosedIn(registry', j) <=> ClosedIn(registry, j)
  <2>1. Active(registry', j) <=> Active(registry, j)
    BY <1>1, <1>2, <1>3, ActiveOther
  <2>2. RecordedIn(registry', j) <=> RecordedIn(registry, j)
    BY <1>3, RecordedStep
  <2>3. RecordedIn(registry, j) => PathIn(registry', j) = PathIn(registry, j)
    BY PathStays
  <2>4. Active(registry, j) => RecordedIn(registry, j)
    BY ActiveRecorded
  <2>. QED
    BY <2>1, <2>2, <2>3, <2>4 DEF ClaimIn, ClosedIn
<1>4. Active(registry', job[p].id) <=> job[p].need = "CREATED"
  BY <1>1, <1>2, ActiveOwn
<1>5. RecordedIn(registry', job[p].id)
  BY RecordedStep
<1>6. PathIn(registry', job[p].id) = job[p].path
  <2>1. Len(registry) + 1 \in DOMAIN registry' /\ registry'[Len(registry) + 1] = e
    BY <1>1, Appended
  <2>2. OnePathIn(registry')
    BY DEF CInv, OnePath
  <2>. QED
    BY <1>2, <2>1, <2>2, PathKnown
<1>. QED
  BY <1>3, <1>4, <1>5, <1>6 DEF ClaimIn, ClosedIn

\* A CREATED event is the opening of a free path by a new lifecycle.
LEMMA CreatedOpens ==
    IInv /\ CInv /\ CInv' => \A p \in Procs : AppendEvent(p) /\ Step(p) /\ job[p].need = "CREATED" =>
       Claims!Open(job[p].id, job[p].path) /\ job[p].id \in Ids /\ job[p].path \in Paths
<1>. SUFFICES ASSUME IInv, CInv, CInv', NEW p \in Procs, AppendEvent(p), Step(p), job[p].need = "CREATED"
              PROVE  Claims!Open(job[p].id, job[p].path) /\ job[p].id \in Ids /\ job[p].path \in Paths
  OBVIOUS
<1>. DEFINE i == job[p].id
            d == job[p].path
<1>1. pc[p] = "append" /\ i \in Ids /\ d \in Paths
  BY Appending, Busy DEF IInv, Placed, TypeOK, Jobless
<1>2. ~RecordedIn(registry, i)
  BY <1>1 DEF IInv, CreatesFresh, Unrecorded, AtLock, InSection, Recorded, RecordedIn
<1>3. ~Active(registry, i)
  BY <1>2, ActiveRecorded
<1>4. ASSUME NEW j \in Ids, Active(registry, j) PROVE PathIn(registry, j) # d
  <2>1. PICK n \in DOMAIN registry : registry[n] \in ActiveRecords(registry) /\ registry[n].id = j
    BY <1>4 DEF Active, ActiveRecords
  <2>2. registry[n].path = PathIn(registry, j)
    BY <2>1, PathKnown DEF CInv, OnePath
  <2>3. j # i
    BY <1>3, <1>4
  <2>. QED
    BY <1>1, <2>1, <2>2, <2>3 DEF IInv, AppendsUnclaimed, Claimants
<1>5. \A j \in Ids : ClaimIn(registry, j) # d
  BY <1>1, <1>4, IdAssumption DEF ClaimIn
<1>6. ClaimIn(registry, i) = NoPath /\ ~ClosedIn(registry, i)
  BY <1>2, <1>3 DEF ClaimIn, ClosedIn
<1>7. /\ \A j \in Ids \ {i} : /\ ClaimIn(registry', j) = ClaimIn(registry, j)
                              /\ ClosedIn(registry', j) <=> ClosedIn(registry, j)
      /\ ClaimIn(registry', i) = d /\ ~ClosedIn(registry', i)
  BY AppendClaims
<1>. HIDE DEF i, d
<1>8. claimOf[i] = NoPath /\ i \notin closedIds /\ \A j \in Ids : claimOf[j] # d
  BY <1>1, <1>5, <1>6, Mapping
<1>9. claimOf' = [claimOf EXCEPT ![i] = d]
  BY <1>1, <1>7, Mapping
<1>10. closedIds' = closedIds
  BY <1>6, <1>7, Mapping
<1>11. Claims!Open(i, d)
  BY <1>8, <1>9, <1>10 DEF Claims!Open
<1>. QED
  BY <1>1, <1>11 DEF i, d

\* A REMOVED event is the end of an open lifecycle.
LEMMA RemovedCloses ==
    IInv /\ CInv /\ CInv' => \A p \in Procs : AppendEvent(p) /\ Step(p) /\ job[p].need = "REMOVED" =>
       Claims!Close(job[p].id) /\ job[p].id \in Ids
<1>. SUFFICES ASSUME IInv, CInv, CInv', NEW p \in Procs, AppendEvent(p), Step(p), job[p].need = "REMOVED"
              PROVE  Claims!Close(job[p].id) /\ job[p].id \in Ids
  OBVIOUS
<1>. DEFINE i == job[p].id
<1>1. pc[p] = "append" /\ i \in Ids
  BY Appending, Busy DEF IInv, Placed, TypeOK, Jobless
<1>2. Active(registry, i)
  BY <1>1 DEF CInv, HeldActive, Opened, InLock, AtLock, InSection
<1>3. PathIn(registry, i) \in Paths
  <2>1. RecordedIn(registry, i)
    BY <1>2, ActiveRecorded
  <2>. QED
    BY <1>1, <2>1, RecordedPath DEF IInv, Recorded, RecordedIn, PathOf, PathIn
<1>4. ClaimIn(registry, i) # NoPath
  BY <1>2, <1>3, IdAssumption DEF ClaimIn
<1>5. /\ \A j \in Ids \ {i} : /\ ClaimIn(registry', j) = ClaimIn(registry, j)
                              /\ ClosedIn(registry', j) <=> ClosedIn(registry, j)
      /\ ClaimIn(registry', i) = NoPath /\ ClosedIn(registry', i)
  BY AppendClaims
<1>. HIDE DEF i
<1>6. claimOf[i] # NoPath
  BY <1>1, <1>4, Mapping
<1>7. claimOf' = [claimOf EXCEPT ![i] = NoPath]
  BY <1>1, <1>5, Mapping
<1>8. closedIds' = closedIds \cup {i}
  BY <1>1, <1>5, Mapping
<1>9. Claims!Close(i)
  BY <1>6, <1>7, <1>8 DEF Claims!Close
<1>. QED
  BY <1>1, <1>9 DEF i

(* The lock file, the long way from the check of a path to its CREATED     *)
(* event and the broken locks in between are invisible: the registry       *)
(* implements atomic claims on paths.                                      *)
THEOREM Refinement == Spec => ImplementsPathClaims
<1>1. Init => Claims!Init
  <2>. SUFFICES ASSUME Init PROVE Claims!Init
    OBVIOUS
  <2>1. DOMAIN registry = {}
    BY DEF Init
  <2>2. \A i : ~Active(registry, i) /\ ~RecordedIn(registry, i)
    BY <2>1 DEF Active, ActiveRecords, RecordedIn
  <2>3. claimOf = [i \in Ids |-> NoPath] /\ closedIds = {}
    BY <2>2, Mapping DEF ClaimIn, ClosedIn
  <2>. QED
    BY <2>3 DEF Claims!Init
<1>2. IInv /\ CInv /\ CInv' /\ [Next]_vars => [Claims!Next]_(Claims!claimVars)
  <2>. SUFFICES ASSUME IInv, CInv, CInv', [Next]_vars PROVE [Claims!Next]_(Claims!claimVars)
    OBVIOUS
  <2>1. CASE registry' = registry
    <3>1. claimOf' = claimOf /\ closedIds' = closedIds
      BY <2>1, Mapping
    <3>. QED
      BY <3>1 DEF Claims!claimVars
  <2>2. ASSUME NEW p \in Procs, AppendEvent(p) PROVE Claims!Next
    <3>1. Step(p) /\ job[p].need \in {"CREATED", "REMOVED"}
      BY <2>2, Appending DEF Step
    <3>. QED
      BY <2>2, <3>1, CreatedOpens, RemovedCloses DEF Claims!Next
  <2>3. registry' = registry \/ \E p \in Procs : AppendEvent(p)
    BY Frames DEF Next, Environment, LockAges, Write, MoveHead, Vanish, vars
  <2>. QED
    BY <2>1, <2>2, <2>3
<1>. QED
  BY <1>1, <1>2, Invariance, PTL DEF Spec, ImplementsPathClaims, Claims!Spec
-----------------------------------------------------------------------------
(* The registry stays readable.                                            *)

\* A valid registry stays valid when a new id is created, or an open one
\* removed.
LEMMA ValidAppend ==
    ASSUME NEW reg \in Seq(RegistryEvent), NEW e \in RegistryEvent, ValidTransitions(reg),
           e.event = "CREATED" => ~RecordedIn(reg, e.id),
           e.event = "REMOVED" => Active(reg, e.id)
    PROVE  ValidTransitions(Append(reg, e))
<1>. DEFINE A == Append(reg, e)
            l == Len(reg) + 1
<1>1. /\ DOMAIN reg = 1..Len(reg) /\ DOMAIN A = 1..l /\ Len(reg) \in Nat /\ A[l] = e
      /\ \A n \in DOMAIN reg : A[n] = reg[n]
  BY Appended
<1>. HIDE DEF A
<1>2. \A n \in DOMAIN reg : \A i : Before(A, n, i) = Before(reg, n, i)
  BY <1>1 DEF Before
<1>3. \A i : Before(A, l, i) = {m \in DOMAIN reg : reg[m].id = i}
  BY <1>1 DEF Before
<1>4. ASSUME NEW n \in DOMAIN reg
      PROVE  IF A[n].event = "CREATED" THEN Before(A, n, A[n].id) = {}
             ELSE \E m \in Before(A, n, A[n].id) : Before(A, n, A[n].id) = {m} /\ A[m].event = "CREATED"
  <2>1. CASE reg[n].event = "CREATED"
    BY <1>1, <1>2, <2>1 DEF ValidTransitions
  <2>2. CASE reg[n].event # "CREATED"
    <3>1. PICK m \in Before(reg, n, reg[n].id) :
             Before(reg, n, reg[n].id) = {m} /\ reg[m].event = "CREATED"
      BY <2>2 DEF ValidTransitions
    <3>2. m \in DOMAIN reg
      BY <1>1, <3>1 DEF Before
    <3>. QED
      BY <1>1, <1>2, <2>2, <3>1, <3>2
  <2>. QED
    BY <2>1, <2>2
<1>a. \A n \in DOMAIN A : n \in DOMAIN reg \/ n = l
  BY <1>1
<1>5. ASSUME e.event = "CREATED" PROVE ValidTransitions(A)
  <2>1. Before(A, l, e.id) = {}
    BY <1>3, <1>5 DEF RecordedIn
  <2>. QED
    BY <1>1, <1>a, <1>4, <1>5, <2>1 DEF ValidTransitions
<1>6. ASSUME e.event = "REMOVED" PROVE ValidTransitions(A)
  <2>1. PICK m \in DOMAIN reg : Latest(reg, m) /\ reg[m].event = "CREATED" /\ reg[m].id = e.id
    BY <1>6 DEF Active, ActiveRecords
  <2>2. Before(reg, m, e.id) = {}
    BY <2>1 DEF ValidTransitions
  <2>3. ASSUME NEW k \in DOMAIN reg, reg[k].id = e.id PROVE k = m
    <3>1. k <= m
      BY <2>1, <2>3 DEF Latest
    <3>2. ~(k < m)
      BY <1>1, <2>2, <2>3 DEF Before
    <3>. QED
      BY <1>1, <3>1, <3>2
  <2>4. Before(A, l, e.id) = {m} /\ A[m].event = "CREATED"
    BY <1>1, <1>3, <2>1, <2>3
  <2>5. A[l].event # "CREATED" /\ Before(A, l, A[l].id) = {m}
    BY <1>1, <1>6, <2>4
  <2>6. \E k \in Before(A, l, A[l].id) : Before(A, l, A[l].id) = {k} /\ A[k].event = "CREATED"
    BY <2>4, <2>5
  <2>. QED
    BY <1>a, <1>4, <2>5, <2>6 DEF ValidTransitions
<1>. QED
  BY <1>5, <1>6 DEF RegistryEvent, A

(* No line is ever appended that makes the registry invalid, although the  *)
(* lock that orders reading and appending can be broken: an invalid        *)
(* registry would refuse every later creation and cleanup.                 *)
THEOREM RegistryStaysValid == Spec => []ValidTransitions(registry)
<1>1. Init => ValidTransitions(registry)
  BY DEF Init, ValidTransitions
<1>2. IInv /\ CInv /\ ValidTransitions(registry) /\ [Next]_vars => ValidTransitions(registry)'
  <2>. SUFFICES ASSUME IInv, CInv, ValidTransitions(registry), [Next]_vars
                PROVE  ValidTransitions(registry)'
    OBVIOUS
  <2>1. CASE registry' = registry
    BY <2>1
  <2>2. ASSUME NEW p \in Procs, AppendEvent(p) PROVE ValidTransitions(registry)'
    <3>. DEFINE e == EventOf(job[p])
    <3>1. /\ e \in RegistryEvent /\ registry \in Seq(RegistryEvent) /\ registry' = Append(registry, e)
          /\ e.id = job[p].id /\ e.event = job[p].need /\ pc[p] = "append"
      BY <2>2, Appending DEF EventOf
    <3>. HIDE DEF e
    <3>2. e.event = "CREATED" => ~RecordedIn(registry, e.id)
      BY <3>1 DEF IInv, CreatesFresh, Unrecorded, AtLock, InSection, Recorded, RecordedIn
    <3>3. e.event = "REMOVED" => Active(registry, e.id)
      BY <3>1 DEF CInv, HeldActive, Opened, InLock, AtLock, InSection
    <3>. QED
      BY <3>1, <3>2, <3>3, ValidAppend
  <2>3. registry' = registry \/ \E p \in Procs : AppendEvent(p)
    BY Frames DEF Next, Environment, LockAges, Write, MoveHead, Vanish, vars
  <2>. QED
    BY <2>1, <2>2, <2>3
<1>. QED
  BY <1>1, <1>2, Invariance, PTL DEF Spec
=============================================================================
