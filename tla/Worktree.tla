------------------------------ MODULE Worktree ------------------------------
(***************************************************************************)
(* The life of disposable worker worktrees: createIsolatedWorktree and     *)
(* removeIsolatedWorktree of src/src/git/worktree.mjs over the registry    *)
(* file and its lock, with the worker attempts that run in a worktree and  *)
(* the patch evidence collected from it in between.  Several controller    *)
(* processes share one repository.                                         *)
(*                                                                         *)
(* A step is one effect on the file system or on git, or a run of reads    *)
(* whose results only effects of this module can change.  A process leaves *)
(* an operation by returning or by throwing; both lead to "idle".          *)
(***************************************************************************)
EXTENDS WorktreeRegistry

CONSTANTS
    Procs,          \* controller processes
    NoId,           \* no worktree id: nothing retained, no marker
    NoPath,         \* no path (of PathClaims)
    NoTree,         \* git registers nothing at a path
    Missing,        \* the checkout directory does not exist
    LockRetries,    \* attempts at the registry lock
    MaxContent,     \* bound: how often the content of a checkout changes
    MaxCrashes,     \* bound: how many processes die
    LongPauses,     \* TRUE if a live lock holder may exceed the stale age
    WorkersQuiesce  \* TRUE if no worker process survives its attempt

ASSUME IdAssumption == NoId \notin Ids /\ NoPath \notin Paths
ASSUME BoundsAssumption == LockRetries \in Nat \ {0} /\ MaxContent \in Nat /\ MaxCrashes \in Nat
ASSUME FlagsAssumption == LongPauses \in BOOLEAN /\ WorkersQuiesce \in BOOLEAN

VARIABLES
    registry,   \* the events of registry.jsonl
    lockFile,   \* .registry.lock: "absent", "fresh" or older than LOCK_STALE_MS
    tree,       \* git's registration at each path: its admin directory
    files,      \* the checkout at each path: Missing or its content, 0 clean
    used,       \* worktree ids drawn so far
    pc,         \* where each process is
    job,        \* what it works on
    home,       \* the worktree id each controller retains for its run
    live,       \* ids whose worker processes still run after their attempt
    artifacts,  \* patch artifacts stored under their content
    records,    \* evidence records
    crashes

treeVars == <<tree, files>>
evidenceVars == <<artifacts, records>>
vars == <<registry, lockFile, treeVars, used, pc, job, home, live, evidenceVars, crashes>>

Content == 0..MaxContent
AdminDir == [for : Ids, marker : Ids \cup {NoId}, head : {"base", "moved"}]
ASSUME TreesAssumption == Missing \notin Int /\ NoTree \notin AdminDir

Needs == {"CLAIM", "CREATED", "FIND", "CONTEND", "REMOVED"}
Job == [id : Ids, path : Paths, need : Needs, ok : BOOLEAN,
        patch : Content, tries : 0..(LockRetries - 1)]
NoJob == [id |-> NoId, path |-> NoPath, need |-> "CLAIM", ok |-> FALSE,
          patch |-> 0, tries |-> 0]

\* Work on worktree i at path d.
Start(i, d, need, patch) ==
    [id |-> i, path |-> d, need |-> need, ok |-> FALSE,
     patch |-> patch, tries |-> 0]
Evidence == [id : Ids, content : Content]

\* The places between the two ends of withWorktreeRegistryLock.
InSection == {"load", "append", "close"}
AtLock == {"open", "stat", "break"} \cup InSection
Places == {"idle", "add", "mark", "inspect", "remove", "worker", "persist"} \cup AtLock

TypeOK ==
    /\ registry \in Seq(RegistryEvent)
    /\ lockFile \in {"absent", "fresh", "stale"}
    /\ tree \in [Paths -> AdminDir \cup {NoTree}]
    /\ files \in [Paths -> Content \cup {Missing}]
    /\ used \subseteq Ids
    /\ pc \in [Procs -> Places]
    /\ job \in [Procs -> Job \cup {NoJob}]
    /\ home \in [Procs -> Ids \cup {NoId}]
    /\ live \subseteq Ids
    /\ artifacts \subseteq Content
    /\ records \subseteq Evidence
    /\ crashes \in 0..MaxCrashes

Goto(p, place) == pc' = [pc EXCEPT ![p] = place]

\* An operation returns or throws.
Leave(p) == Goto(p, "idle") /\ job' = [job EXCEPT ![p] = NoJob]

Evidenced(i) == {r \in records : r.id = i}

Init ==
    /\ registry = <<>>
    /\ lockFile = "absent"
    /\ tree = [d \in Paths |-> NoTree]
    /\ files = [d \in Paths |-> Missing]
    /\ used = {}
    /\ pc = [p \in Procs |-> "idle"]
    /\ job = [p \in Procs |-> NoJob]
    /\ home = [p \in Procs |-> NoId]
    /\ live = {}
    /\ artifacts = {}
    /\ records = {}
    /\ crashes = 0
-----------------------------------------------------------------------------
(* withWorktreeRegistryLock: an exclusively created lock file, broken when *)
(* it is older than LOCK_STALE_MS, removed by name at the end.             *)

Enter(p, need) == /\ job' = [job EXCEPT ![p].need = need, ![p].ok = FALSE, ![p].tries = 0]
                  /\ Goto(p, "open")

OpenLock(p) == /\ pc[p] = "open"
               /\ lockFile = "absent"
               /\ lockFile' = "fresh"
               /\ Goto(p, "load")
               /\ UNCHANGED <<registry, treeVars, used, job, home, live, evidenceVars, crashes>>

LockExists(p) == /\ pc[p] = "open"
                 /\ lockFile # "absent"
                 /\ Goto(p, "stat")
                 /\ UNCHANGED <<registry, lockFile, treeVars, used, job, home, live, evidenceVars, crashes>>

\* The next attempt, or the error after the last one.
TryAgain(p) == IF job[p].tries + 1 < LockRetries
               THEN Goto(p, "open") /\ job' = [job EXCEPT ![p].tries = @ + 1]
               ELSE Leave(p)

LockIsFresh(p) == /\ pc[p] = "stat"
                  /\ lockFile = "fresh"
                  /\ TryAgain(p)
                  /\ UNCHANGED <<registry, lockFile, treeVars, used, home, live, evidenceVars, crashes>>

\* An old lock, and one that vanished since the attempt, count as stale.
LockIsStale(p) == /\ pc[p] = "stat"
                  /\ lockFile # "fresh"
                  /\ Goto(p, "break")
                  /\ UNCHANGED <<registry, lockFile, treeVars, used, job, home, live, evidenceVars, crashes>>

\* The file is removed by name, whichever file has the name by now.
BreakLock(p) == /\ pc[p] = "break"
                /\ lockFile' = "absent"
                /\ TryAgain(p)
                /\ UNCHANGED <<registry, treeVars, used, home, live, evidenceVars, crashes>>

LockAges == /\ lockFile = "fresh"
            /\ LongPauses \/ \A p \in Procs : pc[p] \notin InSection
            /\ lockFile' = "stale"
            /\ UNCHANGED <<registry, treeVars, used, pc, job, home, live, evidenceVars, crashes>>

\* Faulty: the path is checked before the worktree is added, not again here.
AcceptsUnclaimed(j) ==
    /\ ValidTransitions(registry)
    /\ CASE j.need = "CLAIM" -> ~\E r \in ActiveRecords(registry) : r.path = j.path
         [] j.need = "CREATED" -> ValidTransitions(Append(registry, Created(j.id, j.path)))
         [] j.need = "FIND" -> Active(registry, j.id)
         [] j.need = "CONTEND" -> Claimants(registry, j.id, j.path) = {}
         [] j.need = "REMOVED" -> ValidTransitions(Append(registry, Removed(j.id, j.path)))

\* What a section decides about the events it has just read.
Accepts(j) ==
    /\ ValidTransitions(registry)
    /\ CASE j.need = "CLAIM" -> ~\E r \in ActiveRecords(registry) : r.path = j.path
         [] j.need = "CREATED" -> /\ ValidTransitions(Append(registry, Created(j.id, j.path)))
                                  /\ Claimants(registry, j.id, j.path) = {}
         [] j.need = "FIND" -> Active(registry, j.id)
         [] j.need = "CONTEND" -> Claimants(registry, j.id, j.path) = {}
         [] j.need = "REMOVED" -> ValidTransitions(Append(registry, Removed(j.id, j.path)))

Load(p) == /\ pc[p] = "load"
           /\ job' = [job EXCEPT ![p].ok = Accepts(job[p])]
           /\ Goto(p, IF Accepts(job[p]) /\ job[p].need \in {"CREATED", "REMOVED"}
                      THEN "append" ELSE "close")
           /\ UNCHANGED <<registry, lockFile, treeVars, used, home, live, evidenceVars, crashes>>

AppendEvent(p) ==
    /\ pc[p] = "append"
    /\ registry' = Append(registry, [id |-> job[p].id, path |-> job[p].path, event |-> job[p].need])
    /\ Goto(p, "close")
    /\ UNCHANGED <<lockFile, treeVars, used, job, home, live, evidenceVars, crashes>>

\* finally: the lock file goes, whoever created it; then the caller goes on.
CloseLock(p) ==
    /\ pc[p] = "close"
    /\ lockFile' = "absent"
    /\ \/ /\ ~job[p].ok \/ job[p].need \in {"CREATED", "REMOVED"}
          /\ Leave(p)
       \/ job[p].ok /\ job[p].need = "CLAIM" /\ Goto(p, "add") /\ UNCHANGED job
       \/ job[p].ok /\ job[p].need = "FIND" /\ Enter(p, "CONTEND")
       \/ job[p].ok /\ job[p].need = "CONTEND" /\ Goto(p, "inspect") /\ UNCHANGED job
    /\ home' = IF job[p].ok /\ job[p].need = "CREATED"
               THEN [home EXCEPT ![p] = job[p].id] ELSE home
    /\ UNCHANGED <<registry, treeVars, used, live, evidenceVars, crashes>>
-----------------------------------------------------------------------------
(* createIsolatedWorktree, under a fresh id, at a path nothing exists at.  *)

CreateWorktree(p, i, d) ==
    /\ pc[p] = "idle"
    /\ home[p] = NoId
    /\ i \notin used
    /\ files[d] = Missing
    /\ used' = used \cup {i}
    /\ job' = [job EXCEPT ![p] = Start(i, d, "CLAIM", 0)]
    /\ Goto(p, "open")
    /\ UNCHANGED <<registry, lockFile, treeVars, home, live, evidenceVars, crashes>>

\* git worktree add --detach: refused for an existing or a registered path.
GitAdd(p) ==
    LET d == job[p].path IN
    /\ pc[p] = "add"
    /\ tree[d] = NoTree
    /\ files[d] = Missing
    /\ tree' = [tree EXCEPT ![d] = [for |-> job[p].id, marker |-> NoId, head |-> "base"]]
    /\ files' = [files EXCEPT ![d] = 0]
    /\ Goto(p, "mark")
    /\ UNCHANGED <<registry, lockFile, used, job, home, live, evidenceVars, crashes>>

GitAddFails(p) == /\ pc[p] = "add"
                  /\ Leave(p)
                  /\ UNCHANGED <<registry, lockFile, treeVars, used, home, live, evidenceVars, crashes>>

\* resolveHeadSha and createWorktreeOwnershipMarker: HEAD is read in the
\* checkout, the marker is created exclusively in the admin directory that
\* git names for it.
Mark(p) ==
    LET d == job[p].path IN
    /\ pc[p] = "mark"
    /\ files[d] # Missing
    /\ tree[d].marker = NoId
    /\ tree' = [tree EXCEPT ![d].marker = job[p].id]
    /\ Enter(p, "CREATED")
    /\ UNCHANGED <<registry, lockFile, files, used, home, live, evidenceVars, crashes>>

MarkFails(p) == /\ pc[p] = "mark"
                /\ files[job[p].path] = Missing
                /\ Leave(p)
                /\ UNCHANGED <<registry, lockFile, treeVars, used, home, live, evidenceVars, crashes>>
-----------------------------------------------------------------------------
(* The attempts of the run that retains a worktree.                        *)

\* The path of a recorded worktree.
PathOf(i) == (CHOOSE r \in {registry[n] : n \in DOMAIN registry} : r.id = i).path

StartAttempt(p) == /\ pc[p] = "idle"
                   /\ home[p] # NoId
                   /\ home[p] \notin live
                   /\ Goto(p, "worker")
                   /\ UNCHANGED <<registry, lockFile, treeVars, used, job, home, live, evidenceVars, crashes>>

\* A worker, or what it left running, changes the checkout.
Working(i) == i \in live \/ \E p \in Procs : home[p] = i /\ pc[p] = "worker"

Write(i) == /\ Working(i)
            /\ files[PathOf(i)] \in 0..(MaxContent - 1)
            /\ files' = [files EXCEPT ![PathOf(i)] = @ + 1]
            /\ UNCHANGED <<registry, lockFile, tree, used, pc, job, home, live, evidenceVars, crashes>>

\* It commits, resets or merges although it is told not to.
MoveHead(i) == /\ Working(i)
               /\ files[PathOf(i)] # Missing
               /\ tree[PathOf(i)] # NoTree
               /\ tree' = [tree EXCEPT ![PathOf(i)].head = "moved"]
               /\ UNCHANGED <<registry, lockFile, files, used, pc, job, home, live, evidenceVars, crashes>>

\* The attempt ends before a patch is extracted: the run fails closed (with
\* the worker's descendants perhaps alive), or the base check refuses.
FailAttempt(p) ==
    /\ pc[p] = "worker"
    /\ \/ UNCHANGED live
       \/ ~WorkersQuiesce /\ live' = live \cup {home[p]}
    /\ Goto(p, "idle")
    /\ UNCHANGED <<registry, lockFile, treeVars, used, job, home, evidenceVars, crashes>>

\* Faulty: only the record is written now, the patch never or later.
StorePatchLater(p) ==
    LET d == PathOf(home[p]) IN
    /\ pc[p] = "worker"
    /\ files[d] # Missing
    /\ tree[d].head = "base"
    /\ job' = [job EXCEPT ![p] = Start(home[p], d, "CLAIM", files[d])]
    /\ Goto(p, "persist")
    /\ UNCHANGED <<registry, lockFile, treeVars, used, home, live, evidenceVars, crashes>>

\* collectPatchEvidence and the first half of persistPatchEvidence: the patch
\* is stored under its hash, or the stored one is verified and reused.
StorePatch(p) ==
    LET d == PathOf(home[p]) IN
    /\ pc[p] = "worker"
    /\ files[d] # Missing
    /\ tree[d].head = "base"
    /\ artifacts' = artifacts \cup {files[d]}
    /\ job' = [job EXCEPT ![p] = Start(home[p], d, "CLAIM", files[d])]
    /\ Goto(p, "persist")
    /\ UNCHANGED <<registry, lockFile, treeVars, used, home, live, records, crashes>>

\* The second half: the record is written before a scope violation is raised.
StoreRecord(p) ==
    /\ pc[p] = "persist"
    /\ records' = records \cup {[id |-> job[p].id, content |-> job[p].patch]}
    /\ Leave(p)
    /\ UNCHANGED <<registry, lockFile, treeVars, used, home, live, artifacts, crashes>>
-----------------------------------------------------------------------------
(* removeIsolatedWorktree, keyed by the worktree id.                       *)

Recorded(i) == \E n \in DOMAIN registry : registry[n].id = i

\* The controller cleans up at the end of its run and hands in the evidence
\* of the run; what no process retains any more, after a crash say, a later
\* caller may clean up, with whatever evidence of it is stored.
RemoveWorktree(p, i) ==
    /\ pc[p] = "idle"
    /\ Recorded(i)
    /\ \/ home[p] = i
       \/ \A q \in Procs : home[q] # i /\ job[q].id # i
    /\ home' = [home EXCEPT ![p] = NoId]
    /\ job' = [job EXCEPT ![p] = Start(i, PathOf(i), "FIND", 0)]
    /\ Goto(p, "open")
    /\ UNCHANGED <<registry, lockFile, treeVars, used, live, evidenceVars, crashes>>

\* Faulty: any evidence in the store will do.
EvidenceVerifiedAny(j) == records # {}

\* verifyDirtyCleanupEvidence: the refs resolve to records of this worktree
\* whose artifact is stored.
EvidenceVerified(j) ==
    /\ Evidenced(j.id) # {}
    /\ \A r \in Evidenced(j.id) : r.content \in artifacts

\* Faulty: git's registration of the path is taken for ownership.
MarkerBindsPath(j) == tree[j.path] # NoTree

\* The admin directory of the path carries the marker of this lifecycle,
\* whether it is found through the checkout or, when the checkout is gone,
\* through git's own metadata.
MarkerBinds(j) == tree[j.path] # NoTree /\ tree[j.path].marker = j.id

MayRemove(j) ==
    /\ MarkerBinds(j)
    /\ tree[j.path].head = "base"
    /\ files[j.path] \in {Missing, 0} \/ EvidenceVerified(j)

Inspect(p) ==
    /\ pc[p] = "inspect"
    /\ IF MayRemove(job[p]) THEN Goto(p, "remove") /\ UNCHANGED job ELSE Leave(p)
    /\ UNCHANGED <<registry, lockFile, treeVars, used, home, live, evidenceVars, crashes>>

\* git worktree remove --force takes the checkout and its registration.
GitRemove(p) ==
    LET d == job[p].path IN
    /\ pc[p] = "remove"
    /\ tree[d] # NoTree
    /\ tree' = [tree EXCEPT ![d] = NoTree]
    /\ files' = [files EXCEPT ![d] = Missing]
    /\ Enter(p, "REMOVED")
    /\ UNCHANGED <<registry, lockFile, used, home, live, evidenceVars, crashes>>

GitRemoveFails(p) == /\ pc[p] = "remove"
                     /\ Leave(p)
                     /\ UNCHANGED <<registry, lockFile, treeVars, used, home, live, evidenceVars, crashes>>
-----------------------------------------------------------------------------
(* What happens around the controllers.                                    *)

\* A process dies; its lock file and its half-done work stay.
Crash(p) == /\ crashes < MaxCrashes
            /\ pc[p] # "idle" \/ home[p] # NoId
            /\ crashes' = crashes + 1
            /\ Leave(p)
            /\ home' = [home EXCEPT ![p] = NoId]
            /\ \/ UNCHANGED live
               \/ ~WorkersQuiesce /\ pc[p] = "worker" /\ live' = live \cup {home[p]}
            /\ UNCHANGED <<registry, lockFile, treeVars, used, evidenceVars>>

\* Somebody deletes a checkout directory.
Vanish(d) == /\ files[d] # Missing
             /\ files' = [files EXCEPT ![d] = Missing]
             /\ UNCHANGED <<registry, lockFile, tree, used, pc, job, home, live, evidenceVars, crashes>>

Step(p) ==
    \/ OpenLock(p) \/ LockExists(p) \/ LockIsFresh(p) \/ LockIsStale(p) \/ BreakLock(p)
    \/ Load(p) \/ AppendEvent(p) \/ CloseLock(p)
    \/ GitAdd(p) \/ GitAddFails(p) \/ Mark(p) \/ MarkFails(p)
    \/ FailAttempt(p) \/ StorePatch(p) \/ StoreRecord(p)
    \/ Inspect(p) \/ GitRemove(p) \/ GitRemoveFails(p)

Request(p) ==
    \/ StartAttempt(p)
    \/ \E i \in Ids : \/ \E d \in Paths : CreateWorktree(p, i, d)
                      \/ RemoveWorktree(p, i)

Environment ==
    \/ LockAges
    \/ \E p \in Procs : Crash(p)
    \/ \E i \in Ids : Write(i) \/ MoveHead(i)
    \/ \E d \in Paths : Vanish(d)

Next == \/ \E p \in Procs : Step(p) \/ Request(p)
        \/ Environment

Spec == Init /\ [][Next]_vars
-----------------------------------------------------------------------------
(* Two open lifecycles never claim one path, although the claim is checked *)
(* long before the CREATED event is appended and the lock that makes read, *)
(* check and append one step can be broken: git itself admits one worktree *)
(* per path, and a record outlives its worktree.                           *)
PathClaimedOnce ==
    \A r, s \in ActiveRecords(registry) : r.path = s.path => r.id = s.id

(* Cleanup only ever removes the worktree whose creation recorded the id   *)
(* that is being cleaned up, however many identities reuse the path.       *)
RemovesOnlyItsOwn ==
    [][\A d \in Paths : tree[d] # NoTree /\ tree'[d] = NoTree =>
          \E p \in Procs : pc[p] = "remove" /\ job[p].id = tree[d].for /\ job[p].path = d]_vars

(* A checkout with uncommitted worker changes is only removed when patch   *)
(* evidence of that very worktree was stored before.  The exception is a   *)
(* path at which workers outlived their attempt: they may still write      *)
(* between the status check and the forced removal, even there where a     *)
(* later lifecycle took over the path.                                     *)
DirtyRemovalIsEvidenced ==
    [][\A d \in Paths : /\ tree[d] # NoTree /\ tree'[d] = NoTree
                        /\ files[d] \notin {Missing, 0}
                        /\ \A i \in live : PathOf(i) # d
                        => Evidenced(tree[d].for) # {}]_vars

(* An evidence record never refers to a patch that is not stored, even     *)
(* when the process dies between the two writes.                           *)
RecordsHavePatches == \A r \in records : r.content \in artifacts

(* Check and append are one step to an observer: the registry implements   *)
(* atomic claims on paths.                                                 *)
claimOf == [i \in Ids |-> IF Active(registry, i) THEN PathOf(i) ELSE NoPath]
closedIds == {i \in Ids : Recorded(i) /\ ~Active(registry, i)}
Claims == INSTANCE PathClaims WITH claim <- claimOf, closed <- closedIds
ImplementsPathClaims == Claims!Spec

-----------------------------------------------------------------------------
(* What the documents say and the code does not do.                        *)

(* worktree.mjs 373: never destroy uncommitted changes before matching      *)
(* evidence was verified.  The content of the checkout is in the evidence  *)
(* before it is destroyed.                                                 *)
NoContentLost ==
    [][\A d \in Paths : tree[d] # NoTree /\ tree'[d] = NoTree /\ files[d] \notin {Missing, 0} =>
          [id |-> tree[d].for, content |-> files[d]] \in records]_vars
=============================================================================
