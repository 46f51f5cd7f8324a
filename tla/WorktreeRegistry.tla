-------------------------- MODULE WorktreeRegistry --------------------------
(***************************************************************************)
(* The registry of worktrees as a value: the events of registry.jsonl and  *)
(* the judgements git/worktree-registry.mjs makes about them.  The field   *)
(* formats a line is checked for are left out: every line the model        *)
(* appends passes them.  An event stands for its worktree id, path, kind   *)
(* and marker; all worktrees sit on one base.                              *)
(***************************************************************************)
EXTENDS Integers, Sequences

CONSTANTS Ids,      \* worktree ids, fresh for every creation
          Paths     \* canonical worktree paths

\* The marker id is drawn together with the worktree id and never shared, so
\* an id also names its marker.
RegistryEvent == [id : Ids, path : Paths, event : {"CREATED", "REMOVED"}]

Created(i, p) == [id |-> i, path |-> p, event |-> "CREATED"]
Removed(i, p) == [id |-> i, path |-> p, event |-> "REMOVED"]

Before(reg, n, i) == {m \in 1..(n - 1) : reg[m].id = i}

\* assertValidRegistryTransitions: per id one CREATED, then at most one REMOVED.
ValidTransitions(reg) ==
    \A n \in DOMAIN reg :
        IF reg[n].event = "CREATED"
        THEN Before(reg, n, reg[n].id) = {}
        ELSE \E m \in Before(reg, n, reg[n].id) :
                 Before(reg, n, reg[n].id) = {m} /\ reg[m].event = "CREATED"

\* activeWorktreeRecordsUnlocked: the ids whose latest event is CREATED.
Latest(reg, n) == \A m \in DOMAIN reg : reg[m].id = reg[n].id => m <= n
ActiveRecords(reg) ==
    {reg[n] : n \in {k \in DOMAIN reg : Latest(reg, k) /\ reg[k].event = "CREATED"}}

Active(reg, i) == \E r \in ActiveRecords(reg) : r.id = i

\* The active records of other ids on a path (claims and contenders).
Claimants(reg, i, p) == {r \in ActiveRecords(reg) : r.path = p /\ r.id # i}
=============================================================================
