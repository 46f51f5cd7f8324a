-------------------------- MODULE ProcessSupervisor --------------------------
(***************************************************************************)
(* The process-lifetime supervisor of one provider invocation, src/src/    *)
(* controller/process-supervisor.mjs, over the process table it reads:     *)
(* polling of the ancestry while the direct child lives, then SIGTERM,     *)
(* SIGKILL and the verdict.  Rows and environments are two reads of `ps`;  *)
(* processes fork, change and end between any two steps.                   *)
(***************************************************************************)
EXTENDS Naturals

CONSTANTS
    Pids,       \* process ids
    NoPid,      \* no process
    Invs,       \* invocations
    NoInv,      \* no invocation
    Escapes     \* what a process may do: subset of {"fork", "group", "marker", "ignore", "blind"}

\* fork: start a process (the profile of the boundary denies it)    group: start its own group
\* marker: take the marker out of its environment                   ignore: ignore SIGTERM
\* blind: make the process table unreadable
ASSUME PidAssumption == NoPid \notin Pids /\ NoInv \notin Invs
ASSUME EscapeAssumption == Escapes \subseteq {"fork", "group", "marker", "ignore", "blind"}

VARIABLES
    proc,       \* of each pid: its invocation, its parent, the two marks it inherits, and
                \* whether the supervisor has seen it below the root or by its marker
    sup         \* the supervisor of the invocation in progress

Free == [inv |-> NoInv, parent |-> NoPid, grouped |-> FALSE, marked |-> FALSE, seen |-> FALSE]
Live(p) == proc[p].inv # NoInv

\* root: the direct child    tracked: pids seen below it    blind: some read has failed
\* round, half: where quiesce() is    seen: survivors of the first half of the round
Idle(i) == [inv |-> i, root |-> NoPid, tracked |-> {}, blind |-> FALSE,
            round |-> "off", half |-> "rows", seen |-> {}, verdict |-> "none"]

InitSupervisor == proc = [p \in Pids |-> Free] /\ sup = Idle(NoInv)

-----------------------------------------------------------------------------
(* Processes. *)

Gone(S) == [p \in Pids |-> IF p \in S THEN Free
                           ELSE IF proc[p].parent \in S THEN [proc[p] EXCEPT !.parent = NoPid]
                           ELSE proc[p]]

Fork(p, c) == /\ "fork" \in Escapes
              /\ Live(p) /\ ~Live(c)
              /\ proc' = [proc EXCEPT ![c] = [proc[p] EXCEPT !.parent = p, !.seen = FALSE]]
              /\ UNCHANGED sup

\* A group leader cannot leave its group.
LeaveGroup(p) == /\ "group" \in Escapes
                 /\ Live(p) /\ p # sup.root
                 /\ proc' = [proc EXCEPT ![p].grouped = FALSE]
                 /\ UNCHANGED sup

DropMarker(p) == /\ "marker" \in Escapes
                 /\ Live(p)
                 /\ proc' = [proc EXCEPT ![p].marked = FALSE]
                 /\ UNCHANGED sup

Exit(p) == /\ Live(p)
           /\ proc' = Gone({p})
           /\ UNCHANGED sup

\* SIGTERM ends those who do not ignore it.
Term(S) == \E D \in SUBSET S : /\ "ignore" \in Escapes \/ D = S
                               /\ proc' = Gone(D)

-----------------------------------------------------------------------------
(* Reading the process table. *)

Children(S) == {p \in Pids : Live(p) /\ proc[p].parent \in S}

\* The walk starts at the root only: the smallest set closed under children.
Descendants(r) == {p \in Pids : \A S \in SUBSET Pids : Children(S \cup {r}) \subseteq S => p \in S}

Watched == sup.tracked \cup (Descendants(sup.root) \ {sup.root})
Saw(S) == proc' = [p \in Pids |-> IF Live(p) /\ p \in S THEN [proc[p] EXCEPT !.seen = TRUE] ELSE proc[p]]

Members == {p \in Pids : proc[p].inv = sup.inv}
\* Faulty: only the ancestry and the marker count.
RowsOfTree == {p \in Pids : Live(p) /\ p \in Watched \cup {sup.root}}

FromRows == {p \in Pids : Live(p) /\ p \in Watched \cup {sup.root}} \cup {p \in Members : proc[p].grouped}
FromMarkers == {p \in Members : proc[p].marked}

\* begin(): the direct child has just been spawned, as leader of its own group.
Begin(p) == /\ ~Live(p)
            /\ proc' = [proc EXCEPT ![p] = [inv |-> sup.inv, parent |-> NoPid, grouped |-> TRUE, marked |-> TRUE,
                                          seen |-> FALSE]]
            /\ sup' = [sup EXCEPT !.root = p, !.round = "watching"]

Poll == /\ sup.round = "watching"
        /\ \/ sup' = [sup EXCEPT !.tracked = Watched] /\ Saw(Watched)
           \/ "blind" \in Escapes /\ sup' = [sup EXCEPT !.blind = TRUE] /\ UNCHANGED proc

\* quiesce(): without a process there is nothing to prove.
Quiesce == /\ sup.round \in {"off", "watching"}
           /\ sup' = IF sup.round = "off" THEN [sup EXCEPT !.round = "done", !.verdict = "verified"]
                     ELSE [sup EXCEPT !.round = "first"]
           /\ UNCHANGED proc

Rounds == {"first", "afterTerm", "afterKill", "final"}

ReadRows == /\ sup.round \in Rounds
            /\ sup.half = "rows"
            /\ sup' = [sup EXCEPT !.tracked = Watched, !.seen = FromRows, !.half = "marks"]
            /\ Saw(Watched)

Enter(round, tracked) == sup' = [sup EXCEPT !.round = round, !.half = "rows", !.seen = {}, !.tracked = tracked]

Survivors == sup.seen \cup FromMarkers

\* The first round, and its signals; marker matches are tracked from here on.
ReadMarkersFirst ==
    LET tracked == sup.tracked \cup (FromMarkers \ {sup.root}) IN
    /\ sup.round = "first"
    /\ sup.half = "marks"
    /\ \/ Survivors = {} /\ Enter("final", tracked) /\ UNCHANGED proc
       \/ Survivors # {} /\ Enter("afterTerm", tracked) /\ Term(Survivors)

\* waitForAbsence: read again until nobody is left, or the grace is over.
ReadMarkersAgain ==
    /\ sup.round \in {"afterTerm", "afterKill"}
    /\ sup.half = "marks"
    /\ \/ Survivors = {} /\ Enter("final", sup.tracked)
       \/ Survivors # {} /\ Enter(sup.round, sup.tracked)
    /\ UNCHANGED proc

GraceEnds ==
    /\ sup.half = "marks"
    /\ Survivors # {}
    /\ \/ sup.round = "afterTerm" /\ Enter("afterKill", sup.tracked) /\ proc' = Gone(Survivors)
       \/ sup.round = "afterKill" /\ Enter("final", sup.tracked) /\ UNCHANGED proc

Verdict(good) == sup' = [sup EXCEPT !.round = "done", !.half = "rows", !.seen = {},
                                    !.verdict = IF good THEN "verified" ELSE "unverified"]

ReadMarkersLast == /\ sup.round = "final"
                   /\ sup.half = "marks"
                   /\ Verdict(Survivors = {} /\ ~sup.blind)
                   /\ UNCHANGED proc

\* A read that fails is remembered, and nothing is inferred from it.
ReadFails == /\ sup.round \in Rounds
             /\ "blind" \in Escapes
             /\ \/ sup.round = "final" /\ Verdict(FALSE)
                \/ /\ sup.round # "final"
                   /\ sup' = [sup EXCEPT !.round = "final", !.half = "rows", !.seen = {}, !.blind = TRUE]
             /\ UNCHANGED proc
=============================================================================
