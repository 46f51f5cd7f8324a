---------------------------- MODULE MCProHandoff ----------------------------
(***************************************************************************)
(* Small instances of ProHandoff: three contract sources, two of which     *)
(* hold the same requirement and one of which is not compiled, and one     *)
(* question of every call type beside questions that must be refused.      *)
(***************************************************************************)
EXTENDS ProHandoff

CONSTANTS
    A, B, C,                \* contracts
    r1, r2, r3,             \* requirements
    ev1, ev2, ev3, ev4,     \* evidence
    inv,                    \* an invariant of a checklist
    p1, p2, e1, e2          \* processes and escalations

Symmetric == Permutations(Processes) \cup Permutations(Escalations)

ScopeOf == [r \in {r1, r2, r3} |-> <<"scope", r>>]

SourceOf(c, compiled, items) == [key |-> c, digest |-> c, compiled |-> compiled, items |-> items]
SourceA == SourceOf(A, TRUE, {r1, r2})
SourceB == SourceOf(B, TRUE, {r1, r3})
SourceC == SourceOf(C, FALSE, {r3})

Ref(c, requirements) == [key |-> c, digest |-> c, requirements |-> requirements]
Item(ref, size, critical) == [ref |-> ref, size |-> size, critical |-> critical]

Ask(type, contracts) ==
    [ type |-> type, contracts |-> contracts, evidence |-> <<Item(ev1, 1, FALSE)>>, block |-> <<>>,
      budget |-> [items |-> 3, bytes |-> 4, truncates |-> FALSE],
      names |-> [pass |-> {ev1}, fail |-> {}], declared |-> [pass |-> {ev1}, fail |-> {}],
      criterion |-> None, quotes |-> None, checklist |-> <<>>, neighbors |-> {}, finding |-> None ]

\* A diagnosis whose evidence is over its budget: ev2 does not fit, ev3 must.
Diagnosis(contracts) ==
    [Ask(Diagnose, contracts) EXCEPT
        !.evidence = <<Item(ev1, 1, FALSE), Item(ev2, 3, FALSE), Item(ev3, 1, TRUE)>>,
        !.budget = [items |-> 3, bytes |-> 3, truncates |-> TRUE], !.criterion = r1, !.quotes = r1]

Review == [Ask(FinalReview, {Ref(A, {r1, r2})}) EXCEPT !.checklist = [i \in {inv} |-> r2]]

Crowded == [Diagnosis({Ref(A, {r1})}) EXCEPT
                !.evidence = <<Item(ev1, 1, FALSE), Item(ev2, 1, FALSE), Item(ev3, 1, TRUE)>>,
                !.names = [pass |-> {ev1}, fail |-> {ev2}], !.declared = [pass |-> {ev1}, fail |-> {ev2}],
                !.budget = [items |-> 2, bytes |-> 4, truncates |-> TRUE]]

\* Decision-critical evidence that no budget of its size can hold.
Oversized == [Diagnosis({Ref(A, {r1})}) EXCEPT !.evidence = <<Item(ev1, 1, FALSE), Item(ev3, 3, TRUE)>>]

SmallInputs ==
    { <<{SourceA, SourceB}, Diagnosis({Ref(B, {r1})})>>,
      <<{SourceA, SourceB}, Diagnosis({Ref(A, {r1}), Ref(B, {r1})})>>,
      <<{SourceA, SourceC}, Diagnosis({Ref(A, {r1})})>>,
      <<{SourceA}, Crowded>>, <<{SourceA}, Oversized>>,
      <<{SourceA, SourceB}, Review>>,
      <<{SourceC}, Ask(ContractCheck, {Ref(C, {r3})})>>,
      <<{SourceC}, [Ask(FinalReview, {Ref(C, {r3})}) EXCEPT !.checklist = [i \in {inv} |-> r3]]>> }

Delta(contracts, finding) ==
    [Ask(Recheck, contracts) EXCEPT
        !.evidence = <<>>, !.block = <<Item(ev4, 1, FALSE)>>, !.neighbors = {r2}, !.finding = finding,
        !.names = [pass |-> {ev4}, fail |-> {}], !.declared = [pass |-> {ev4}, fail |-> {}]]

SmallFollowUps ==
    { Delta({Ref(A, {r1, r2})}, FindingId),
      [Delta({Ref(B, {r1})}, FindingId) EXCEPT !.neighbors = {}],
      Delta({Ref(A, {r2}), Ref(B, {r1})}, FindingId) }

Says(verdict, full, refs, invariant) ==
    [ verdict |-> verdict, full |-> full, refs |-> refs, invariant |-> invariant,
      critical |-> TRUE, amends |-> {}, adjacent |-> {} ]

SmallDirectives ==
    { Says("CAUSE_IDENTIFIED", TRUE, {ev1}, None), Says("CAUSE_IDENTIFIED", TRUE, {ev2}, None),
      Says("CAUSE_UNRESOLVED", FALSE, {}, None),
      Says("FAIL", TRUE, {ev1}, inv), Says("PASS", FALSE, {}, None),
      [Says("FAIL", TRUE, {ev1}, inv) EXCEPT !.adjacent = {[refs |-> {ev1}, locked |-> r1]}, !.critical = FALSE],
      Says("NOT_RESOLVED", TRUE, {ev4}, FindingId), Says("NOT_RESOLVED", TRUE, {ev4}, r2), Says("RESOLVED", FALSE, {}, None),
      [Says("AMENDMENTS_REQUIRED", TRUE, {}, None) EXCEPT !.amends = {C}],
      [Says("AMENDMENTS_REQUIRED", TRUE, {}, None) EXCEPT !.amends = {A}] }
=============================================================================
