---------------------------- MODULE SolContracts ----------------------------
(***************************************************************************)
(* The documents LCIM exchanges with SOL and the rules that bind them: the *)
(* compiled ask, the response that answers it and the repair ticket cut    *)
(* from a diagnosis.  Digests and requirement ids are derived from content *)
(* in the code, so here they are the content: a contract source is         *)
(*   [key, digest, compiled, items]                                        *)
(* with items the requirements it holds, and a requirement has one scope   *)
(* whichever source holds it.  Prose, patterns and byte counts of prose    *)
(* are left out; evidence is its reference, its size and its weight.       *)
(***************************************************************************)
EXTENDS Naturals, Sequences, FiniteSets, Functions, SequencesExt

CONSTANTS
    None,           \* no document, no criterion
    Marker,         \* the reserved reference of the truncation marker
    MarkerSize,     \* what the marker costs of a budget
    Scope           \* Scope[r]: the side-effect scope of requirement r

Diagnose == "SOL_DIAGNOSE"
ContractCheck == "SOL_CONTRACT_CHECK"
FinalReview == "SOL_FINAL_REVIEW"
Recheck == "SOL_RECHECK"

Verdicts == [ SOL_DIAGNOSE       |-> {"CAUSE_IDENTIFIED", "CAUSE_UNRESOLVED"},
              SOL_CONTRACT_CHECK |-> {"SUFFICIENTLY_SPECIFIED", "AMENDMENTS_REQUIRED"},
              SOL_FINAL_REVIEW   |-> {"PASS", "FAIL"},
              SOL_RECHECK        |-> {"RESOLVED", "NOT_RESOLVED"} ]
-----------------------------------------------------------------------------
(* The evidence budget: [items, bytes, truncates].                         *)

Refs(items) == {items[i].ref : i \in DOMAIN items}

Size(items) == FoldSeq(LAMBDA item, sum : item.size + sum, 0, items)

Fits(items, room) == Len(items) <= room.items /\ Size(items) <= room.bytes

\* Truncation keeps, in the authored order, every item that still fits.
Keep(items, room) ==
    FoldLeft(LAMBDA kept, item : IF Fits(Append(kept, item), room) THEN Append(kept, item) ELSE kept,
             <<>>, items)

Room(budget) == [items |-> budget.items - 1, bytes |-> budget.bytes - MarkerSize]

\* Faulty: only what a decision refers to is protected.
DroppableUnlessCited(items, kept, decisive) ==
    \A i \in DOMAIN items : items[i].ref \in Refs(kept) \/ items[i].ref \notin decisive

\* An item that is decision-critical, or that a decision refers to, is never dropped.
Droppable(items, kept, decisive) ==
    \A i \in DOMAIN items : items[i].ref \in Refs(kept) \/ (~items[i].critical /\ items[i].ref \notin decisive)

\* The references that survive the budget, or None when it cannot hold what is needed.
Retained(items, budget, decisive) ==
    LET kept == Keep(items, Room(budget))
    IN  IF Fits(items, budget) THEN Refs(items)
        ELSE IF /\ budget.truncates
                /\ Room(budget).items >= 1 /\ Room(budget).bytes >= 1
                /\ Droppable(items, kept, decisive)
             THEN Refs(kept) \cup {Marker}
             ELSE None
-----------------------------------------------------------------------------
(* Asks.  A contract reference is [key, digest, requirements].  For each   *)
(* of the two conditions, "pass" and "fail", names holds the evidence      *)
(* references its prose mentions and declared those it lists; delta holds  *)
(* those of the call's own block (prior evidence or delta evidence).       *)

Listed(doc) == UNION Range(doc.declared)

Resolvable(doc) == doc.evidence \ {Marker}

Declared(ask) == UNION {ref.requirements : ref \in ask.contracts}

Bindings(ask) == {<<ref.key, ref.digest>> : ref \in ask.contracts}

Binds(ref, source) == ref.key = source.key /\ ref.digest = source.digest

\* The rules an ask obeys by itself.
WellFormed(ask) ==
    /\ Marker \in ask.evidence => ask.truncates
    /\ Listed(ask) \cup ask.delta \subseteq Resolvable(ask)
    /\ \A condition \in DOMAIN ask.names : ask.names[condition] \subseteq ask.declared[condition]
    /\ ask.type = Recheck => Resolvable(ask) \subseteq ask.delta
    /\ ask.type = Diagnose => ask.criterion \in Declared(ask)

\* The rules that bind it to its sources.
Bound(ask, sources) ==
    /\ \A ref \in ask.contracts : \E s \in sources :
            /\ Binds(ref, s)
            /\ ref.requirements \subseteq s.items
            /\ ask.type # ContractCheck => s.compiled
    /\ ask.type = FinalReview => Range(ask.checklist) \subseteq Declared(ask)
    /\ ask.type = Recheck => ask.neighbors \subseteq Declared(ask)
    /\ ask.type = Diagnose =>
            (\E s \in sources : ask.criterion \in s.items) /\ ask.quotes = ask.criterion

\* An accepted adjacent defect is a finding too; its id is derived from its content.
AdjacentId(defect) == <<"adjacent", defect>>

Finding(response, id) ==
    IF \E i \in DOMAIN response.findings : response.findings[i].id = id
    THEN SelectSeq(response.findings, LAMBDA f : f.id = id)[1]
    ELSE IF \E d \in response.adjacent : AdjacentId(d) = id
         THEN CHOOSE d \in response.adjacent : AdjacentId(d) = id
         ELSE None
-----------------------------------------------------------------------------
(* Responses.                                                              *)

Citable(response, ask) == Resolvable(response) \cup Resolvable(ask)

ChecksContract(r, ask) ==
    /\ r.findings = <<>>
    /\ (r.verdict = "AMENDMENTS_REQUIRED") <=> (r.amends # {})
    /\ r.amends \subseteq {ref.key : ref \in ask.contracts}

\* The repair stays within the scope of the criterion when a source holds it.
Diagnoses(r, ask, sources) ==
    /\ (r.verdict = "CAUSE_IDENTIFIED") <=> (r.failure # None)
    /\ Len(r.findings) <= 1
    /\ \A i \in DOMAIN r.findings : r.findings[i].invariant = ask.criterion
    /\ r.failure # None =>
            /\ r.failure.refs \subseteq Citable(r, ask)
            /\ r.failure.tests \subseteq {ask.criterion}
            /\ (\E s \in sources : ask.criterion \in s.items) =>
                    r.failure.targets \subseteq {Scope[ask.criterion]}

Reviews(r, ask) ==
    /\ r.verdict = "PASS" => r.findings = <<>> /\ r.adjacent = {}
    /\ r.verdict = "FAIL" =>
            /\ r.findings # <<>>
            /\ (\E i \in DOMAIN r.findings : r.findings[i].critical) \/ r.adjacent # {}
    /\ Cardinality(r.adjacent) <= 1
    /\ \A i \in DOMAIN r.findings :
            /\ r.findings[i].invariant \in DOMAIN ask.checklist
            /\ r.findings[i].refs \subseteq Citable(r, ask)
    /\ \A d \in r.adjacent : d.refs \subseteq Citable(r, ask) /\ d.locked \in Declared(ask)

Rechecks(r, ask) ==
    /\ r.evidence = {}
    /\ (r.verdict = "NOT_RESOLVED") <=> (r.findings # <<>>)
    /\ \A i \in DOMAIN r.findings :
            /\ r.findings[i].invariant \in {ask.prior.finding} \cup ask.neighbors
            /\ r.findings[i].refs \subseteq Resolvable(ask)

ValidResponse(r, ask, sources) ==
    /\ r.ask = ask.id /\ r.type = ask.type
    /\ r.verdict \in Verdicts[r.type]
    /\ r.amends # {} => r.type = ContractCheck
    /\ r.failure # None => r.type = Diagnose
    /\ r.adjacent # {} => r.type = FinalReview
    /\ \/ r.type = ContractCheck /\ ChecksContract(r, ask)
       \/ r.type = Diagnose /\ Diagnoses(r, ask, sources)
       \/ r.type = FinalReview /\ Reviews(r, ask)
       \/ r.type = Recheck /\ Rechecks(r, ask)

\* A recheck is anchored in a valid ask, its response and a finding of that response.
Anchored(ask, prior) ==
    /\ WellFormed(prior.ask)
    /\ ValidResponse(prior.response, prior.ask, {})
    /\ ask.prior.ask = prior.ask.id
    /\ ask.prior.response = prior.response.id
    /\ Finding(prior.response, ask.prior.finding) # None
    /\ ask.prior.digest = Finding(prior.response, ask.prior.finding)

\* prior is None when the caller has none to supply.
ValidAsk(ask, sources, prior) ==
    /\ WellFormed(ask)
    /\ Bound(ask, sources)
    /\ ask.type = Recheck /\ prior # None => Anchored(ask, prior)
-----------------------------------------------------------------------------
(* Compiling an ask from its input, and a ticket from a diagnosis.         *)

\* Everything the decision rests on is protected from truncation.
Decisive(input) == Listed(input) \cup Refs(input.block)

Pool(input) == input.evidence \o input.block

\* The ask a draft becomes, with what the compiler derives; None when it refuses.
CompiledAsk(input, id, sources, prior) ==
    LET retained == Retained(Pool(input), input.budget, Decisive(input))
        draft == [ id |-> id, type |-> input.type, contracts |-> input.contracts,
                   evidence |-> retained, truncates |-> input.budget.truncates,
                   names |-> input.names, declared |-> input.declared,
                   delta |-> Refs(input.block),
                   criterion |-> input.criterion, quotes |-> input.quotes,
                   checklist |-> input.checklist, neighbors |-> input.neighbors,
                   prior |-> IF input.type # Recheck THEN None
                             ELSE [ ask |-> prior.ask.id, response |-> prior.response.id,
                                    finding |-> input.finding,
                                    digest |-> Finding(prior.response, input.finding) ] ]
    IN  IF /\ IsInjective([i \in DOMAIN Pool(input) |-> Pool(input)[i].ref])
           /\ Marker \notin Refs(Pool(input))
           /\ input.type = Recheck => prior # None /\ input.evidence = <<>> /\ input.block # <<>>
           /\ retained # None
           /\ ValidAsk(draft, sources, prior)
        THEN draft ELSE None

\* The contract references that claim the diagnosed criterion.
Claims(ask) == {ref \in ask.contracts : ask.criterion \in ref.requirements}

\* Faulty: the first source that holds the criterion, whichever the ask binds.
SourceHolding(ask, sources) == CHOOSE s \in sources : ask.criterion \in s.items

Source(ask, sources) ==
    CHOOSE s \in sources : \E ref \in Claims(ask) : Binds(ref, s)

Convertible(ask, response, sources) ==
    /\ ask.type = Diagnose /\ response.type = Diagnose
    /\ response.verdict = "CAUSE_IDENTIFIED"
    /\ \A s \in sources : s.compiled
    /\ ValidAsk(ask, sources, None)
    /\ ValidResponse(response, ask, sources)
    /\ Cardinality(Claims(ask)) = 1
    /\ response.failure.targets \subseteq {Scope[ask.criterion]}

Ticket(ask, response, sources) ==
    LET source == Source(ask, sources)
    IN  [ ask |-> ask.id, response |-> response.id, criterion |-> ask.criterion,
          key |-> source.key, digest |-> source.digest,
          changes |-> response.failure.targets ]
=============================================================================
