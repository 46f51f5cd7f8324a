----------------------------- MODULE ProHandoff -----------------------------
(***************************************************************************)
(* The manual hand-off to SOL Pro: an escalation record on disk, processes *)
(* that compile its questions, put them on the clipboard and take pasted   *)
(* directives back, each a command that may fail or die between two steps. *)
(* An update of the record runs under the lock of its directory and        *)
(* replaces the file atomically, so it is one step; what a command read    *)
(* before an update is old when the update runs.                           *)
(***************************************************************************)
EXTENDS SolContracts

CONSTANTS
    Processes,          \* the commands that may run at the same time
    Escalations,        \* the fresh identifiers of escalations
    FindingId,          \* the controller's finding, the same for every escalation
    Inputs,             \* <<sources, input>>: what an escalation is created with
    FollowUps,          \* the inputs of follow-ups
    Directives,         \* what a pasted directive says besides its identity
    MaxExchanges,       \* bound: exchanges of an escalation
    MaxIds              \* bound: identifiers of asks and responses

\* A question declares references for the conditions it states, and has finitely many contracts.
ASSUME InputAssumption ==
    \A input \in {c[2] : c \in Inputs} \cup FollowUps :
        DOMAIN input.names = DOMAIN input.declared /\ IsFiniteSet(input.contracts)
ASSUME BoundAssumption == MaxExchanges \in Nat /\ MaxIds \in Nat

VARIABLES
    made,       \* the escalations that have a directory
    disk,       \* disk[e]: the record in it, for the escalations that have one
    pc,         \* pc[p]: where the command of process p is
    job,        \* job[p]: what it holds in memory
    minted,     \* the identifiers handed out so far
    shown       \* the questions that have been on the clipboard (a history)

vars == <<made, disk, pc, job, minted, shown>>

Recorded(e) == e \in DOMAIN disk

Exchanges(e) == disk[e].exchanges

Latest(e) == Len(Exchanges(e))

\* What the escalation e says in its k-th exchange, compiled or not.
Exchange(e, k) == disk[e].exchanges[k]

Idle == "idle"
NoJob == [kind |-> Idle]

Init ==
    /\ made = {}
    /\ disk = <<>>
    /\ pc = [p \in Processes |-> Idle]
    /\ job = [p \in Processes |-> NoJob]
    /\ minted = 0
    /\ shown = {}

Goto(p, place, held) ==
    /\ pc' = [pc EXCEPT ![p] = place]
    /\ job' = [job EXCEPT ![p] = held]

Return(p) == Goto(p, Idle, NoJob)

Update(e, k, exchange) ==
    disk' = [disk EXCEPT ![e].exchanges = [@ EXCEPT ![k] = exchange]]

\* The identifiers a directive repeats; the binding of an exchange is its place.
Identity(e, k) ==
    [ escalation |-> e, binding |-> k, finding |-> disk[e].finding,
      ask |-> Exchange(e, k).ask.id, contracts |-> Bindings(Exchange(e, k).ask),
      type |-> Exchange(e, k).ask.type ]

Unanswered(input, ask) ==
    [input |-> input, ask |-> ask, answer |-> None, ticket |-> None,
     copied |-> FALSE, reply |-> None]
-----------------------------------------------------------------------------
(* Creating an escalation.                                                 *)

MakeDirectory(p, e, sources, input) ==
    /\ pc[p] = Idle
    /\ e \notin made
    /\ made' = made \cup {e}
    /\ Goto(p, "creating", [escalation |-> e, sources |-> sources, input |-> input])
    /\ UNCHANGED <<disk, minted, shown>>

WriteRecord(p) ==
    /\ pc[p] = "creating"
    /\ LET record == [ finding |-> FindingId, sources |-> job[p].sources,
                       exchanges |-> <<Unanswered(job[p].input, None)>> ]
       IN  disk' = [e \in DOMAIN disk \cup {job[p].escalation} |->
                       IF e = job[p].escalation THEN record ELSE disk[e]]
    /\ Return(p)
    /\ UNCHANGED <<made, minted, shown>>

\* A failing write removes the directory again; a refused record leaves it.
WriteFails(p) ==
    /\ pc[p] = "creating"
    /\ made' = made \ {job[p].escalation}
    /\ Return(p)
    /\ UNCHANGED <<disk, minted, shown>>
-----------------------------------------------------------------------------
(* Copying a question.                                                     *)

\* The ask and the answer a follow-up is anchored in, None for an initial exchange.
Prior(e, k) ==
    IF k = 1 THEN None ELSE [ask |-> Exchange(e, k - 1).ask, response |-> Exchange(e, k - 1).answer]

StoredAskBinds(e, k) == ValidAsk(Exchange(e, k).ask, disk[e].sources, Prior(e, k))

Selectable(e, k) == Recorded(e) /\ k \in DOMAIN Exchanges(e)

\* Faulty: the exchange counts as copied once its question is compiled.
CompileCopied(p, e, k) ==
    /\ pc[p] = Idle
    /\ Selectable(e, k)
    /\ Exchange(e, k).ask = None
    /\ minted < MaxIds
    /\ LET ask == CompiledAsk(Exchange(e, k).input, minted + 1, disk[e].sources, None)
       IN  /\ ask # None
           /\ Update(e, k, [Exchange(e, k) EXCEPT !.ask = ask, !.copied = TRUE])
           /\ Goto(p, "prepared", [escalation |-> e, exchange |-> k, ask |-> ask])
    /\ minted' = minted + 1
    /\ UNCHANGED <<made, shown>>

\* The first copy compiles the question and stores it; a later one finds it there.
Compile(p, e, k) ==
    /\ pc[p] = Idle
    /\ Selectable(e, k)
    /\ Exchange(e, k).ask = None
    /\ minted < MaxIds
    /\ LET ask == CompiledAsk(Exchange(e, k).input, minted + 1, disk[e].sources, None)
       IN  /\ ask # None
           /\ Update(e, k, [Exchange(e, k) EXCEPT !.ask = ask])
           /\ Goto(p, "prepared", [escalation |-> e, exchange |-> k, ask |-> ask])
    /\ minted' = minted + 1
    /\ UNCHANGED <<made, shown>>

Reuse(p, e, k) ==
    /\ pc[p] = Idle
    /\ Selectable(e, k)
    /\ Exchange(e, k).ask # None
    /\ StoredAskBinds(e, k)
    /\ Goto(p, "prepared", [escalation |-> e, exchange |-> k, ask |-> Exchange(e, k).ask])
    /\ UNCHANGED <<made, disk, minted, shown>>

WriteClipboard(p) ==
    /\ pc[p] = "prepared"
    /\ shown' = shown \cup {<<job[p].escalation, job[p].exchange, job[p].ask.id>>}
    /\ Goto(p, "copied", job[p])
    /\ UNCHANGED <<made, disk, minted>>

MarkCopied(p) ==
    /\ pc[p] = "copied"
    /\ LET e == job[p].escalation
           k == job[p].exchange
       IN  Update(e, k, [Exchange(e, k) EXCEPT !.copied = TRUE])
    /\ Return(p)
    /\ UNCHANGED <<made, minted, shown>>
-----------------------------------------------------------------------------
(* Taking a directive back.  The text is [identity, says]; says holds the  *)
(* verdict and the fields of the call type.                                *)

\* The stable finding of the record stands for the finding of the directive.
Found(e, invariant, says) ==
    <<[id |-> disk[e].finding, invariant |-> invariant, refs |-> says.refs, critical |-> says.critical]>>

\* A diagnosis needs one contract that claims the criterion, held by a source.
Diagnosable(ask, sources) ==
    /\ Cardinality(Claims(ask)) = 1
    /\ \E s \in sources : \E ref \in Claims(ask) : Binds(ref, s) /\ ask.criterion \in s.items

Parseable(e, ask, says) ==
    /\ says.verdict \in Verdicts[ask.type]
    /\ says.verdict \in {"CAUSE_UNRESOLVED", "SUFFICIENTLY_SPECIFIED", "PASS", "RESOLVED"} <=> ~says.full
    /\ says.verdict = "CAUSE_IDENTIFIED" => Diagnosable(ask, disk[e].sources)

\* The response the directive stands for; a directive carries no evidence of its own.
Response(e, ask, id, says) ==
    LET blank == [ id |-> id, ask |-> ask.id, type |-> ask.type, verdict |-> says.verdict,
                   evidence |-> {}, findings |-> <<>>, amends |-> {}, failure |-> None, adjacent |-> {} ]
    IN  IF ~says.full THEN blank
        ELSE IF ask.type = Diagnose
        THEN [blank EXCEPT !.findings = Found(e, ask.criterion, says),
                           !.failure = [ refs |-> says.refs, tests |-> {ask.criterion},
                                         targets |-> {Scope[ask.criterion]} ]]
        ELSE IF ask.type = ContractCheck THEN [blank EXCEPT !.amends = says.amends]
        ELSE IF ask.type = FinalReview
        THEN [blank EXCEPT !.findings = Found(e, says.invariant, says), !.adjacent = says.adjacent]
        ELSE [blank EXCEPT !.findings = Found(e, says.invariant, says)]

Ingestible(e, k, identity) ==
    /\ Selectable(e, k)
    /\ Exchange(e, k).copied
    /\ Exchange(e, k).ask # None
    /\ Exchange(e, k).answer = None
    /\ StoredAskBinds(e, k)
    /\ identity = Identity(e, k)

\* Everything is read and checked outside the lock; only the result is recorded under it.
Ingest(p, e, k, identity, says) ==
    /\ pc[p] = Idle
    /\ minted < MaxIds
    /\ Ingestible(e, k, identity)
    /\ Parseable(e, Exchange(e, k).ask, says)
    /\ LET ask == Exchange(e, k).ask
           response == Response(e, ask, minted + 1, says)
           repair == response.verdict = "CAUSE_IDENTIFIED"
       IN  /\ ValidAsk(ask, disk[e].sources, None)
           /\ ValidResponse(response, ask, disk[e].sources)
           /\ repair => Convertible(ask, response, disk[e].sources)
           /\ Goto(p, "parsed", [ escalation |-> e, exchange |-> k, answer |-> response,
                                  ticket |-> IF repair THEN Ticket(ask, response, disk[e].sources) ELSE None,
                                  reply |-> identity ])
    /\ minted' = minted + 1
    /\ UNCHANGED <<made, disk, shown>>

\* Faulty: what was read before the lock was taken is trusted under it.
RecordableBlindly(e, k) == Exchange(e, k).ask # None

Recordable(e, k) == Exchange(e, k).answer = None

RecordAnswer(p) ==
    /\ pc[p] = "parsed"
    /\ LET e == job[p].escalation
           k == job[p].exchange
       IN  /\ Recordable(e, k)
           /\ Update(e, k, [Exchange(e, k) EXCEPT !.answer = job[p].answer, !.ticket = job[p].ticket,
                                                  !.reply = job[p].reply])
    /\ Return(p)
    /\ UNCHANGED <<made, minted, shown>>
-----------------------------------------------------------------------------
(* Following up.                                                           *)

\* A follow-up rechecks the finding of the escalation, on new evidence only.
DeltaOnly(input) ==
    input.type = Recheck /\ input.evidence = <<>> /\ input.block # <<>> /\ input.finding = FindingId

Answered(e) == Exchange(e, Latest(e)).ask # None /\ Exchange(e, Latest(e)).answer # None

\* Faulty: any contracts of the record will do.
AnyContracts(e, ask) == Exchange(e, 1).ask # None

SameContracts(e, ask) == Bindings(ask) = Bindings(Exchange(e, 1).ask)

FollowUp(p, e, input) ==
    /\ pc[p] = Idle
    /\ Recorded(e)
    /\ Latest(e) < MaxExchanges /\ minted < MaxIds
    /\ Answered(e)
    /\ DeltaOnly(input)
    /\ LET prior == [ask |-> Exchange(e, Latest(e)).ask, response |-> Exchange(e, Latest(e)).answer]
           ask == CompiledAsk(input, minted + 1, disk[e].sources, prior)
       IN  /\ ask # None
           /\ SameContracts(e, ask)
           /\ disk' = [disk EXCEPT ![e].exchanges = Append(@, Unanswered(input, ask))]
    /\ minted' = minted + 1
    /\ UNCHANGED <<made, pc, job, shown>>
-----------------------------------------------------------------------------
(* A command is refused, its clipboard or its write fails, or it dies.  A  *)
(* refusal that changes nothing and holds nothing is no step.              *)

Drop(p) ==
    /\ pc[p] # Idle
    /\ Return(p)
    /\ UNCHANGED <<made, disk, minted, shown>>

\* Whatever identity an operator may paste: one of any compiled question.
Identities ==
    {Identity(x[1], x[2]) : x \in {y \in Escalations \X (1..MaxExchanges) :
                                    Selectable(y[1], y[2]) /\ Exchange(y[1], y[2]).ask # None}}

Create(p) == \E e \in Escalations, c \in Inputs : MakeDirectory(p, e, c[1], c[2])

Copy(p) ==
    \E e \in Escalations, k \in 1..MaxExchanges : Compile(p, e, k) \/ Reuse(p, e, k)

Paste(p) ==
    \E e \in Escalations, k \in 1..MaxExchanges, identity \in Identities, says \in Directives :
        Ingest(p, e, k, identity, says)

Continue(p) == \E e \in Escalations, input \in FollowUps : FollowUp(p, e, input)

Next ==
    \E p \in Processes :
        \/ Create(p) \/ WriteRecord(p) \/ WriteFails(p)
        \/ Copy(p) \/ WriteClipboard(p) \/ MarkCopied(p)
        \/ Paste(p) \/ RecordAnswer(p)
        \/ Continue(p) \/ Drop(p)

Spec == Init /\ [][Next]_vars
-----------------------------------------------------------------------------
(* Properties.                                                             *)

At == {x \in Escalations \X (1..MaxExchanges) : Selectable(x[1], x[2])}

AnswerFits(e, k) ==
    LET x == Exchange(e, k)
    IN  x.answer # None =>
            /\ x.reply = Identity(e, k)
            /\ x.answer.ask = x.ask.id
            /\ <<e, k, x.ask.id>> \in shown

\* A recorded answer repeats the identity of the very exchange it is recorded
\* in, and the question of that exchange had been on the clipboard before,
\* whatever commands race, fail or die (ingestPastedProResponse, proCopy).
AnswersAreAsked == \A x \in At : AnswerFits(x[1], x[2])

Kept(old, new) ==
    /\ old.ask # None => new.ask = old.ask
    /\ old.copied => new.copied
    /\ old.answer # None => new.answer = old.answer /\ new.ticket = old.ticket

\* No command loses an exchange, compiles a question anew or replaces an
\* answer and its ticket, although answers are checked outside the lock.
AnswersAreFinal ==
    [][\A e \in Escalations : Recorded(e) =>
            /\ Recorded(e)'
            /\ Latest(e) <= Len(disk'[e].exchanges)
            /\ \A k \in DOMAIN Exchanges(e) : Kept(Exchange(e, k), disk'[e].exchanges[k])]_vars

Follows(e, k) ==
    LET ask == Exchange(e, k).ask
    IN  /\ ask.type = Recheck
        /\ Anchored(ask, Prior(e, k))
        /\ ask.prior.finding = disk[e].finding
        /\ Bindings(ask) = Bindings(Exchange(e, 1).ask)

\* Every follow-up rechecks the finding of the answer just before it, under
\* the contracts of the first question, and stays so bound: what it was
\* anchored in when it was compiled is what the record still holds.
FollowUpsChain == \A x \in At : x[2] > 1 => Follows(x[1], x[2])

Authorizes(e, k) ==
    LET x == Exchange(e, k)
    IN  /\ x.answer # None /\ x.answer.verdict = "CAUSE_IDENTIFIED" =>
                x.ticket = Ticket(x.ask, x.answer, disk[e].sources)
        /\ x.ticket # None =>
                /\ x.answer.verdict = "CAUSE_IDENTIFIED"
                /\ x.ticket.response = x.answer.id /\ x.ticket.ask = x.ask.id
                /\ \E s \in disk[e].sources, ref \in x.ask.contracts :
                        /\ Claims(x.ask) = {ref} /\ Binds(ref, s) /\ s.compiled
                        /\ x.ask.criterion \in s.items
                        /\ x.ticket.key = s.key /\ x.ticket.digest = s.digest
                        /\ x.ticket.changes \subseteq {Scope[x.ask.criterion]}

\* A repair ticket exists exactly for a cause identified; it repairs the one
\* contract the ask binds the criterion to, a compiled one, within the scope
\* of the criterion, also when another source holds the same criterion.
TicketsAreAuthorized == \A x \in At : Authorizes(x[1], x[2])

Rests(e, k) ==
    LET x == Exchange(e, k)
    IN  x.ask # None =>
            /\ \A i \in DOMAIN Pool(x.input) : Pool(x.input)[i].critical => Pool(x.input)[i].ref \in x.ask.evidence
            /\ \A c \in DOMAIN x.ask.names : x.ask.names[c] \subseteq Resolvable(x.ask)
            /\ x.answer # None /\ x.answer.failure # None => x.answer.failure.refs \subseteq Resolvable(x.ask)

\* What a decision depends on outlives truncation: the decision-critical
\* evidence and every reference a condition mentions are in the compiled ask,
\* and a diagnosis cites nothing else (applyEvidenceBudget, validateSolAsk).
EvidenceIsKept == \A x \in At : Rests(x[1], x[2])
=============================================================================
