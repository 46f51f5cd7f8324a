-------------------------- MODULE ProHandoffProofs --------------------------
(***************************************************************************)
(* Theorems about ProHandoff for any commands, escalations, questions and  *)
(* directives, and whatever command fails or dies between two steps.       *)
(***************************************************************************)
EXTENDS ProHandoff, FiniteSetTheorems, TLAPS

Known == {c[2] : c \in Inputs} \cup FollowUps
-----------------------------------------------------------------------------
\* The operators the model is built from.

\* What survives the evidence budget holds all that is decision-critical.
LEMMA RetainedKeeps ==
    ASSUME NEW items, NEW budget, NEW decisive, Retained(items, budget, decisive) # None,
           NEW i \in DOMAIN items, items[i].critical
    PROVE  items[i].ref \in Retained(items, budget, decisive)
<1>1. CASE Fits(items, budget)
  BY <1>1 DEF Retained, Refs
<1>2. CASE ~Fits(items, budget)
  <2>. DEFINE kept == Keep(items, Room(budget))
  <2>1. Droppable(items, kept, decisive) /\ Retained(items, budget, decisive) = Refs(kept) \cup {Marker}
    BY <1>2 DEF Retained
  <2>. QED
    BY <2>1 DEF Droppable
<1>. QED
  BY <1>1, <1>2

\* What a compiled question keeps of its input.
Compiled(input, ask) ==
    /\ \A i \in DOMAIN Pool(input) : Pool(input)[i].critical => Pool(input)[i].ref \in ask.evidence
    /\ \A c \in DOMAIN ask.names : ask.names[c] \subseteq Resolvable(ask)
    /\ IsFiniteSet(ask.contracts)

LEMMA CompileKeeps ==
    ASSUME NEW input \in Known, NEW id, NEW sources, NEW prior, NEW ask,
           ask = CompiledAsk(input, id, sources, prior), ask # None
    PROVE  /\ Compiled(input, ask)
           /\ ask.type = input.type
           /\ input.type = Recheck => prior # None /\ Anchored(ask, prior) /\ ask.prior.finding = input.finding
<1>. DEFINE retained == Retained(Pool(input), input.budget, Decisive(input))
            late == IF input.type # Recheck THEN None
                    ELSE [ ask |-> prior.ask.id, response |-> prior.response.id,
                           finding |-> input.finding,
                           digest |-> Finding(prior.response, input.finding) ]
            draft == [ id |-> id, type |-> input.type, contracts |-> input.contracts,
                       evidence |-> retained, truncates |-> input.budget.truncates,
                       names |-> input.names, declared |-> input.declared,
                       delta |-> Refs(input.block),
                       criterion |-> input.criterion, quotes |-> input.quotes,
                       checklist |-> input.checklist, neighbors |-> input.neighbors,
                       prior |-> late ]
<1>1. /\ ask = draft /\ retained # None /\ ValidAsk(draft, sources, prior)
      /\ input.type = Recheck => prior # None
  BY DEF CompiledAsk
<1>2. /\ draft.evidence = retained /\ draft.names = input.names /\ draft.declared = input.declared
      /\ draft.type = input.type /\ draft.contracts = input.contracts /\ draft.prior = late
  OBVIOUS
<1>3. input.type = Recheck => late.finding = input.finding
  OBVIOUS
<1>. HIDE DEF draft, retained, late
<1>4. DOMAIN input.names = DOMAIN input.declared /\ IsFiniteSet(input.contracts)
  BY InputAssumption DEF Known
<1>5. \A i \in DOMAIN Pool(input) : Pool(input)[i].critical => Pool(input)[i].ref \in ask.evidence
  BY <1>1, <1>2, RetainedKeeps DEF retained
<1>6. ASSUME NEW c \in DOMAIN ask.names PROVE ask.names[c] \subseteq Resolvable(ask)
  <2>1. ask.names[c] \subseteq ask.declared[c] /\ Listed(ask) \subseteq Resolvable(ask)
    BY <1>1, <1>6 DEF ValidAsk, WellFormed
  <2>2. ask.declared[c] \subseteq Listed(ask)
    BY <1>1, <1>2, <1>4, <1>6 DEF Listed, Range
  <2>. QED
    BY <2>1, <2>2
<1>. QED
  BY <1>1, <1>2, <1>3, <1>4, <1>5, <1>6 DEF Compiled, ValidAsk

\* A diagnosis binds one contract, and its ticket is cut to it.
LEMMA TicketKeeps ==
    ASSUME NEW ask, NEW response, NEW sources, Convertible(ask, response, sources), IsFiniteSet(ask.contracts)
    PROVE  LET ticket == Ticket(ask, response, sources)
           IN  /\ response.verdict = "CAUSE_IDENTIFIED"
               /\ ticket.response = response.id /\ ticket.ask = ask.id
               /\ \E s \in sources, ref \in ask.contracts :
                     /\ Claims(ask) = {ref} /\ Binds(ref, s) /\ s.compiled
                     /\ ask.criterion \in s.items
                     /\ ticket.key = s.key /\ ticket.digest = s.digest
                     /\ ticket.changes \subseteq {Scope[ask.criterion]}
<1>. DEFINE ticket == Ticket(ask, response, sources)
            source == Source(ask, sources)
<1>1. PICK ref : Claims(ask) = {ref}
  <2>1. IsFiniteSet(Claims(ask)) /\ Cardinality(Claims(ask)) = 1
    <3>1. Claims(ask) \subseteq ask.contracts
      BY DEF Claims
    <3>. QED
      BY <3>1, FS_Subset DEF Convertible
  <2>. QED
    BY <2>1, FS_Singleton
<1>2. ref \in ask.contracts /\ ask.criterion \in ref.requirements
  BY <1>1 DEF Claims
<1>3. PICK s \in sources : Binds(ref, s) /\ ref.requirements \subseteq s.items
  BY <1>2 DEF Convertible, ValidAsk, Bound
<1>4. Binds(ref, source)
  BY <1>1, <1>3 DEF Source
<1>5. ticket.key = source.key /\ ticket.digest = source.digest /\ ticket.changes = response.failure.targets
      /\ ticket.response = response.id /\ ticket.ask = ask.id
  BY DEF Ticket
<1>6. s.compiled /\ response.failure.targets \subseteq {Scope[ask.criterion]} /\ response.verdict = "CAUSE_IDENTIFIED"
  BY <1>3 DEF Convertible
<1>. HIDE DEF ticket, source
<1>7. /\ Claims(ask) = {ref} /\ Binds(ref, s) /\ s.compiled
      /\ ask.criterion \in s.items
      /\ ticket.key = s.key /\ ticket.digest = s.digest
      /\ ticket.changes \subseteq {Scope[ask.criterion]}
  BY <1>1, <1>2, <1>3, <1>4, <1>5, <1>6 DEF Binds
<1>. QED
  BY <1>2, <1>5, <1>6, <1>7 DEF ticket
-----------------------------------------------------------------------------
\* The record of an escalation, and what an update does to it.

Shape(x) == x = [input |-> x.input, ask |-> x.ask, answer |-> x.answer, ticket |-> x.ticket,
                 copied |-> x.copied, reply |-> x.reply]

RecordOK(r) == /\ r = [finding |-> r.finding, sources |-> r.sources, exchanges |-> r.exchanges]
               /\ r.finding = FindingId
               /\ \E S : r.exchanges \in Seq(S)
               /\ Len(r.exchanges) >= 1
               /\ \A k \in DOMAIN r.exchanges : Shape(r.exchanges[k]) /\ r.exchanges[k].input \in Known

DiskOK == /\ disk = [e \in DOMAIN disk |-> disk[e]]
          /\ \A e \in DOMAIN disk : RecordOK(disk[e])

Refers(e, k) == e \in DOMAIN disk /\ k \in DOMAIN Exchanges(e)

Remains(old, new) ==
    /\ new.input = old.input
    /\ old.ask # None => new.ask = old.ask
    /\ old.copied => new.copied
    /\ old.answer # None => new.answer = old.answer /\ new.ticket = old.ticket /\ new.reply = old.reply

Grows ==
    \A e \in DOMAIN disk :
        /\ e \in DOMAIN disk'
        /\ disk'[e].finding = disk[e].finding /\ disk'[e].sources = disk[e].sources
        /\ Latest(e) <= Len(disk'[e].exchanges)
        /\ \A k \in DOMAIN Exchanges(e) : k \in DOMAIN disk'[e].exchanges
                                          /\ Remains(Exchange(e, k), disk'[e].exchanges[k])

LEMMA Places == DiskOK => \A e \in DOMAIN disk : /\ DOMAIN Exchanges(e) = 1..Latest(e)
                                                 /\ Latest(e) \in Nat /\ Latest(e) >= 1
<1>. SUFFICES ASSUME DiskOK, NEW e \in DOMAIN disk
              PROVE  DOMAIN Exchanges(e) = 1..Latest(e) /\ Latest(e) \in Nat /\ Latest(e) >= 1
  OBVIOUS
<1>1. PICK S : Exchanges(e) \in Seq(S)
  BY DEF DiskOK, RecordOK, Exchanges
<1>. QED
  BY <1>1 DEF DiskOK, RecordOK, Exchanges, Latest

\* An update of one exchange changes that exchange only.
LEMMA UpdateKeeps ==
    DiskOK => \A e, k, x :
        Refers(e, k) /\ Update(e, k, x) /\ Shape(x) /\ Remains(Exchange(e, k), x) =>
            /\ DiskOK' /\ Grows
            /\ DOMAIN disk' = DOMAIN disk
            /\ disk'[e].exchanges[k] = x
            /\ \A f, j : Refers(f, j)' =>
                   /\ Refers(f, j) /\ Len(disk'[f].exchanges) = Latest(f)
                   /\ <<f, j>> # <<e, k>> => disk'[f].exchanges[j] = Exchange(f, j)
<1>. SUFFICES ASSUME DiskOK, NEW e, NEW k, NEW x, Refers(e, k), Update(e, k, x), Shape(x), Remains(Exchange(e, k), x)
              PROVE  /\ DiskOK' /\ Grows
                     /\ DOMAIN disk' = DOMAIN disk
                     /\ disk'[e].exchanges[k] = x
                     /\ \A f, j : Refers(f, j)' =>
                            /\ Refers(f, j) /\ Len(disk'[f].exchanges) = Latest(f)
                            /\ <<f, j>> # <<e, k>> => disk'[f].exchanges[j] = Exchange(f, j)
  OBVIOUS
<1>. DEFINE old == disk[e]
            changed == [old.exchanges EXCEPT ![k] = x]
            new == [finding |-> old.finding, sources |-> old.sources, exchanges |-> changed]
<1>0. e \in DOMAIN disk /\ RecordOK(old) /\ k \in DOMAIN old.exchanges
  BY DEF Refers, DiskOK, Exchanges
<1>1. disk' = [disk EXCEPT ![e] = new]
  <2>1. old = [finding |-> old.finding, sources |-> old.sources, exchanges |-> old.exchanges]
    BY <1>0 DEF RecordOK
  <2>2. [old EXCEPT !.exchanges = changed] = new
    BY <2>1
  <2>. QED
    BY <2>2 DEF Update
<1>2. PICK S : old.exchanges \in Seq(S)
  BY <1>0 DEF RecordOK
<1>3. changed \in Seq(S \cup {x}) /\ Len(changed) = Len(old.exchanges) /\ DOMAIN changed = DOMAIN old.exchanges
      /\ changed[k] = x /\ \A j \in DOMAIN changed : j # k => changed[j] = old.exchanges[j]
  <2>1. old.exchanges \in Seq(S \cup {x})
    BY <1>2
  <2>. QED
    BY <1>0, <2>1
<1>4. new.finding = old.finding /\ new.sources = old.sources /\ new.exchanges = changed
      /\ new = [finding |-> new.finding, sources |-> new.sources, exchanges |-> new.exchanges]
  OBVIOUS
<1>. HIDE DEF changed, new
<1>5. RecordOK(new)
  BY <1>0, <1>3, <1>4 DEF RecordOK, Remains, Exchange, Exchanges
<1>6. DOMAIN disk' = DOMAIN disk /\ \A f \in DOMAIN disk : disk'[f] = IF f = e THEN new ELSE disk[f]
  BY <1>0, <1>1 DEF DiskOK
<1>7. DiskOK'
  BY <1>1, <1>5, <1>6 DEF DiskOK
<1>8. Grows
  <2>. SUFFICES ASSUME NEW f \in DOMAIN disk
                PROVE  /\ f \in DOMAIN disk'
                       /\ disk'[f].finding = disk[f].finding /\ disk'[f].sources = disk[f].sources
                       /\ Latest(f) <= Len(disk'[f].exchanges)
                       /\ \A j \in DOMAIN Exchanges(f) : j \in DOMAIN disk'[f].exchanges
                                                         /\ Remains(Exchange(f, j), disk'[f].exchanges[j])
    BY DEF Grows
  <2>0. Latest(f) \in Nat
    BY Places
  <2>1. CASE f = e
    BY <1>3, <1>4, <1>6, <2>0, <2>1 DEF Remains, Latest, Exchanges, Exchange
  <2>2. CASE f # e
    BY <1>6, <2>0, <2>2 DEF Remains, Latest, Exchanges, Exchange
  <2>. QED
    BY <2>1, <2>2
<1>9. ASSUME NEW f, NEW j, Refers(f, j)'
      PROVE  /\ Refers(f, j) /\ Len(disk'[f].exchanges) = Latest(f)
             /\ <<f, j>> # <<e, k>> => disk'[f].exchanges[j] = Exchange(f, j)
  BY <1>3, <1>4, <1>6, <1>9 DEF Refers, Latest, Exchanges, Exchange
<1>. QED
  BY <1>0, <1>3, <1>4, <1>6, <1>7, <1>8, <1>9

LEMMA Appended ==
    ASSUME NEW T, NEW seq \in Seq(T), NEW x \in T
    PROVE  /\ Append(seq, x) \in Seq(T) /\ Len(Append(seq, x)) = Len(seq) + 1
           /\ DOMAIN Append(seq, x) = 1..(Len(seq) + 1) /\ DOMAIN seq = 1..Len(seq)
           /\ Append(seq, x)[Len(seq) + 1] = x
           /\ \A j \in 1..Len(seq) : Append(seq, x)[j] = seq[j]
           /\ Len(seq) \in Nat
OBVIOUS

\* A follow-up adds one exchange at the end.
LEMMA AppendKeeps ==
    DiskOK => \A e \in DOMAIN disk : \A x :
        disk' = [disk EXCEPT ![e].exchanges = Append(@, x)] /\ Shape(x) /\ x.input \in Known =>
            /\ DiskOK' /\ Grows
            /\ DOMAIN disk' = DOMAIN disk
            /\ Len(disk'[e].exchanges) = Latest(e) + 1
            /\ disk'[e].exchanges[Latest(e) + 1] = x
            /\ \A f, j : Refers(f, j)' /\ <<f, j>> # <<e, Latest(e) + 1>> =>
                   /\ Refers(f, j)
                   /\ f # e => Len(disk'[f].exchanges) = Latest(f)
                   /\ disk'[f].exchanges[j] = Exchange(f, j)
<1>. SUFFICES ASSUME DiskOK, NEW e \in DOMAIN disk, NEW x, disk' = [disk EXCEPT ![e].exchanges = Append(@, x)],
                     Shape(x), x.input \in Known
              PROVE  /\ DiskOK' /\ Grows
                     /\ DOMAIN disk' = DOMAIN disk
                     /\ Len(disk'[e].exchanges) = Latest(e) + 1
                     /\ disk'[e].exchanges[Latest(e) + 1] = x
                     /\ \A f, j : Refers(f, j)' /\ <<f, j>> # <<e, Latest(e) + 1>> =>
                            /\ Refers(f, j)
                            /\ f # e => Len(disk'[f].exchanges) = Latest(f)
                            /\ disk'[f].exchanges[j] = Exchange(f, j)
  OBVIOUS
<1>. DEFINE old == disk[e]
            changed == Append(old.exchanges, x)
            new == [finding |-> old.finding, sources |-> old.sources, exchanges |-> changed]
<1>0. RecordOK(old)
  BY DEF DiskOK
<1>1. disk' = [disk EXCEPT ![e] = new]
  <2>1. old = [finding |-> old.finding, sources |-> old.sources, exchanges |-> old.exchanges]
    BY <1>0 DEF RecordOK
  <2>2. [old EXCEPT !.exchanges = changed] = new
    <3>. HIDE DEF changed
    <3>. QED
      BY <2>1
  <2>3. disk' = [disk EXCEPT ![e] = [old EXCEPT !.exchanges = changed]]
    OBVIOUS
  <2>. QED
    BY <2>2, <2>3
<1>2. PICK S : old.exchanges \in Seq(S)
  BY <1>0 DEF RecordOK
<1>3. /\ changed \in Seq(S \cup {x}) /\ Len(changed) = Len(old.exchanges) + 1
      /\ DOMAIN changed = 1..(Len(old.exchanges) + 1) /\ DOMAIN old.exchanges = 1..Len(old.exchanges)
      /\ changed[Len(old.exchanges) + 1] = x
      /\ \A j \in 1..Len(old.exchanges) : changed[j] = old.exchanges[j]
      /\ Len(old.exchanges) \in Nat
  <2>1. old.exchanges \in Seq(S \cup {x})
    BY <1>2
  <2>. QED
    BY <2>1, Appended
<1>4. new.finding = old.finding /\ new.sources = old.sources /\ new.exchanges = changed
      /\ new = [finding |-> new.finding, sources |-> new.sources, exchanges |-> new.exchanges]
  OBVIOUS
<1>. HIDE DEF changed, new
<1>5. RecordOK(new)
  <2>1. ASSUME NEW k \in DOMAIN changed PROVE Shape(changed[k]) /\ changed[k].input \in Known
    <3>1. CASE k = Len(old.exchanges) + 1
      BY <1>3, <3>1
    <3>2. CASE k \in 1..Len(old.exchanges)
      BY <1>0, <1>3, <3>2 DEF RecordOK
    <3>. QED
      BY <1>3, <3>1, <3>2
  <2>. QED
    BY <1>0, <1>3, <1>4, <2>1 DEF RecordOK
<1>6. DOMAIN disk' = DOMAIN disk /\ \A f \in DOMAIN disk : disk'[f] = IF f = e THEN new ELSE disk[f]
  BY <1>0, <1>1 DEF DiskOK
<1>7. DiskOK'
  BY <1>1, <1>5, <1>6 DEF DiskOK
<1>8. Grows
  <2>. SUFFICES ASSUME NEW f \in DOMAIN disk
                PROVE  /\ f \in DOMAIN disk'
                       /\ disk'[f].finding = disk[f].finding /\ disk'[f].sources = disk[f].sources
                       /\ Latest(f) <= Len(disk'[f].exchanges)
                       /\ \A j \in DOMAIN Exchanges(f) : j \in DOMAIN disk'[f].exchanges
                                                         /\ Remains(Exchange(f, j), disk'[f].exchanges[j])
    BY DEF Grows
  <2>0. Latest(f) \in Nat
    BY Places
  <2>1. CASE f = e
    <3>1. disk'[f].exchanges = changed /\ disk'[f].finding = disk[f].finding /\ disk'[f].sources = disk[f].sources
          /\ f \in DOMAIN disk'
      BY <1>4, <1>6, <2>1
    <3>2. \A j \in DOMAIN Exchanges(f) : j \in DOMAIN changed /\ changed[j] = Exchange(f, j)
      BY <1>3, <2>1 DEF Exchanges, Exchange
    <3>3. Latest(f) <= Len(changed)
      BY <1>3, <2>1 DEF Latest, Exchanges
    <3>. QED
      BY <3>1, <3>2, <3>3 DEF Remains
  <2>2. CASE f # e
    BY <1>6, <2>0, <2>2 DEF Remains, Latest, Exchanges, Exchange
  <2>. QED
    BY <2>1, <2>2
<1>9. ASSUME NEW f, NEW j, Refers(f, j)', <<f, j>> # <<e, Latest(e) + 1>>
      PROVE  /\ Refers(f, j)
             /\ f # e => Len(disk'[f].exchanges) = Latest(f)
             /\ disk'[f].exchanges[j] = Exchange(f, j)
  BY <1>3, <1>4, <1>6, <1>9 DEF Refers, Latest, Exchanges, Exchange
<1>. QED
  BY <1>3, <1>4, <1>6, <1>7, <1>8, <1>9 DEF Latest, Exchanges

\* A fresh escalation has one exchange, of which nothing is asked yet.
Fresh(sources, input) == [finding |-> FindingId, sources |-> sources, exchanges |-> <<Unanswered(input, None)>>]

Adds(e, record) == disk' = [f \in DOMAIN disk \cup {e} |-> IF f = e THEN record ELSE disk[f]]

OthersStay(e) == \A f, j : Refers(f, j)' /\ f # e =>
    Refers(f, j) /\ Len(disk'[f].exchanges) = Latest(f) /\ disk'[f].exchanges[j] = Exchange(f, j)

LEMMA RecordKeeps ==
    DiskOK => \A e, sources : \A input \in Known : e \notin DOMAIN disk /\ Adds(e, Fresh(sources, input)) =>
        /\ DiskOK' /\ Grows
        /\ DOMAIN disk' = DOMAIN disk \cup {e}
        /\ disk'[e].exchanges = <<Unanswered(input, None)>>
        /\ OthersStay(e)
<1>. SUFFICES ASSUME DiskOK, NEW e, NEW sources, NEW input \in Known, e \notin DOMAIN disk,
                     Adds(e, Fresh(sources, input))
              PROVE  /\ DiskOK' /\ Grows
                     /\ DOMAIN disk' = DOMAIN disk \cup {e}
                     /\ disk'[e].exchanges = <<Unanswered(input, None)>>
                     /\ OthersStay(e)
  OBVIOUS
<1>. DEFINE record == Fresh(sources, input)
<1>1. RecordOK(record)
  <2>. DEFINE x == Unanswered(input, None)
  <2>1. Shape(x) /\ x.input \in Known
    BY DEF Unanswered, Shape
  <2>2. record.exchanges = <<x>> /\ record.finding = FindingId
        /\ record = [finding |-> record.finding, sources |-> record.sources, exchanges |-> record.exchanges]
    BY DEF Fresh
  <2>. HIDE DEF x
  <2>3. <<x>> \in Seq({x}) /\ Len(<<x>>) = 1 /\ DOMAIN <<x>> = {1} /\ <<x>>[1] = x
    OBVIOUS
  <2>4. record.exchanges \in Seq({x}) /\ Len(record.exchanges) >= 1
    BY <2>2, <2>3
  <2>5. \A k \in DOMAIN record.exchanges : record.exchanges[k] = x
    BY <2>2, <2>3
  <2>. QED
    BY <2>1, <2>2, <2>4, <2>5 DEF RecordOK
<1>2. record.exchanges = <<Unanswered(input, None)>>
  BY DEF Fresh
<1>. HIDE DEF record
<1>3. disk' = [f \in DOMAIN disk \cup {e} |-> IF f = e THEN record ELSE disk[f]]
  BY DEF Adds, record
<1>4. DOMAIN disk' = DOMAIN disk \cup {e} /\ disk'[e] = record /\ \A f \in DOMAIN disk : disk'[f] = disk[f]
  BY <1>3
<1>5. DiskOK'
  BY <1>1, <1>3, <1>4 DEF DiskOK
<1>6. Grows
  BY <1>4, Places DEF Grows, Remains, Latest, Exchanges, Exchange
<1>7. OthersStay(e)
  BY <1>4 DEF OthersStay, Refers, Latest, Exchanges, Exchange
<1>. QED
  BY <1>2, <1>4, <1>5, <1>6, <1>7
-----------------------------------------------------------------------------
\* The invariant: what exchanges hold, and what commands hold of them.

TicketOK(ask, answer, ticket, sources) ==
    /\ answer.verdict = "CAUSE_IDENTIFIED" => ticket = Ticket(ask, answer, sources)
    /\ ticket # None =>
            /\ answer.verdict = "CAUSE_IDENTIFIED"
            /\ ticket.response = answer.id /\ ticket.ask = ask.id
            /\ \E s \in sources, ref \in ask.contracts :
                  /\ Claims(ask) = {ref} /\ Binds(ref, s) /\ s.compiled
                  /\ ask.criterion \in s.items
                  /\ ticket.key = s.key /\ ticket.digest = s.digest
                  /\ ticket.changes \subseteq {Scope[ask.criterion]}

AnswerOK(e, k, answer, ticket, reply) ==
    /\ Exchange(e, k).ask # None /\ Exchange(e, k).copied
    /\ reply = Identity(e, k)
    /\ answer.ask = Exchange(e, k).ask.id
    /\ answer.failure # None => answer.failure.refs \subseteq Resolvable(Exchange(e, k).ask)
    /\ TicketOK(Exchange(e, k).ask, answer, ticket, disk[e].sources)

Closed(x) == x.ask # None /\ x.answer # None

ExOK(e, k) ==
    LET x == Exchange(e, k)
    IN  /\ x.ask # None => Compiled(x.input, x.ask)
        /\ x.copied => x.ask # None /\ <<e, k, x.ask.id>> \in shown
        /\ x.answer # None \/ x.ticket # None => AnswerOK(e, k, x.answer, x.ticket, x.reply)
        /\ k > 1 => x.ask # None /\ Follows(e, k)
        /\ k < Latest(e) => Closed(x)

ExsOK == \A e, k : Refers(e, k) => ExOK(e, k)

JobOK(p) ==
    /\ pc[p] = "creating" => job[p].escalation \in made \ DOMAIN disk /\ job[p].input \in Known
    /\ pc[p] \in {"prepared", "copied"} =>
            /\ Refers(job[p].escalation, job[p].exchange)
            /\ Exchange(job[p].escalation, job[p].exchange).ask # None
            /\ job[p].ask = Exchange(job[p].escalation, job[p].exchange).ask
    /\ pc[p] = "copied" => <<job[p].escalation, job[p].exchange, job[p].ask.id>> \in shown
    /\ pc[p] = "parsed" =>
            /\ Refers(job[p].escalation, job[p].exchange)
            /\ AnswerOK(job[p].escalation, job[p].exchange, job[p].answer, job[p].ticket, job[p].reply)

JobsOK == /\ pc = [p \in Processes |-> pc[p]] /\ job = [p \in Processes |-> job[p]]
          /\ \A p \in Processes : JobOK(p)

Creators == /\ DOMAIN disk \subseteq made
            /\ \A p, q \in Processes : pc[p] = "creating" /\ pc[q] = "creating" /\ p # q =>
                                           job[p].escalation # job[q].escalation

IInv == DiskOK /\ ExsOK /\ JobsOK /\ Creators
-----------------------------------------------------------------------------
\* What was true of an exchange stays true as records grow.

LEMMA IdentityStays ==
    Grows => \A e, k : Refers(e, k) /\ Exchange(e, k).ask # None =>
        Identity(e, k)' = Identity(e, k) /\ Exchange(e, k)'.ask = Exchange(e, k).ask
<1>. SUFFICES ASSUME Grows, NEW e, NEW k, Refers(e, k), Exchange(e, k).ask # None
              PROVE  Identity(e, k)' = Identity(e, k) /\ Exchange(e, k)'.ask = Exchange(e, k).ask
  OBVIOUS
<1>1. Exchange(e, k)'.ask = Exchange(e, k).ask /\ disk'[e].finding = disk[e].finding
  BY DEF Grows, Refers, Remains, Exchange
<1>. QED
  BY <1>1 DEF Identity

LEMMA AnswerStays ==
    Grows => \A e, k, answer, ticket, reply : Refers(e, k) /\ AnswerOK(e, k, answer, ticket, reply) =>
        Refers(e, k)' /\ AnswerOK(e, k, answer, ticket, reply)'
<1>. SUFFICES ASSUME Grows, NEW e, NEW k, NEW answer, NEW ticket, NEW reply, Refers(e, k),
                     AnswerOK(e, k, answer, ticket, reply)
              PROVE  Refers(e, k)' /\ AnswerOK(e, k, answer, ticket, reply)'
  OBVIOUS
<1>1. Exchange(e, k).ask # None /\ Exchange(e, k).copied
  BY DEF AnswerOK
<1>2. Identity(e, k)' = Identity(e, k) /\ Exchange(e, k)'.ask = Exchange(e, k).ask
  BY <1>1, IdentityStays
<1>3. Exchange(e, k)'.copied /\ disk'[e].sources = disk[e].sources /\ Refers(e, k)'
  BY <1>1 DEF Grows, Refers, Remains, Exchange, Exchanges
<1>. QED
  BY <1>1, <1>2, <1>3 DEF AnswerOK

LEMMA FollowStays ==
    DiskOK /\ ExsOK /\ Grows => \A e, k : Refers(e, k) /\ k > 1 =>
        Follows(e, k)' /\ Exchange(e, k)'.ask # None
<1>. SUFFICES ASSUME DiskOK, ExsOK, Grows, NEW e, NEW k, Refers(e, k), k > 1
              PROVE  Follows(e, k)' /\ Exchange(e, k)'.ask # None
  OBVIOUS
<1>1. Refers(e, k - 1) /\ Refers(e, 1) /\ k - 1 < Latest(e) /\ 1 < Latest(e)
  BY Places DEF Refers
<1>2. Follows(e, k) /\ Exchange(e, k).ask # None /\ Closed(Exchange(e, k - 1)) /\ Closed(Exchange(e, 1))
  BY <1>1 DEF ExsOK, ExOK
<1>3. /\ Exchange(e, k)'.ask = Exchange(e, k).ask
      /\ Exchange(e, k - 1)'.ask = Exchange(e, k - 1).ask
      /\ Exchange(e, k - 1)'.answer = Exchange(e, k - 1).answer
      /\ Exchange(e, 1)'.ask = Exchange(e, 1).ask
      /\ disk'[e].finding = disk[e].finding
  BY <1>1, <1>2 DEF Grows, Refers, Remains, Closed, Exchange
<1>4. k # 1
  OBVIOUS
<1>5. Prior(e, k)' = Prior(e, k)
  BY <1>3, <1>4 DEF Prior
<1>. QED
  BY <1>2, <1>3, <1>5 DEF Follows

LEMMA ExStays ==
    DiskOK /\ ExsOK /\ Grows /\ shown \subseteq shown' => \A e, k, x :
        /\ Refers(e, k) /\ x = disk'[e].exchanges[k]
        /\ x.ask # None => Compiled(x.input, x.ask)
        /\ x.copied => (Exchange(e, k).copied \/ (x.ask # None /\ <<e, k, x.ask.id>> \in shown'))
        /\ \/ x.answer = Exchange(e, k).answer /\ x.ticket = Exchange(e, k).ticket /\ x.reply = Exchange(e, k).reply
           \/ AnswerOK(e, k, x.answer, x.ticket, x.reply)'
        /\ k < Len(disk'[e].exchanges) => Closed(x) \/ Len(disk'[e].exchanges) = Latest(e)
        => ExOK(e, k)'
<1>. SUFFICES ASSUME DiskOK, ExsOK, Grows, shown \subseteq shown', NEW e, NEW k, NEW x, Refers(e, k),
                     x = disk'[e].exchanges[k],
                     x.ask # None => Compiled(x.input, x.ask),
                     x.copied => (Exchange(e, k).copied \/ (x.ask # None /\ <<e, k, x.ask.id>> \in shown')),
                     \/ x.answer = Exchange(e, k).answer /\ x.ticket = Exchange(e, k).ticket
                        /\ x.reply = Exchange(e, k).reply
                     \/ AnswerOK(e, k, x.answer, x.ticket, x.reply)',
                     k < Len(disk'[e].exchanges) => Closed(x) \/ Len(disk'[e].exchanges) = Latest(e)
              PROVE  ExOK(e, k)'
  OBVIOUS
<1>. DEFINE old == Exchange(e, k)
<1>1. Remains(old, x) /\ x = Exchange(e, k)' /\ ExOK(e, k) /\ Len(disk'[e].exchanges) = Latest(e)'
  BY DEF Grows, Refers, Exchange, ExsOK, Latest, Exchanges
<1>2. x.copied => x.ask # None /\ <<e, k, x.ask.id>> \in shown'
  BY <1>1 DEF ExOK, Remains
<1>3. x.answer # None \/ x.ticket # None => AnswerOK(e, k, x.answer, x.ticket, x.reply)'
  BY <1>1, AnswerStays DEF ExOK
<1>4. k > 1 => x.ask # None /\ Follows(e, k)'
  BY <1>1, FollowStays
<1>5. k < Latest(e)' => Closed(x)
  BY <1>1 DEF ExOK, Remains, Closed
<1>. QED
  BY <1>1, <1>2, <1>3, <1>4, <1>5 DEF ExOK

\* Every other command keeps what it holds.
LEMMA JobStays ==
    Grows /\ shown \subseteq shown' => \A q :
        /\ JobOK(q) /\ pc'[q] = pc[q] /\ job'[q] = job[q]
        /\ pc[q] = "creating" => job[q].escalation \in made' \ DOMAIN disk'
        => JobOK(q)'
<1>. SUFFICES ASSUME Grows, shown \subseteq shown', NEW q, JobOK(q), pc'[q] = pc[q], job'[q] = job[q],
                     pc[q] = "creating" => job[q].escalation \in made' \ DOMAIN disk'
              PROVE  JobOK(q)'
  OBVIOUS
<1>1. pc[q] = "parsed" =>
            /\ Refers(job[q].escalation, job[q].exchange)'
            /\ AnswerOK(job[q].escalation, job[q].exchange, job[q].answer, job[q].ticket, job[q].reply)'
  <2>. DEFINE e == job[q].escalation
              k == job[q].exchange
  <2>1. ASSUME pc[q] = "parsed" PROVE Refers(e, k) /\ AnswerOK(e, k, job[q].answer, job[q].ticket, job[q].reply)
    BY <2>1 DEF JobOK
  <2>2. AnswerOK(e, k, job[q].answer, job[q].ticket, job[q].reply) /\ Refers(e, k) =>
        /\ AnswerOK(e, k, job[q].answer, job[q].ticket, job[q].reply)'
        /\ Refers(e, k)'
    BY AnswerStays
  <2>. QED
    BY <2>1, <2>2
<1>2. pc[q] \in {"prepared", "copied"} =>
            /\ Refers(job[q].escalation, job[q].exchange)'
            /\ Exchange(job[q].escalation, job[q].exchange)'.ask # None
            /\ job[q].ask = Exchange(job[q].escalation, job[q].exchange)'.ask
  BY DEF JobOK, Grows, Refers, Remains, Exchange, Exchanges
<1>. QED
  BY <1>1, <1>2 DEF JobOK
-----------------------------------------------------------------------------
\* Steps.

LEMMA Quiet ==
    DiskOK /\ ExsOK /\ UNCHANGED disk /\ shown \subseteq shown' => DiskOK' /\ Grows /\ ExsOK'
<1>. SUFFICES ASSUME DiskOK, ExsOK, UNCHANGED disk, shown \subseteq shown' PROVE DiskOK' /\ Grows /\ ExsOK'
  OBVIOUS
<1>1. DiskOK'
  BY DEF DiskOK
<1>2. Grows
  BY Places DEF Grows, Remains, Latest, Exchanges, Exchange
<1>3. ASSUME NEW e, NEW k, Refers(e, k)' PROVE ExOK(e, k)'
  <2>1. Refers(e, k) /\ Len(disk'[e].exchanges) = Latest(e) /\ disk'[e].exchanges[k] = Exchange(e, k)
    BY <1>3 DEF Refers, Exchanges, Exchange, Latest
  <2>2. Exchange(e, k).ask # None => Compiled(Exchange(e, k).input, Exchange(e, k).ask)
    BY <2>1 DEF ExsOK, ExOK
  <2>. QED
    BY <1>2, <2>1, <2>2, ExStays
<1>. QED
  BY <1>1, <1>2, <1>3 DEF ExsOK

\* A command moves on; the others hold what they held.
LEMMA Moves ==
    JobsOK /\ Grows /\ shown \subseteq shown' => \A p \in Processes : \A place, held :
        /\ Goto(p, place, held)
        /\ pc'[p] = place /\ job'[p] = held => JobOK(p)'
        /\ \A q \in Processes \ {p} : pc[q] = "creating" => job[q].escalation \in made' \ DOMAIN disk'
        => JobsOK'
<1>. SUFFICES ASSUME JobsOK, Grows, shown \subseteq shown', NEW p \in Processes, NEW place, NEW held,
                     Goto(p, place, held), pc'[p] = place /\ job'[p] = held => JobOK(p)',
                     \A q \in Processes \ {p} : pc[q] = "creating" => job[q].escalation \in made' \ DOMAIN disk'
              PROVE  JobsOK'
  OBVIOUS
<1>1. /\ pc' = [q \in Processes |-> pc'[q]] /\ job' = [q \in Processes |-> job'[q]]
      /\ pc'[p] = place /\ job'[p] = held
      /\ \A q \in Processes \ {p} : pc'[q] = pc[q] /\ job'[q] = job[q]
  BY DEF JobsOK, Goto
<1>2. ASSUME NEW q \in Processes PROVE JobOK(q)'
  BY <1>1, JobStays DEF JobsOK
<1>. QED
  BY <1>1, <1>2 DEF JobsOK

\* A step that creates nothing.
LEMMA Ordinary ==
    JobsOK /\ Creators /\ Grows /\ shown \subseteq shown' => \A p \in Processes : \A place, held :
        /\ Goto(p, place, held) /\ place # "creating"
        /\ made' = made /\ DOMAIN disk' = DOMAIN disk
        /\ pc'[p] = place /\ job'[p] = held => JobOK(p)'
        => JobsOK' /\ Creators'
<1>. SUFFICES ASSUME JobsOK, Creators, Grows, shown \subseteq shown', NEW p \in Processes, NEW place, NEW held,
                     Goto(p, place, held), place # "creating", made' = made, DOMAIN disk' = DOMAIN disk,
                     pc'[p] = place /\ job'[p] = held => JobOK(p)'
              PROVE  JobsOK' /\ Creators'
  OBVIOUS
<1>1. JobsOK'
  BY Moves DEF JobsOK, JobOK
<1>2. pc'[p] # "creating" /\ \A q \in Processes \ {p} : pc'[q] = pc[q] /\ job'[q] = job[q]
  BY DEF JobsOK, Goto
<1>3. Creators'
  BY <1>2 DEF Creators
<1>. QED
  BY <1>1, <1>3

LEMMA MakeKeeps ==
    IInv => \A p \in Processes, e \in Escalations, c \in Inputs : MakeDirectory(p, e, c[1], c[2]) => IInv' /\ Grows
<1>. SUFFICES ASSUME IInv, NEW p \in Processes, NEW e \in Escalations, NEW c \in Inputs,
                     MakeDirectory(p, e, c[1], c[2])
              PROVE  IInv' /\ Grows
  OBVIOUS
<1>. DEFINE held == [escalation |-> e, sources |-> c[1], input |-> c[2]]
<1>1. Goto(p, "creating", held) /\ held.escalation = e /\ held.input \in Known
  BY DEF MakeDirectory, Known
<1>. HIDE DEF held
<1>2. DiskOK' /\ Grows /\ ExsOK' /\ shown \subseteq shown'
  BY Quiet DEF MakeDirectory, IInv
<1>3. e \notin DOMAIN disk /\ e \in made' /\ DOMAIN disk' = DOMAIN disk /\ made \subseteq made' /\ e \notin made
  BY DEF MakeDirectory, IInv, Creators
<1>4. pc'[p] = "creating" /\ job'[p] = held => JobOK(p)'
  BY <1>1, <1>3 DEF JobOK
<1>5. \A q \in Processes \ {p} : pc[q] = "creating" => job[q].escalation \in made' \ DOMAIN disk'
  BY <1>3 DEF IInv, JobsOK, JobOK
<1>6. JobsOK'
  BY <1>1, <1>2, <1>4, <1>5, Moves DEF IInv
<1>7. job'[p] = held /\ \A q \in Processes \ {p} : pc'[q] = pc[q] /\ job'[q] = job[q]
  BY <1>1 DEF IInv, JobsOK, Goto
<1>8. \A q \in Processes \ {p} : pc[q] = "creating" => job[q].escalation # e
  BY <1>3 DEF IInv, JobsOK, JobOK
<1>9. Creators'
  BY <1>1, <1>3, <1>7, <1>8 DEF IInv, Creators
<1>. QED
  BY <1>2, <1>6, <1>9 DEF IInv

LEMMA WriteKeeps == IInv => \A p \in Processes : WriteRecord(p) \/ WriteFails(p) => IInv' /\ Grows
<1>. SUFFICES ASSUME IInv, NEW p \in Processes, WriteRecord(p) \/ WriteFails(p) PROVE IInv' /\ Grows
  OBVIOUS
<1>. DEFINE e == job[p].escalation
<1>1. pc[p] = "creating" /\ e \in made /\ e \notin DOMAIN disk /\ job[p].input \in Known
      /\ Goto(p, Idle, NoJob) /\ shown \subseteq shown'
  BY DEF IInv, JobsOK, JobOK, WriteRecord, WriteFails, Return
<1>2. \A q \in Processes \ {p} : pc[q] = "creating" => job[q].escalation \in made \ DOMAIN disk /\ job[q].escalation # e
  BY <1>1 DEF IInv, JobsOK, JobOK, Creators
<1>3. pc'[p] = Idle /\ \A q \in Processes \ {p} : pc'[q] = pc[q] /\ job'[q] = job[q]
  BY <1>1 DEF IInv, JobsOK, Goto
<1>4. pc'[p] = Idle /\ job'[p] = NoJob => JobOK(p)'
  BY DEF JobOK, Idle
<1>5. CASE WriteFails(p)
  <2>1. DiskOK' /\ Grows /\ ExsOK'
    BY <1>1, <1>5, Quiet DEF WriteFails, IInv
  <2>2. made' = made \ {e} /\ DOMAIN disk' = DOMAIN disk
    BY <1>5 DEF WriteFails
  <2>3. JobsOK'
    BY <1>1, <1>2, <1>4, <2>1, <2>2, Moves DEF IInv
  <2>4. Creators'
    BY <1>1, <1>3, <2>2 DEF IInv, Creators, Idle
  <2>. QED
    BY <2>1, <2>3, <2>4 DEF IInv
<1>6. CASE WriteRecord(p)
  <2>. DEFINE input == job[p].input
  <2>1. Adds(e, Fresh(job[p].sources, input)) /\ made' = made
    BY <1>6 DEF WriteRecord, Adds, Fresh
  <2>2. /\ DiskOK' /\ Grows /\ OthersStay(e)
        /\ DOMAIN disk' = DOMAIN disk \cup {e}
        /\ disk'[e].exchanges = <<Unanswered(input, None)>>
    BY <1>1, <2>1, RecordKeeps DEF IInv
  <2>3. JobsOK'
    BY <1>1, <1>2, <1>4, <2>1, <2>2, Moves DEF IInv
  <2>4. Creators'
    BY <1>1, <1>3, <2>1, <2>2 DEF IInv, Creators, Idle
  <2>5. ASSUME NEW f, NEW k, Refers(f, k)' PROVE ExOK(f, k)'
    <3>1. CASE f = e
      <4>1. k = 1 /\ Exchange(f, k)' = Unanswered(input, None) /\ Latest(f)' = 1
        BY <2>2, <2>5, <3>1 DEF Refers, Exchanges, Exchange, Latest
      <4>2. /\ Exchange(f, k)'.ask = None /\ Exchange(f, k)'.answer = None /\ Exchange(f, k)'.ticket = None
            /\ ~Exchange(f, k)'.copied
        BY <4>1 DEF Unanswered
      <4>. QED
        BY <4>1, <4>2 DEF ExOK
    <3>2. CASE f # e
      <4>1. Refers(f, k) /\ Len(disk'[f].exchanges) = Latest(f) /\ disk'[f].exchanges[k] = Exchange(f, k)
        BY <2>2, <2>5, <3>2 DEF OthersStay
      <4>2. Exchange(f, k).ask # None => Compiled(Exchange(f, k).input, Exchange(f, k).ask)
        BY <4>1 DEF IInv, ExsOK, ExOK
      <4>. QED
        BY <1>1, <2>2, <4>1, <4>2, ExStays DEF IInv
    <3>. QED
      BY <3>1, <3>2
  <2>. QED
    BY <2>2, <2>3, <2>4, <2>5 DEF IInv, ExsOK
<1>. QED
  BY <1>5, <1>6

\* An exchange an update leaves alone.
LEMMA OtherExchanges ==
    DiskOK /\ ExsOK /\ Grows /\ shown \subseteq shown' => \A f, j :
        Refers(f, j) /\ Len(disk'[f].exchanges) = Latest(f) /\ disk'[f].exchanges[j] = Exchange(f, j) => ExOK(f, j)'
<1>. SUFFICES ASSUME DiskOK, ExsOK, Grows, shown \subseteq shown', NEW f, NEW j, Refers(f, j),
                     Len(disk'[f].exchanges) = Latest(f), disk'[f].exchanges[j] = Exchange(f, j)
              PROVE  ExOK(f, j)'
  OBVIOUS
<1>1. Exchange(f, j).ask # None => Compiled(Exchange(f, j).input, Exchange(f, j).ask)
  BY DEF ExsOK, ExOK
<1>. QED
  BY <1>1, ExStays

\* An update of one exchange keeps the invariant when the exchange does.
LEMMA UpdateKeepsInv ==
    IInv /\ shown \subseteq shown' => \A e, k, x :
        /\ Refers(e, k) /\ Update(e, k, x) /\ Shape(x) /\ Remains(Exchange(e, k), x)
        /\ x.ask # None => Compiled(x.input, x.ask)
        /\ x.copied => (Exchange(e, k).copied \/ (x.ask # None /\ <<e, k, x.ask.id>> \in shown'))
        /\ Grows => \/ x.answer = Exchange(e, k).answer /\ x.ticket = Exchange(e, k).ticket
                       /\ x.reply = Exchange(e, k).reply
                    \/ AnswerOK(e, k, x.answer, x.ticket, x.reply)'
        => DiskOK' /\ Grows /\ ExsOK' /\ DOMAIN disk' = DOMAIN disk /\ Exchange(e, k)' = x /\ Refers(e, k)'
<1>. SUFFICES ASSUME IInv, shown \subseteq shown', NEW e, NEW k, NEW x,
                     Refers(e, k), Update(e, k, x), Shape(x), Remains(Exchange(e, k), x),
                     x.ask # None => Compiled(x.input, x.ask),
                     x.copied => (Exchange(e, k).copied \/ (x.ask # None /\ <<e, k, x.ask.id>> \in shown')),
                     Grows => \/ x.answer = Exchange(e, k).answer /\ x.ticket = Exchange(e, k).ticket
                                 /\ x.reply = Exchange(e, k).reply
                              \/ AnswerOK(e, k, x.answer, x.ticket, x.reply)'
              PROVE  DiskOK' /\ Grows /\ ExsOK' /\ DOMAIN disk' = DOMAIN disk /\ Exchange(e, k)' = x /\ Refers(e, k)'
  OBVIOUS
<1>1. /\ DiskOK' /\ Grows
      /\ DOMAIN disk' = DOMAIN disk
      /\ disk'[e].exchanges[k] = x
      /\ \A f, j : Refers(f, j)' =>
             /\ Refers(f, j) /\ Len(disk'[f].exchanges) = Latest(f)
             /\ <<f, j>> # <<e, k>> => disk'[f].exchanges[j] = Exchange(f, j)
  BY UpdateKeeps DEF IInv
<1>2. Refers(e, k)'
  BY <1>1 DEF Grows, Refers, Exchanges
<1>3. ASSUME NEW f, NEW j, Refers(f, j)' PROVE ExOK(f, j)'
  <2>1. Refers(f, j) /\ Len(disk'[f].exchanges) = Latest(f)
    BY <1>1, <1>3
  <2>2. CASE f = e /\ j = k
    BY <1>1, <2>1, <2>2, ExStays DEF IInv
  <2>3. CASE ~(f = e /\ j = k)
    <3>1. disk'[f].exchanges[j] = Exchange(f, j)
      BY <1>1, <1>3, <2>3
    <3>. QED
      BY <1>1, <2>1, <3>1, OtherExchanges DEF IInv
  <2>. QED
    BY <2>2, <2>3
<1>. QED
  BY <1>1, <1>2, <1>3 DEF ExsOK, Exchange

LEMMA Edited ==
    \A x : Shape(x) => \A v :
        /\ Shape([x EXCEPT !.ask = v]) /\ [x EXCEPT !.ask = v].ask = v
        /\ [x EXCEPT !.ask = v].input = x.input /\ [x EXCEPT !.ask = v].copied = x.copied
        /\ [x EXCEPT !.ask = v].answer = x.answer /\ [x EXCEPT !.ask = v].ticket = x.ticket
        /\ [x EXCEPT !.ask = v].reply = x.reply
        /\ Shape([x EXCEPT !.copied = v]) /\ [x EXCEPT !.copied = v].copied = v
        /\ [x EXCEPT !.copied = v].input = x.input /\ [x EXCEPT !.copied = v].ask = x.ask
        /\ [x EXCEPT !.copied = v].answer = x.answer /\ [x EXCEPT !.copied = v].ticket = x.ticket
        /\ [x EXCEPT !.copied = v].reply = x.reply
BY DEF Shape

Given(x, a, t, r) == [x EXCEPT !.answer = a, !.ticket = t, !.reply = r]

LEMMA Completed ==
    \A x : Shape(x) => \A a, t, r :
        /\ Shape(Given(x, a, t, r))
        /\ Given(x, a, t, r).input = x.input /\ Given(x, a, t, r).ask = x.ask /\ Given(x, a, t, r).copied = x.copied
        /\ Given(x, a, t, r).answer = a /\ Given(x, a, t, r).ticket = t /\ Given(x, a, t, r).reply = r
<1>. SUFFICES ASSUME NEW x, Shape(x), NEW a, NEW t, NEW r
              PROVE  /\ Shape(Given(x, a, t, r))
                     /\ Given(x, a, t, r).input = x.input /\ Given(x, a, t, r).ask = x.ask
                     /\ Given(x, a, t, r).copied = x.copied
                     /\ Given(x, a, t, r).answer = a /\ Given(x, a, t, r).ticket = t /\ Given(x, a, t, r).reply = r
  OBVIOUS
<1>. DEFINE y == [input |-> x.input, ask |-> x.ask, answer |-> a, ticket |-> t, copied |-> x.copied, reply |-> r]
<1>1. PICK i, k, c : x = [input |-> i, ask |-> k, answer |-> x.answer, ticket |-> x.ticket, copied |-> c,
                          reply |-> x.reply]
  BY DEF Shape
<1>2. x.input = i /\ x.ask = k /\ x.copied = c
  BY <1>1
<1>3. Given(x, a, t, r) = y
  <2>. DEFINE x1 == [x EXCEPT !.answer = a]
              x2 == [x1 EXCEPT !.ticket = t]
              x3 == [x2 EXCEPT !.reply = r]
  <2>1. x1 = [input |-> i, ask |-> k, answer |-> a, ticket |-> x.ticket, copied |-> c, reply |-> x.reply]
    BY <1>1
  <2>. HIDE DEF x1
  <2>2. x2 = [input |-> i, ask |-> k, answer |-> a, ticket |-> t, copied |-> c, reply |-> x.reply]
    BY <2>1
  <2>. HIDE DEF x2
  <2>3. x3 = y
    BY <1>2, <2>2
  <2>. HIDE DEF x3
  <2>4. Given(x, a, t, r) = x3
    BY DEF Given, x1, x2, x3
  <2>. QED
    BY <2>3, <2>4
<1>4. Shape(y) /\ y.input = x.input /\ y.ask = x.ask /\ y.copied = x.copied /\ y.answer = a /\ y.ticket = t /\ y.reply = r
  BY DEF Shape
<1>. QED
  BY <1>3, <1>4

LEMMA CompileStep ==
    IInv => \A p \in Processes : \A e, k : Compile(p, e, k) => IInv' /\ Grows
<1>. SUFFICES ASSUME IInv, NEW p \in Processes, NEW e, NEW k, Compile(p, e, k) PROVE IInv' /\ Grows
  OBVIOUS
<1>. DEFINE old == Exchange(e, k)
            ask == CompiledAsk(old.input, minted + 1, disk[e].sources, None)
            x == [old EXCEPT !.ask = ask]
            held == [escalation |-> e, exchange |-> k, ask |-> ask]
<1>1. /\ Refers(e, k) /\ old.ask = None /\ ask # None /\ Update(e, k, x)
      /\ Goto(p, "prepared", held)
      /\ shown' = shown /\ made' = made
  BY DEF Compile, Selectable, Refers, Recorded
<1>2. Shape(old) /\ old.input \in Known
  BY <1>1 DEF IInv, DiskOK, RecordOK, Refers, Exchange, Exchanges
<1>3. Compiled(old.input, ask)
  BY <1>1, <1>2, CompileKeeps
<1>4. held.escalation = e /\ held.exchange = k /\ held.ask = ask
  OBVIOUS
<1>5. ~old.copied /\ old.answer = None
  BY <1>1 DEF IInv, ExsOK, ExOK, AnswerOK
<1>6. Shape(x) /\ x.ask = ask /\ x.input = old.input /\ x.copied = old.copied /\ x.answer = old.answer
      /\ x.ticket = old.ticket /\ x.reply = old.reply
  <2>. HIDE DEF old, ask
  <2>. QED
    BY <1>2, Edited
<1>7. Remains(old, x)
  BY <1>1, <1>5, <1>6 DEF Remains
<1>. HIDE DEF old, ask, x, held
<1>8. DiskOK' /\ Grows /\ ExsOK' /\ DOMAIN disk' = DOMAIN disk /\ Exchange(e, k)' = x /\ Refers(e, k)'
  BY <1>1, <1>3, <1>6, <1>7, UpdateKeepsInv DEF old
<1>9. pc'[p] = "prepared" /\ job'[p] = held => JobOK(p)'
  BY <1>1, <1>4, <1>6, <1>8 DEF JobOK
<1>10. JobsOK' /\ Creators'
  BY <1>1, <1>8, <1>9, Ordinary DEF IInv
<1>. QED
  BY <1>8, <1>10 DEF IInv

LEMMA MarkStep == IInv => \A p \in Processes : MarkCopied(p) => IInv' /\ Grows
<1>. SUFFICES ASSUME IInv, NEW p \in Processes, MarkCopied(p) PROVE IInv' /\ Grows
  OBVIOUS
<1>. DEFINE e == job[p].escalation
            k == job[p].exchange
            old == Exchange(e, k)
            x == [old EXCEPT !.copied = TRUE]
<1>1. /\ Refers(e, k) /\ old.ask # None /\ <<e, k, old.ask.id>> \in shown
      /\ Update(e, k, x) /\ Goto(p, Idle, NoJob)
      /\ shown' = shown /\ made' = made
  BY DEF MarkCopied, IInv, JobsOK, JobOK, Return
<1>2. Shape(old) /\ (old.ask # None => Compiled(old.input, old.ask))
  BY <1>1 DEF IInv, DiskOK, RecordOK, ExsOK, ExOK, Refers, Exchange, Exchanges
<1>3. Shape(x) /\ x.ask = old.ask /\ x.input = old.input /\ x.answer = old.answer /\ x.copied
      /\ x.ticket = old.ticket /\ x.reply = old.reply
  <2>. HIDE DEF old
  <2>. QED
    BY <1>2, Edited
<1>4. Remains(old, x)
  BY <1>3 DEF Remains
<1>. HIDE DEF x
<1>5. DiskOK' /\ Grows /\ ExsOK' /\ DOMAIN disk' = DOMAIN disk
  BY <1>1, <1>2, <1>3, <1>4, UpdateKeepsInv
<1>6. pc'[p] = Idle /\ job'[p] = NoJob => JobOK(p)'
  BY DEF JobOK, Idle
<1>7. JobsOK' /\ Creators'
  BY <1>1, <1>5, <1>6, Ordinary DEF IInv, Idle
<1>. QED
  BY <1>5, <1>7 DEF IInv

LEMMA RecordExchange ==
    IInv /\ UNCHANGED shown => \A e, k, a, t, r :
        /\ Refers(e, k) /\ AnswerOK(e, k, a, t, r) /\ Exchange(e, k).answer = None
        /\ Update(e, k, Given(Exchange(e, k), a, t, r))
        => DiskOK' /\ Grows /\ ExsOK' /\ DOMAIN disk' = DOMAIN disk
<1>. SUFFICES ASSUME IInv, UNCHANGED shown, NEW e, NEW k, NEW a, NEW t, NEW r,
                     Refers(e, k), AnswerOK(e, k, a, t, r), Exchange(e, k).answer = None,
                     Update(e, k, Given(Exchange(e, k), a, t, r))
              PROVE  DiskOK' /\ Grows /\ ExsOK' /\ DOMAIN disk' = DOMAIN disk
  OBVIOUS
<1>. DEFINE old == Exchange(e, k)
            x == Given(old, a, t, r)
<1>1. Shape(old) /\ (old.ask # None => Compiled(old.input, old.ask))
  BY DEF IInv, DiskOK, RecordOK, ExsOK, ExOK, Refers, Exchange, Exchanges
<1>2. Shape(x) /\ x.ask = old.ask /\ x.input = old.input /\ x.copied = old.copied
      /\ x.answer = a /\ x.ticket = t /\ x.reply = r
  BY <1>1, Completed
<1>3. Remains(old, x)
  BY <1>2 DEF Remains
<1>. HIDE DEF x
<1>4. Grows => AnswerOK(e, k, a, t, r)'
  BY AnswerStays
<1>5. Update(e, k, x)
  BY DEF x
<1>. QED
  BY <1>1, <1>2, <1>3, <1>4, <1>5, UpdateKeepsInv

LEMMA RecordStep == IInv => \A p \in Processes : RecordAnswer(p) => IInv' /\ Grows
<1>. SUFFICES ASSUME IInv, NEW p \in Processes, RecordAnswer(p) PROVE IInv' /\ Grows
  OBVIOUS
<1>. DEFINE e == job[p].escalation
            k == job[p].exchange
<1>1. /\ Refers(e, k) /\ AnswerOK(e, k, job[p].answer, job[p].ticket, job[p].reply) /\ Exchange(e, k).answer = None
      /\ Update(e, k, Given(Exchange(e, k), job[p].answer, job[p].ticket, job[p].reply))
      /\ Goto(p, Idle, NoJob)
      /\ shown' = shown /\ made' = made
  BY DEF RecordAnswer, Recordable, IInv, JobsOK, JobOK, Return, Given
<1>2. DiskOK' /\ Grows /\ ExsOK' /\ DOMAIN disk' = DOMAIN disk
  BY <1>1, RecordExchange
<1>3. pc'[p] = Idle /\ job'[p] = NoJob => JobOK(p)'
  BY DEF JobOK, Idle
<1>4. JobsOK' /\ Creators'
  BY <1>1, <1>2, <1>3, Ordinary DEF IInv, Idle
<1>. QED
  BY <1>2, <1>4 DEF IInv

LEMMA ReuseStep ==
    IInv => \A p \in Processes : \A e, k : Reuse(p, e, k) => IInv' /\ Grows
<1>. SUFFICES ASSUME IInv, NEW p \in Processes, NEW e, NEW k, Reuse(p, e, k) PROVE IInv' /\ Grows
  OBVIOUS
<1>. DEFINE held == [escalation |-> e, exchange |-> k, ask |-> Exchange(e, k).ask]
<1>1. /\ Refers(e, k) /\ Exchange(e, k).ask # None
      /\ Goto(p, "prepared", held)
      /\ shown' = shown /\ made' = made /\ disk' = disk
      /\ held.escalation = e /\ held.exchange = k /\ held.ask = Exchange(e, k).ask
  BY DEF Reuse, Selectable, Refers, Recorded
<1>. HIDE DEF held
<1>2. DiskOK' /\ Grows /\ ExsOK' /\ DOMAIN disk' = DOMAIN disk
  BY <1>1, Quiet DEF IInv
<1>3. pc'[p] = "prepared" /\ job'[p] = held => JobOK(p)'
  BY <1>1 DEF JobOK, Refers, Exchange, Exchanges
<1>4. JobsOK' /\ Creators'
  BY <1>1, <1>2, <1>3, Ordinary DEF IInv
<1>. QED
  BY <1>2, <1>4 DEF IInv

LEMMA ClipboardStep == IInv => \A p \in Processes : WriteClipboard(p) => IInv' /\ Grows
<1>. SUFFICES ASSUME IInv, NEW p \in Processes, WriteClipboard(p) PROVE IInv' /\ Grows
  OBVIOUS
<1>1. /\ pc[p] = "prepared" /\ Goto(p, "copied", job[p])
      /\ shown' = shown \cup {<<job[p].escalation, job[p].exchange, job[p].ask.id>>}
      /\ made' = made /\ disk' = disk
  BY DEF WriteClipboard
<1>2. DiskOK' /\ Grows /\ ExsOK' /\ DOMAIN disk' = DOMAIN disk
  BY <1>1, Quiet DEF IInv
<1>3. JobOK(p)
  BY DEF IInv, JobsOK
<1>4. pc'[p] = "copied" /\ job'[p] = job[p] => JobOK(p)'
  BY <1>1, <1>3 DEF JobOK, Refers, Exchange, Exchanges
<1>5. JobsOK' /\ Creators'
  BY <1>1, <1>2, <1>4, Ordinary DEF IInv
<1>. QED
  BY <1>2, <1>5 DEF IInv

LEMMA DropStep == IInv => \A p \in Processes : Drop(p) => IInv' /\ Grows
<1>. SUFFICES ASSUME IInv, NEW p \in Processes, Drop(p) PROVE IInv' /\ Grows
  OBVIOUS
<1>1. Goto(p, Idle, NoJob) /\ shown' = shown /\ made' = made /\ disk' = disk
  BY DEF Drop, Return
<1>2. DiskOK' /\ Grows /\ ExsOK' /\ DOMAIN disk' = DOMAIN disk
  BY <1>1, Quiet DEF IInv
<1>3. pc'[p] = Idle /\ job'[p] = NoJob => JobOK(p)'
  BY DEF JobOK, Idle
<1>4. JobsOK' /\ Creators'
  BY <1>1, <1>2, <1>3, Ordinary DEF IInv, Idle
<1>. QED
  BY <1>2, <1>4 DEF IInv

\* A directive brings no evidence, so its answer cites what the question holds.
LEMMA NothingNew == \A e, ask, id, says : Response(e, ask, id, says).evidence = {}
<1>. SUFFICES ASSUME NEW e, NEW ask, NEW id, NEW says PROVE Response(e, ask, id, says).evidence = {}
  OBVIOUS
<1>. DEFINE blank == [ id |-> id, ask |-> ask.id, type |-> ask.type, verdict |-> says.verdict,
                       evidence |-> {}, findings |-> <<>>, amends |-> {}, failure |-> None, adjacent |-> {} ]
<1>1. blank.evidence = {}
  OBVIOUS
<1>2. CASE ~says.full
  BY <1>1, <1>2 DEF Response
<1>3. CASE says.full /\ ask.type = Diagnose
  BY <1>3 DEF Response
<1>4. CASE says.full /\ ask.type # Diagnose /\ ask.type = ContractCheck
  BY <1>4 DEF Response
<1>5. CASE says.full /\ ask.type # Diagnose /\ ask.type # ContractCheck /\ ask.type = FinalReview
  BY <1>5 DEF Response
<1>6. CASE says.full /\ ask.type # Diagnose /\ ask.type # ContractCheck /\ ask.type # FinalReview
  BY <1>6 DEF Response
<1>. QED
  BY <1>2, <1>3, <1>4, <1>5, <1>6

LEMMA CitesTheAsk ==
    \A r, ask, sources : ValidResponse(r, ask, sources) /\ r.evidence = {} =>
        /\ r.ask = ask.id
        /\ r.failure # None => r.failure.refs \subseteq Resolvable(ask)
<1>. SUFFICES ASSUME NEW r, NEW ask, NEW sources, ValidResponse(r, ask, sources), r.evidence = {}
              PROVE  r.ask = ask.id /\ (r.failure # None => r.failure.refs \subseteq Resolvable(ask))
  OBVIOUS
<1>1. r.ask = ask.id /\ (r.failure # None => r.type = Diagnose)
  BY DEF ValidResponse
<1>2. r.failure # None => Diagnoses(r, ask, sources)
  BY <1>1 DEF ValidResponse, Diagnose, ContractCheck, FinalReview, Recheck
<1>3. Citable(r, ask) \subseteq Resolvable(ask)
  BY DEF Citable, Resolvable
<1>. QED
  BY <1>1, <1>2, <1>3 DEF Diagnoses

LEMMA IngestStep ==
    IInv => \A p \in Processes : \A e, k, identity, says : Ingest(p, e, k, identity, says) => IInv' /\ Grows
<1>. SUFFICES ASSUME IInv, NEW p \in Processes, NEW e, NEW k, NEW identity, NEW says, Ingest(p, e, k, identity, says)
              PROVE  IInv' /\ Grows
  OBVIOUS
<1>. DEFINE ask == Exchange(e, k).ask
            response == Response(e, ask, minted + 1, says)
            repair == response.verdict = "CAUSE_IDENTIFIED"
            ticket == IF repair THEN Ticket(ask, response, disk[e].sources) ELSE None
            held == [ escalation |-> e, exchange |-> k, answer |-> response, ticket |-> ticket, reply |-> identity ]
<1>1. /\ Refers(e, k) /\ ask # None /\ Exchange(e, k).copied /\ identity = Identity(e, k)
      /\ ValidResponse(response, ask, disk[e].sources)
      /\ repair => Convertible(ask, response, disk[e].sources)
      /\ Goto(p, "parsed", held)
      /\ shown' = shown /\ made' = made /\ disk' = disk
  BY DEF Ingest, Ingestible, Selectable, Refers, Recorded
<1>2. response.evidence = {}
  BY NothingNew
<1>3. held.escalation = e /\ held.exchange = k /\ held.answer = response /\ held.ticket = ticket /\ held.reply = identity
  OBVIOUS
<1>4. IsFiniteSet(ask.contracts)
  BY <1>1 DEF IInv, ExsOK, ExOK, Compiled
<1>. HIDE DEF held, response
<1>5. TicketOK(ask, response, ticket, disk[e].sources)
  BY <1>1, <1>4, TicketKeeps DEF TicketOK
<1>6. AnswerOK(e, k, response, ticket, identity)
  BY <1>1, <1>2, <1>5, CitesTheAsk DEF AnswerOK
<1>. HIDE DEF ticket, ask
<1>7. DiskOK' /\ Grows /\ ExsOK' /\ DOMAIN disk' = DOMAIN disk
  BY <1>1, Quiet DEF IInv
<1>8. PICK a, t : a = response /\ t = ticket
  OBVIOUS
<1>9. Refers(e, k)' /\ AnswerOK(e, k, a, t, identity)'
  BY <1>1, <1>6, <1>7, <1>8, AnswerStays
<1>10. pc'[p] = "parsed" /\ job'[p] = held => JobOK(p)'
  BY <1>3, <1>8, <1>9 DEF JobOK
<1>11. JobsOK' /\ Creators'
  BY <1>1, <1>7, <1>10, Ordinary DEF IInv
<1>. QED
  BY <1>7, <1>11 DEF IInv

LEMMA FollowStep ==
    IInv => \A p \in Processes, e \in Escalations, input \in FollowUps : FollowUp(p, e, input) => IInv' /\ Grows
<1>. SUFFICES ASSUME IInv, NEW p \in Processes, NEW e \in Escalations, NEW input \in FollowUps, FollowUp(p, e, input)
              PROVE  IInv' /\ Grows
  OBVIOUS
<1>0. PICK n : n = Latest(e)
  OBVIOUS
<1>. DEFINE last == Exchange(e, n)
            prior == [ask |-> last.ask, response |-> last.answer]
            ask == CompiledAsk(input, minted + 1, disk[e].sources, prior)
            x == Unanswered(input, ask)
            place == n + 1
<1>1. /\ e \in DOMAIN disk /\ Closed(last) /\ DeltaOnly(input) /\ ask # None /\ SameContracts(e, ask)
      /\ disk' = [disk EXCEPT ![e].exchanges = Append(@, x)]
      /\ UNCHANGED <<made, pc, job, shown>>
  BY <1>0 DEF FollowUp, Recorded, Answered, Closed
<1>2. input \in Known /\ Shape(x) /\ x.input = input /\ x.ask = ask /\ x.answer = None /\ x.ticket = None /\ ~x.copied
  BY DEF Known, Unanswered, Shape
<1>3. Compiled(input, ask) /\ ask.type = Recheck /\ Anchored(ask, prior) /\ ask.prior.finding = FindingId
  BY <1>1, <1>2, CompileKeeps DEF DeltaOnly
<1>. HIDE DEF x, ask
<1>4. DiskOK /\ DOMAIN Exchanges(e) = 1..n /\ n \in Nat /\ n >= 1 /\ n = Latest(e)
  BY <1>0, <1>1, Places DEF IInv
<1>5. /\ DiskOK' /\ Grows
      /\ DOMAIN disk' = DOMAIN disk
      /\ Len(disk'[e].exchanges) = place
      /\ disk'[e].exchanges[place] = x
      /\ \A f, j : Refers(f, j)' /\ <<f, j>> # <<e, place>> =>
             /\ Refers(f, j)
             /\ f # e => Len(disk'[f].exchanges) = Latest(f)
             /\ disk'[f].exchanges[j] = Exchange(f, j)
  <2>1. /\ DiskOK' /\ Grows
        /\ DOMAIN disk' = DOMAIN disk
        /\ Len(disk'[e].exchanges) = Latest(e) + 1
        /\ disk'[e].exchanges[Latest(e) + 1] = x
        /\ \A f, j : Refers(f, j)' /\ <<f, j>> # <<e, Latest(e) + 1>> =>
               /\ Refers(f, j)
               /\ f # e => Len(disk'[f].exchanges) = Latest(f)
               /\ disk'[f].exchanges[j] = Exchange(f, j)
    BY <1>1, <1>2, <1>4, AppendKeeps
  <2>. QED
    BY <1>4, <2>1
<1>6. ASSUME NEW f, NEW j, Refers(f, j)', ~(f = e /\ j = place) PROVE ExOK(f, j)'
  <2>1. Refers(f, j) /\ disk'[f].exchanges[j] = Exchange(f, j) /\ (f # e => Len(disk'[f].exchanges) = Latest(f))
    BY <1>5, <1>6
  <2>2. Exchange(f, j).ask # None => Compiled(Exchange(f, j).input, Exchange(f, j).ask)
    BY <2>1 DEF IInv, ExsOK, ExOK
  <2>3. f = e => Closed(Exchange(f, j))
    <3>. SUFFICES ASSUME f = e PROVE Closed(Exchange(f, j))
      OBVIOUS
    <3>1. j = n \/ j < n
      BY <1>4, <2>1 DEF Refers
    <3>. QED
      BY <1>1, <1>4, <2>1, <3>1 DEF IInv, ExsOK, ExOK
  <2>. QED
    BY <1>1, <1>5, <2>1, <2>2, <2>3, ExStays DEF IInv
<1>7. ExOK(e, place)'
  <2>1. Exchange(e, place)' = x /\ Latest(e)' = place
    BY <1>5 DEF Exchange, Exchanges, Latest
  <2>2. Refers(e, n) /\ Refers(e, 1)
    BY <1>1, <1>4 DEF Refers
  <2>3. Exchange(e, 1).ask # None
    <3>1. CASE n = 1
      BY <1>1, <3>1 DEF Closed
    <3>2. CASE 1 < n
      BY <1>4, <2>2, <3>2 DEF IInv, ExsOK, ExOK, Closed
    <3>. QED
      BY <1>4, <3>1, <3>2
  <2>4. /\ Exchange(e, n)'.ask = last.ask /\ Exchange(e, n)'.answer = last.answer
        /\ Exchange(e, 1)'.ask = Exchange(e, 1).ask
        /\ disk'[e].finding = FindingId
    BY <1>1, <1>4, <1>5, <2>2, <2>3 DEF Grows, Remains, Refers, Closed, Exchange, Exchanges, DiskOK, RecordOK
  <2>5. Prior(e, place)' = prior
    <3>1. place # 1 /\ place - 1 = n
      BY <1>4
    <3>. QED
      BY <2>4, <3>1 DEF Prior
  <2>6. Follows(e, place)'
    BY <1>1, <1>2, <1>3, <2>1, <2>4, <2>5 DEF Follows, SameContracts
  <2>. QED
    <3>1. x.ask # None /\ Compiled(x.input, x.ask) /\ ~(place < Latest(e)')
      BY <1>1, <1>2, <1>3, <1>4, <2>1
    <3>. HIDE DEF place
    <3>. QED
      BY <1>2, <2>1, <2>6, <3>1 DEF ExOK
<1>8. JobsOK'
  BY <1>1, <1>5, JobStays DEF IInv, JobsOK, JobOK
<1>9. Creators'
  BY <1>1, <1>5 DEF IInv, Creators
<1>10. ExsOK'
  <2>. HIDE DEF place
  <2>1. ASSUME NEW f, NEW j, Refers(f, j)' PROVE ExOK(f, j)'
    <3>1. CASE f = e /\ j = place
      BY <1>7, <3>1
    <3>. QED
      BY <1>6, <2>1, <3>1
  <2>. QED
    BY <2>1 DEF ExsOK
<1>. QED
  BY <1>5, <1>8, <1>9, <1>10 DEF IInv
-----------------------------------------------------------------------------
\* The whole.

LEMMA Initially == Init => IInv
<1>. SUFFICES ASSUME Init PROVE IInv
  OBVIOUS
<1>1. DOMAIN disk = {} /\ disk = [e \in DOMAIN disk |-> disk[e]]
  BY DEF Init
<1>2. DiskOK /\ ExsOK
  BY <1>1 DEF DiskOK, ExsOK, Refers
<1>3. JobsOK
  BY DEF Init, JobsOK, JobOK, Idle
<1>4. Creators
  BY <1>1 DEF Init, Creators, Idle
<1>. QED
  BY <1>2, <1>3, <1>4 DEF IInv

LEMMA Step == IInv /\ [Next]_vars => IInv' /\ Grows
<1>. SUFFICES ASSUME IInv, [Next]_vars PROVE IInv' /\ Grows
  OBVIOUS
<1>1. CASE UNCHANGED vars
  <2>1. UNCHANGED <<made, disk, pc, job, shown>>
    BY <1>1 DEF vars
  <2>2. DiskOK' /\ Grows /\ ExsOK'
    BY <2>1, Quiet DEF IInv
  <2>3. JobsOK'
    BY <2>1, <2>2, JobStays DEF IInv, JobsOK, JobOK
  <2>. QED
    BY <2>1, <2>2, <2>3 DEF IInv, Creators
<1>2. CASE Next
  <2>1. PICK p \in Processes :
            \/ Create(p) \/ WriteRecord(p) \/ WriteFails(p)
            \/ Copy(p) \/ WriteClipboard(p) \/ MarkCopied(p)
            \/ Paste(p) \/ RecordAnswer(p)
            \/ Continue(p) \/ Drop(p)
    BY <1>2 DEF Next
  <2>2. CASE Create(p)
    BY <2>2, MakeKeeps DEF Create
  <2>3. CASE Copy(p)
    BY <2>3, CompileStep, ReuseStep DEF Copy
  <2>4. CASE Paste(p)
    BY <2>4, IngestStep DEF Paste
  <2>5. CASE Continue(p)
    BY <2>5, FollowStep DEF Continue
  <2>. QED
    BY <2>1, <2>2, <2>3, <2>4, <2>5, WriteKeeps, ClipboardStep, MarkStep, RecordStep, DropStep
<1>. QED
  BY <1>1, <1>2

LEMMA Always == Spec => []IInv
<1>1. IInv /\ [Next]_vars => IInv'
  BY Step
<1>. QED
  BY Initially, <1>1, PTL DEF Spec

LEMMA Selected == \A x \in At : Refers(x[1], x[2])
BY DEF At, Selectable, Recorded, Refers

\* Whatever commands race, fail or die, an answer is recorded in the exchange whose identity it
\* repeats, and the question of that exchange had been on the clipboard.
THEOREM AnswersMatchQuestions == Spec => []AnswersAreAsked
<1>1. IInv => AnswersAreAsked
  <2>. SUFFICES ASSUME IInv, NEW x \in At PROVE AnswerFits(x[1], x[2])
    BY DEF AnswersAreAsked
  <2>1. ExOK(x[1], x[2])
    BY Selected DEF IInv, ExsOK
  <2>. QED
    BY <2>1 DEF ExOK, AnswerOK, AnswerFits
<1>. QED
  BY <1>1, Always, PTL

\* No command takes an exchange, a compiled question, an answer or a ticket back.
THEOREM RecordsOnlyGrow == Spec => AnswersAreFinal
<1>. DEFINE Final == \A e \in Escalations : Recorded(e) =>
                         /\ Recorded(e)'
                         /\ Latest(e) <= Len(disk'[e].exchanges)
                         /\ \A k \in DOMAIN Exchanges(e) : Kept(Exchange(e, k), disk'[e].exchanges[k])
<1>1. IInv /\ [Next]_vars => Final
  <2>. SUFFICES ASSUME IInv, [Next]_vars PROVE Final
    OBVIOUS
  <2>1. Grows
    BY Step
  <2>. QED
    BY <2>1 DEF Grows, Remains, Kept, Recorded
<1>2. IInv /\ [Next]_vars => [Final]_vars
  BY <1>1
<1>. QED
  BY <1>2, Always, PTL DEF Spec, AnswersAreFinal

\* Every follow-up stays bound to the answer before it and to the contracts of the first question.
THEOREM FollowUpsStayBound == Spec => []FollowUpsChain
<1>1. IInv => FollowUpsChain
  <2>. SUFFICES ASSUME IInv, NEW x \in At, x[2] > 1 PROVE Follows(x[1], x[2])
    BY DEF FollowUpsChain
  <2>. QED
    BY Selected DEF IInv, ExsOK, ExOK
<1>. QED
  BY <1>1, Always, PTL

\* A ticket exists for a cause identified only, and repairs the one contract its question bound.
THEOREM TicketsStayInScope == Spec => []TicketsAreAuthorized
<1>1. IInv => TicketsAreAuthorized
  <2>. SUFFICES ASSUME IInv, NEW x \in At PROVE Authorizes(x[1], x[2])
    BY DEF TicketsAreAuthorized
  <2>1. ExOK(x[1], x[2])
    BY Selected DEF IInv, ExsOK
  <2>. QED
    BY <2>1 DEF ExOK, AnswerOK, TicketOK, Authorizes
<1>. QED
  BY <1>1, Always, PTL

\* Whatever the budget, the evidence a decision depends on is in the question and in its answer.
THEOREM EvidenceSurvives == Spec => []EvidenceIsKept
<1>1. IInv => EvidenceIsKept
  <2>. SUFFICES ASSUME IInv, NEW x \in At PROVE Rests(x[1], x[2])
    BY DEF EvidenceIsKept
  <2>1. ExOK(x[1], x[2])
    BY Selected DEF IInv, ExsOK
  <2>. QED
    BY <2>1 DEF ExOK, AnswerOK, Compiled, Rests
<1>. QED
  BY <1>1, Always, PTL
=============================================================================
