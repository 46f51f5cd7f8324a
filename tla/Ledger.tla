------------------------------- MODULE Ledger -------------------------------
(***************************************************************************)
(* The events of a run and what they say of its invocations: the pure part *)
(* of src/src/logging/ledger.mjs.  An event keeps what the lifecycle       *)
(* decides on: its kind, its invocation, the reason and the replacement of *)
(* a RECONCILIATION.  The sequence number of an event is its position; the *)
(* digest chain, which only says that a prefix was not rewritten, is the   *)
(* sequence itself.                                                        *)
(***************************************************************************)
EXTENDS Integers, Sequences

CONSTANTS Invs,     \* invocation ids
          NoInv     \* no replacement invocation

ASSUME NoInvAssumption == NoInv \notin Invs

Kinds == {"START", "COMPLETION", "ASSESSMENT", "RECONCILIATION"}
Reasons == {"CRASH_AFTER_START", "CRASH_AFTER_COMPLETION"}
Statuses == {"STARTED", "COMPLETED", "ASSESSED", "ORPHANED", "SUPERSEDED"}
Unfinished == {"STARTED", "COMPLETED"}

Event == [kind : Kinds, inv : Invs, reason : Reasons \cup {"NONE"}, repl : Invs \cup {NoInv}]

Lifecycle(k, i) == [kind |-> k, inv |-> i, reason |-> "NONE", repl |-> NoInv]
Reconciliation(i, why, r) == [kind |-> "RECONCILIATION", inv |-> i, reason |-> why, repl |-> r]

\* applyEvent: the status an event leaves its invocation in.
StatusAfter(e) == CASE e.kind = "START" -> "STARTED"
                    [] e.kind = "COMPLETION" -> "COMPLETED"
                    [] e.kind = "ASSESSMENT" -> "ASSESSED"
                    [] OTHER -> IF e.repl = NoInv THEN "ORPHANED" ELSE "SUPERSEDED"

EventsOf(evs, i) == {n \in DOMAIN evs : evs[n].inv = i}
Known(evs, i) == EventsOf(evs, i) # {}

\* buildInvocationStates: the last event of an invocation decides its status.
Status(evs, i) ==
    IF Known(evs, i)
    THEN StatusAfter(evs[CHOOSE n \in EventsOf(evs, i) : \A m \in EventsOf(evs, i) : m <= n])
    ELSE "NONE"

Open(evs, i) == Status(evs, i) \in Unfinished

\* Faulty: any other invocation may be named as the replacement.
LegalAnyReplacement(evs, e) ==
    CASE e.kind = "START" -> ~Known(evs, e.inv)
      [] e.kind = "COMPLETION" -> Status(evs, e.inv) = "STARTED"
      [] e.kind = "ASSESSMENT" -> Status(evs, e.inv) = "COMPLETED"
      [] OTHER -> Open(evs, e.inv) /\ e.repl # e.inv

\* checkTransition.
Legal(evs, e) ==
    CASE e.kind = "START" -> ~Known(evs, e.inv)
      [] e.kind = "COMPLETION" -> Status(evs, e.inv) = "STARTED"
      [] e.kind = "ASSESSMENT" -> Status(evs, e.inv) = "COMPLETED"
      [] OTHER -> /\ Open(evs, e.inv)
                  /\ e.repl # NoInv => e.repl # e.inv /\ Known(evs, e.repl)

\* validateLedger, for a file nobody rewrote: every event was legal in its place.
Valid(evs) == \A n \in DOMAIN evs : Legal(SubSeq(evs, 1, n - 1), evs[n])

\* summarizeLedger: what a finalized run keeps of its ledger.
Summary(evs) == [lastSeq |-> Len(evs), incomplete |-> {i \in Invs : Open(evs, i)}]
=============================================================================
