-------------------------- MODULE CredentialCustody --------------------------
(***************************************************************************)
(* What the SOL transport promises about the OAuth credentials of a run: a *)
(* copy is taken while the run is open, at most one is ever put to use,    *)
(* and the run is closed only after the copy is gone.                      *)
(***************************************************************************)
VARIABLES
    run,        \* "OPEN" or "TERMINAL"
    custody     \* "none", "held", or "given up" once a usable copy is gone

vars == <<run, custody>>

Init == run = "OPEN" /\ custody = "none"

Take == run = "OPEN" /\ custody = "none" /\ custody' = "held" /\ UNCHANGED run

\* A copy that nobody could use yet is undone as if it had never been taken.
GiveBack == custody = "held" /\ custody' \in {"none", "given up"} /\ UNCHANGED run

Close == run = "OPEN" /\ custody # "held" /\ run' = "TERMINAL" /\ UNCHANGED custody

Spec == Init /\ [][Take \/ GiveBack \/ Close]_vars
=============================================================================
