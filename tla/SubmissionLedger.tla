-------------------------- MODULE SubmissionLedger --------------------------
(***************************************************************************)
(* What Auto Apply promises about one employer role, without workers,      *)
(* leases, runs or policies.  Each attempt at the role is unsent until an  *)
(* intent to submit is recorded for it; it is then open, because the       *)
(* employer may take it at any moment while its form's window is open, and *)
(* it ends received or refuted.  It is refuted only after the window       *)
(* closed, and no attempt opens while another attempt of the same role is  *)
(* open: one decision of the applicant reaches the employer at most once.  *)
(***************************************************************************)
EXTENDS Integers

CONSTANTS
    Roles,          \* the employer roles
    MaxAttempt      \* attempts one role may get

VARIABLES
    outcome,        \* what became of each attempt
    window          \* whether the employer's form may still take it

ledgerVars == <<outcome, window>>

Attempts == Roles \X (1..MaxAttempt)

Outcomes == {"unsent", "open", "received", "refuted"}

LedgerTypeOK ==
    /\ outcome \in [Attempts -> Outcomes]
    /\ window \in [Attempts -> BOOLEAN]

LedgerInit ==
    /\ outcome = [a \in Attempts |-> "unsent"]
    /\ window = [a \in Attempts |-> FALSE]

\* An attempt opens only when every earlier one of its role is settled or was
\* never sent, and no later one exists in the employer's eyes.
Open(a) ==
    /\ outcome[a] = "unsent"
    /\ \A b \in Attempts \ {a} : b[1] = a[1] =>
          /\ outcome[b] # "open"
          /\ b[2] > a[2] => outcome[b] = "unsent"
    /\ outcome' = [outcome EXCEPT ![a] = "open"]
    /\ window' = [window EXCEPT ![a] = TRUE]

Receive(a) ==
    /\ outcome[a] = "open"
    /\ outcome' = [outcome EXCEPT ![a] = "received"]
    /\ UNCHANGED window

Refute(a) ==
    /\ outcome[a] = "open"
    /\ ~window[a]
    /\ outcome' = [outcome EXCEPT ![a] = "refuted"]
    /\ UNCHANGED window

\* Time, which may also be set back, opens and closes windows.
Clock ==
    /\ window' \in [Attempts -> BOOLEAN]
    /\ UNCHANGED outcome

LedgerNext ==
    \/ \E a \in Attempts : Open(a) \/ Receive(a) \/ Refute(a)
    \/ Clock

LedgerSpec == LedgerInit /\ [][LedgerNext]_ledgerVars
=============================================================================
