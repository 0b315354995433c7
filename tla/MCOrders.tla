------------------------------ MODULE MCOrders ------------------------------
(***************************************************************************)
(* The orders in which work on roles may come about, on instances of       *)
(* ControlPlane that are each larger in one direction: two runs while the  *)
(* policy selects other roles, two attempts at one role in two runs, two   *)
(* workers with two roles of one employer board, and one worker with three *)
(* roles of two boards.                                                    *)
(* "order" names the instance a behaviour is of.                            *)
(***************************************************************************)
EXTENDS Integers, TLC

CONSTANT Workers                    \* of the board

\* As ControlPlane asks of them: none is called what a row without one has.
ASSUME WorkerNames == "no_worker" \notin Workers

VARIABLES order, app, run, policy, profile, revoked, manual, reviewed
orderVars == <<order, app, run, policy, profile, revoked, manual, reviewed>>

\* What an applicant saves here, and what a worker that meets no obstacle sends.
Body(select, reapply) ==
    [select |-> select, form |-> "f1", reapply |-> reapply, actions |-> {"read_jobs", "submit"}]
NoPolicy == [select |-> "empty", form |-> "empty", reapply |-> FALSE, actions |-> {}]
OnePolicy == {Body("s1", FALSE)}
SelectPolicies == {Body("s1", FALSE), Body("s2", FALSE)}
AgainPolicy == {Body("s1", TRUE)}

Event(from, state, reason, evidence) ==
    [from |-> from, state |-> state, reason |-> reason, evidence |-> evidence]
StraightReports ==
    {Event("screening", "tailoring", "worker", {}),
     Event("tailoring", "filling", "worker", {"artifactVerified"}),
     Event("filling", "needs_policy_decision", "submit_approval", {}),
     Event("submitting", "submission_unknown", "worker", {})}

Selection == INSTANCE MCControlPlane WITH
    Workers <- {"w1"}, Roles <- {"r1"}, TenantOf <- [role \in {"r1"} |-> "board"],
    Runs <- {"u1", "u2"}, MaxAttempt <- 1, MaxProfile <- 1, Lease <- 1, SubmitWait <- 1,
    RetryLimit <- 1, Policies <- SelectPolicies, EmptyPolicy <- NoPolicy,
    Reports <- StraightReports, QuestionKinds <- {"needs_answer"}

Attempts == INSTANCE MCControlPlane WITH
    Workers <- {"w1"}, Roles <- {"r1"}, TenantOf <- [role \in {"r1"} |-> "board"],
    Runs <- {"u1", "u2"}, MaxAttempt <- 2, MaxProfile <- 1, Lease <- 1, SubmitWait <- 1,
    RetryLimit <- 1, Policies <- AgainPolicy, EmptyPolicy <- NoPolicy,
    Reports <- StraightReports, QuestionKinds <- {"needs_answer"}

Board == INSTANCE MCControlPlane WITH
    Roles <- {"r1", "r2"}, TenantOf <- [role \in {"r1", "r2"} |-> "board"],
    Runs <- {"u1", "u2"}, MaxAttempt <- 1, MaxProfile <- 1, Lease <- 1, SubmitWait <- 1,
    RetryLimit <- 1, Policies <- OnePolicy, EmptyPolicy <- NoPolicy,
    Reports <- StraightReports, QuestionKinds <- {"needs_answer"}

Boards == INSTANCE MCControlPlane WITH
    Workers <- {"w1"}, Roles <- {"r1", "r2", "r3"},
    TenantOf <- [role \in {"r1", "r2", "r3"} |-> IF role = "r1" THEN "own board" ELSE "board"],
    Runs <- {"u1"}, MaxAttempt <- 1, MaxProfile <- 1, Lease <- 1, SubmitWait <- 1,
    RetryLimit <- 1, Policies <- OnePolicy, EmptyPolicy <- NoPolicy,
    Reports <- StraightReports, QuestionKinds <- {"needs_answer"}

WorkerSymmetry == Permutations(Workers)

-----------------------------------------------------------------------------
OrdersInit ==
    \/ order = "selection" /\ Selection!Init
    \/ order = "attempts" /\ Attempts!Init
    \/ order = "board" /\ Board!Init
    \/ order = "boards" /\ Boards!Init

OrdersNext ==
    /\ \/ order = "selection" /\ Selection!NextPolicy
       \/ order = "attempts" /\ Attempts!NextAttempts
       \/ order = "board" /\ Board!NextLeases
       \/ order = "boards" /\ Boards!NextLeases
    /\ UNCHANGED order

OrdersSpec == OrdersInit /\ [][OrdersNext]_orderVars

-----------------------------------------------------------------------------
\* One running run and no work left behind by the runs a new policy ends; one
\* attempt at a role alive, and a run's targets are where its work is.
OneAtATime ==
    /\ order = "selection" => Selection!OneRunningRun /\ Selection!EndedWorkIsOver
    /\ order = "attempts" => Attempts!OneLiveAttempt /\ Attempts!TargetsFollowWork

\* Whoever polls, a board or a worker never has two leases: also not while one
\* worker still reads a submission in doubt and another works in a later run.
LeaseRules ==
    /\ order = "board" => Board!LeaseRules
    /\ order = "boards" => Boards!LeaseRules

\* The two attempts keep SubmissionLedger's promise: every step of theirs is one
\* of the ledger's or changes nothing of it.
LedgerStep == Attempts!Ledger!LedgerNext \/ UNCHANGED Attempts!Ledger!ledgerVars
KeepsLedger ==
    /\ order = "attempts" => Attempts!Ledger!LedgerInit
    /\ [][order = "attempts" => LedgerStep]_orderVars
==============================================================================
