--------------------------- MODULE MCControlPlane ---------------------------
(***************************************************************************)
(* Values for the constants of ControlPlane, and the parts of its next-    *)
(* state relation a run exercises where the whole is too large.  It        *)
(* extends what is proved of ControlPlane, so that an instance of it has   *)
(* the theorems.                                                           *)
(***************************************************************************)
EXTENDS ControlPlane_proofs, TLC

OneTenant == [role \in Roles |-> "board"]

-----------------------------------------------------------------------------
(* The policies an applicant saves and the events a worker sends. *)

Both == {"read_jobs", "submit"}
Body(select, form, reapply, actions) ==
    [select |-> select, form |-> form, reapply |-> reapply, actions |-> actions]

NoPolicy == Body("empty", "empty", FALSE, {})
Plain == Body("s1", "f1", FALSE, Both)
Review1 == Body("s1", "f1", FALSE, {"read_jobs"})
NewForm == Body("s1", "f2", FALSE, Both)
Again == Body("s1", "f1", TRUE, Both)

OnePolicy == {Plain}
ReapplyPolicies == {Plain, Again}
FormPolicies == {Plain, Review1, NewForm}

Event(from, state, reason, evidence) ==
    [from |-> from, state |-> state, reason |-> reason, evidence |-> evidence]
Screened == Event("screening", "tailoring", "worker", {})
Tailored == Event("tailoring", "filling", "worker", {"artifactVerified"})
Parked == Event("filling", "needs_policy_decision", "submit_approval", {})
Lost == Event("submitting", "submission_unknown", "worker", {})
StraightReports == {Screened, Tailored, Parked, Lost}
Holds ==
    {Event("screening", "skipped", "worker", {}),
     Event("tailoring", "needs_document", "document_hold", {}),
     Event("ready", "retryable_failure", "worker", {})}
AllReports == StraightReports \union Holds

-----------------------------------------------------------------------------
\* The applicant saves and enables policies, and nothing else changes them.
SaveAndEnable == SaveProfile \/ (\E body \in Policies : SavePolicy(body)) \/ EnablePolicy({})

\* One policy, saved and enabled once.
FirstPolicy ==
    \/ SaveProfile
    \/ policy.body = EmptyPolicy /\ \E body \in Policies : SavePolicy(body)
    \/ ~policy.enabled /\ EnablePolicy({})

\* Two workers and roles of two boards: who may hold a lease, up to and
\* through a submission in doubt.
NextLeases ==
    /\ \/ WorkerStep
       \/ \E r \in Runs : PauseRun(r)
       \/ StageStep
       \/ RevokeStep
       \/ \E a \in Apps : ApproveSubmit(a)
       \/ FirstPolicy
       \/ Tick
    /\ Observe

\* One role, attempt after attempt: every way an attempt ends or follows
\* another, the daily start's runs included.
NextAttempts ==
    /\ \/ \E w \in Workers : Poll(w) \/ WorkStep(w)
       \/ \E r \in Runs : StopRun(r)
       \/ StageStep
       \/ AttemptStep
       \/ \E a \in Apps : \/ Drop(a, "cancelled")
                         \/ EmergencyStop(a)
                         \/ ApproveSubmit(a)
                         \/ ConfirmSubmitted(a)
                         \/ ConfirmNotSubmitted(a)
       \/ SaveAndEnable
       \/ Tick
    /\ Observe
SpecAttempts == Init /\ [][NextAttempts]_vars

\* One application while its policy changes.
NextPolicy ==
    /\ WorkerStep \/ QuestionStep \/ RunStep \/ StageStep \/ DecideStep \/ PolicyStep
         \/ Tick
    /\ Observe

=============================================================================
