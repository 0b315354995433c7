-------------------------- MODULE ApplicationStates --------------------------
(***************************************************************************)
(* The states of one application attempt, the rules that classify them and *)
(* the transitions a worker's report may ask for (lib/applications/        *)
(* state.ts), with the lease rule of the database (0002_worker_control).   *)
(* A reason code is kept only as far as some handler reads it: every other *)
(* code the server or the applicant writes is "system", every other code   *)
(* the worker writes is "worker".                                          *)
(***************************************************************************)

SafeStages == {"screening", "tailoring", "filling", "ready"}

Waiting ==
    {"needs_answer", "needs_document", "needs_policy_decision", "needs_login",
     "needs_verification", "provider_unavailable", "retryable_failure",
     "blocked_unsupported"}

Terminal == {"submitted", "failed", "skipped", "cancelled"}

\* Something may have reached the employer and nobody knows yet.
Ambiguous == {"submitting", "submission_unknown"}

States == {"queued"} \union SafeStages \union Waiting \union Ambiguous \union Terminal

\* The states in which the database lets a row carry a lease.
Leasable == SafeStages \union Ambiguous

Reasons ==
    {"none", "worker", "system", "document_hold", "provider_inspect_required",
     "submit_approval", "question_unresolved", "run_paused", "run_stopped",
     "restarted", "confirmed_submitted", "confirmed_not_submitted"}

Evidence == {"artifactVerified", "formVerified", "submitPermit"}

IsSafeRetry(state, reason) ==
    \/ state \in {"provider_unavailable", "retryable_failure"}
    \/ state = "needs_verification" /\ reason = "provider_inspect_required"
    \/ state = "needs_document" /\ reason = "document_hold"

IsAwaitingApproval(state, reason) ==
    state = "needs_policy_decision" /\ reason = "submit_approval"

(***************************************************************************)
(* What a worker's event may do to the state.  A submission leaves         *)
(* "submitting" by an event only for "submission_unknown": the request     *)
(* schema carries no receipt and no rejection, so an event never resolves  *)
(* it, and a row that waits is resolved by an operation of its own.        *)
(***************************************************************************)
CanTransition(from, to, evidence) ==
    \/ from = "submitting" /\ to = "submission_unknown"
    \/ from = "queued" /\ to = "screening"
    \/ /\ from \in SafeStages
       /\ \/ to \in Waiting \union {"failed", "skipped", "cancelled"}
          \/ to = from
          \/ from = "screening" /\ to = "tailoring"
          \/ from = "tailoring" /\ to = "filling" /\ "artifactVerified" \in evidence
          \/ from = "filling" /\ to = "ready" /\ "formVerified" \in evidence
          \/ from = "ready" /\ to = "submitting" /\ "submitPermit" \in evidence
=============================================================================
