------------------------ MODULE ControlPlane_proofs ------------------------
(***************************************************************************)
(* Proofs about ControlPlane, for every number of workers, roles, runs and *)
(* attempts, every lease and window length, and every policy and event     *)
(* the assumptions allow: its types, the fences and the intents; then what *)
(* binds the work, the lease rules and the refinement of SubmissionLedger. *)
(***************************************************************************)
EXTENDS ControlPlane, TLAPS

-----------------------------------------------------------------------------
\* What the handlers do to a row keeps it a row.

\* The numbers a row counts with.
LEMMA Bounds ==
    /\ Lease \in Nat /\ Lease > 0
    /\ Window \in Nat /\ Window > Lease
    /\ RetryLimit \in Nat
    /\ MaxAttempt \in Nat /\ MaxAttempt > 0
    /\ MaxProfile \in Nat
BY ControlAssumption DEF ControlAssumption, Window

\* Writing a row moves the pair its worker holds, and may end its lease.
LEMMA UnleasedType ==
    ASSUME NEW row \in Row
    PROVE  /\ Moved(row) \in Row /\ Moved(row).known = "none"
           /\ Unleased(row) \in Row /\ Unleased(row).known = "none"
<1> DEFINE moved == Moved(row)
<1>1. moved \in Row /\ moved.known = "none"
  BY DEF Row, Moved
<1>2. NoLease \in NoLease..Lease
  BY Bounds DEF NoLease
<1> HIDE DEF moved
<1>3. /\ [moved EXCEPT !.lease = NoLease] \in Row
      /\ [moved EXCEPT !.lease = NoLease].known = "none"
  BY <1>1, <1>2 DEF Row
<1> QED
  BY <1>1, <1>3 DEF Unleased, moved

\* Settling it gives it any state and reason as well.
LEMMA SettledType ==
    ASSUME NEW row \in Row, NEW state \in States \union {"absent"}, NEW why \in Reasons
    PROVE  Settled(row, state, why) \in Row /\ Settled(row, state, why).known = "none"
<1> DEFINE unleased == Unleased(row)
<1>1. unleased \in Row /\ unleased.known = "none"
  BY UnleasedType
<1> HIDE DEF unleased
<1>2. /\ [unleased EXCEPT !.state = state, !.reason = why] \in Row
      /\ [unleased EXCEPT !.state = state, !.reason = why].known = "none"
  BY ZenonT(60), <1>1 DEF Row
<1> QED
  BY <1>2 DEF Settled, unleased

\* Releasing it keeps its state, but for a submission under way.
LEMMA ReleasedType ==
    ASSUME NEW row \in Row, NEW why \in Reasons
    PROVE  Released(row, why) \in Row /\ Released(row, why).known = "none"
<1> DEFINE unleased == Unleased(row)
           state == IF unleased.state = "submitting" THEN "submission_unknown"
                    ELSE unleased.state
           reason == IF row.state = "submission_unknown" /\ unleased.reason # "none"
                     THEN unleased.reason ELSE why
<1>1. unleased \in Row /\ unleased.known = "none"
  BY UnleasedType
<1>2. "submission_unknown" \in States
  BY DEF States, Ambiguous
<1> HIDE DEF unleased
<1>3. state \in States \union {"absent"} /\ reason \in Reasons
  BY <1>1, <1>2 DEF Row
<1>4. Released(row, why) = [unleased EXCEPT !.state = state, !.reason = reason]
  BY DEF Released, unleased
<1> HIDE DEF state, reason
<1> QED
  BY ZenonT(60), <1>1, <1>3, <1>4 DEF Row

\* Screening it again.
LEMMA RescreenedType ==
    ASSUME NEW row \in Row, NEW why \in Reasons
    PROVE  Rescreened(row, why) \in Row /\ Rescreened(row, why).known = "none"
<1> DEFINE settled == Settled(row, "screening", why)
<1>1. "screening" \in SafeStages /\ "screening" \in States
  BY DEF States, SafeStages
<1>2. settled \in Row /\ settled.known = "none"
  BY <1>1, SettledType
<1> HIDE DEF settled
<1>3. /\ [settled EXCEPT !.stage = "screening"] \in Row
      /\ [settled EXCEPT !.stage = "screening"].known = "none"
  BY <1>1, <1>2 DEF Row
<1> QED
  BY <1>3 DEF Rescreened, settled

\* The row of a new attempt, and the place of one not made, are rows.
LEMMA NewRowType ==
    ASSUME NEW r \in Runs \union {NoRun}, NEW retries \in 0..RetryLimit
    PROVE  NewRow(r, retries) \in Row /\ AbsentRow \in Row
<1>1. /\ "queued" \in States /\ "none" \in Reasons
      /\ NoLease \in NoLease..Lease /\ 0 \in 0..Lease /\ NoIntent \in NoIntent..Window
      /\ 0 \in 0..RetryLimit
  BY Bounds DEF States, Reasons, NoLease, NoIntent
<1>2. ASSUME NEW q \in Runs \union {NoRun}, NEW n \in 0..RetryLimit
      PROVE  NewRow(q, n) \in Row
  BY <1>1 DEF NewRow, Row
<1>3. NewRow(NoRun, 0) \in Row
  BY <1>1, <1>2
<1>4. AbsentRow \in Row
  BY <1>3 DEF AbsentRow, Row
<1> QED
  BY <1>2, <1>4

\* The row a poll leases.
LEMMA ClaimedType ==
    ASSUME NEW row \in Row, row.state # "absent"
    PROVE  Claimed(row) \in Row
<1> DEFINE state == IF row.state = "queued" THEN "screening"
                   ELSE IF row.state = "submitting" THEN "submission_unknown"
                   ELSE row.state
<1>1. state \in States
  BY DEF Row, States, SafeStages, Ambiguous
<1>2. Lease \in NoLease..Lease
  BY Bounds DEF NoLease
<1>3. Claimed(row) = [row EXCEPT !.state = state, !.lease = Lease, !.known = state]
  BY DEF Claimed, HandedOut
<1> HIDE DEF state
<1> QED
  BY <1>1, <1>2, <1>3 DEF Row

\* The names the handlers write.
LEMMA Names ==
    /\ {"none", "system", "submit_approval", "question_unresolved", "run_paused",
        "run_stopped", "restarted", "confirmed_submitted", "confirmed_not_submitted"}
          \subseteq Reasons
    /\ {"queued", "screening", "filling", "ready", "needs_policy_decision",
        "submitting", "submission_unknown", "submitted", "failed", "skipped",
        "cancelled"} \subseteq States
    /\ SafeStages \subseteq States
    /\ Waiting \subseteq States
    /\ "screening" \in SafeStages /\ "ready" \in SafeStages
    /\ "absent" \notin States /\ "none" \notin States
BY DEF Reasons, States, SafeStages, Waiting, Ambiguous, Terminal

\* The row a poll leaves before it leases one.
LEMMA PollReleasedType ==
    ASSUME NEW w, NEW a \in Apps, app[a] \in Row
    PROVE  PollReleased(w, a) \in Row
<1>1. "system" \in Reasons
  BY Names
<1>2. Lease \in 0..Lease
  BY Bounds
<1>3. Released(app[a], "system") \in Row
  BY <1>1, ReleasedType
<1>4. [Released(app[a], "system") EXCEPT !.wait = Lease] \in Row
  BY <1>2, <1>3 DEF Row
<1> QED
  BY <1>3, <1>4 DEF PollReleased

\* The row pause or stop leaves.
LEMMA RowAfterRunType ==
    ASSUME NEW row \in Row, NEW r, NEW why \in {"run_paused", "run_stopped"}
    PROVE  RowAfterRun(row, r, why) \in Row
<1>1. why \in Reasons /\ "cancelled" \in States
  BY Names
<1>2. Released(row, why) \in Row
  BY <1>1, ReleasedType
<1>3. [Released(row, why) EXCEPT !.state = "cancelled"] \in Row
  BY <1>1, <1>2 DEF Row
<1> QED
  BY <1>2, <1>3 DEF RowAfterRun

\* The row an enabled policy leaves, step by step.
LEMMA CarriedRowType ==
    ASSUME NEW a \in Apps, app[a] \in Row, NEW lost
    PROVE  CarriedRow(a, lost) \in Row
<1>1. \A row \in Row : EndLease(row) \in Row
  BY Names, SettledType DEF EndLease, Row
<1>2. \A row \in Row : EndRun(row) \in Row
  BY Names, SettledType DEF EndRun
<1>3. \A row \in Row : WithdrawApproval(row) \in Row
  BY Names, SettledType DEF WithdrawApproval
<1>4. \A role : \A row \in Row : EndReapplication(row, role) \in Row
  BY Names, SettledType DEF EndReapplication
<1>5. \A row \in Row : CarryQuestions(row, lost) \in Row
  <2> SUFFICES ASSUME NEW row \in Row
               PROVE  CarryQuestions(row, lost) \in Row
    OBVIOUS
  <2>1. Rescreened(row, "system") \in Row
    BY Names, RescreenedType
  <2>2. \A c \in Row : [c EXCEPT !.asked = IF lost THEN "no" ELSE @] \in Row
    BY DEF Row
  <2> QED
    BY <2>1, <2>2 DEF CarryQuestions
<1>6. \A row \in Row : Refill(row) \in Row
  BY Names, RescreenedType DEF Refill
<1> QED
  BY <1>1, <1>2, <1>3, <1>4, <1>5, <1>6 DEF CarriedRow

-----------------------------------------------------------------------------
\* Type correctness, step by step.

\* Everything but the review, which a step's second half writes.
StateOK ==
    /\ app \in [Apps -> Row]
    /\ run \in [Runs -> Run]
    /\ policy \in [body : Bodies, enabled : BOOLEAN, expired : BOOLEAN]
    /\ profile \in 0..MaxProfile
    /\ revoked \subseteq Workers
    /\ manual \subseteq Roles

\* A run the daily start or the applicant creates is a run.
LEMMA InsertedRunType ==
    ASSUME StateOK, NEW r \in Runs, NEW w \in Workers
    PROVE  InsertedRun(r, w) \in [Runs -> Run]
<1>1. 0 \in 0..MaxAttempt
  BY Bounds
<1>2. [state |-> "running", worker |-> w, bound |-> TRUE,
       body |-> policy.body, targets |-> [role \in Roles |-> 0]] \in Run
  BY <1>1 DEF StateOK, Run, RunState
<1> QED
  BY <1>2 DEF InsertedRun, StateOK

\* A poll, a heartbeat and a lost lease.
LEMMA LeaseStepType ==
    ASSUME StateOK, NEW w \in Workers, LeaseStep(w)
    PROVE  StateOK'
<1> USE DEF StateOK
<1>1. CASE Poll(w)
  <2> DEFINE rows == [a \in Apps |-> PollReleased(w, a)]
  <2>1. rows \in [Apps -> Row]
    BY PollReleasedType
  <2>2. app' \in [Apps -> Row]
    <3>1. ASSUME NEW a \in {b \in Apps : Claimable(w, rows, b)},
                 app' = [rows EXCEPT ![a] = Claimed(rows[a])]
          PROVE  app' \in [Apps -> Row]
      <4>1. rows[a].state # "absent" /\ rows[a] \in Row
        BY <2>1, <3>1 DEF Claimable, Leasable, SafeStages, Ambiguous
      <4> QED
        BY <2>1, <3>1, <4>1, ClaimedType
    <3> QED
      BY <1>1, <2>1, <3>1 DEF Poll
  <2>3. run' \in [Runs -> Run]
    BY <1>1, InsertedRunType DEF Poll, DailyStart
  <2> QED
    BY <1>1, <2>2, <2>3 DEF Poll
<1>2. ASSUME NEW a \in Apps, Heartbeat(w, a)
      PROVE  StateOK'
  <2>1. [app[a] EXCEPT !.lease = Lease] \in Row
    BY Bounds DEF Row, NoLease
  <2> QED
    BY <1>2, <2>1 DEF Heartbeat
<1>3. ASSUME NEW a \in Apps, LoseLease(w, a)
      PROVE  StateOK'
  <2>1. Released(app[a], "system") \in Row
    BY Names, ReleasedType
  <2> QED
    BY <1>3, <2>1 DEF LoseLease
<1> QED
  BY <1>1, <1>2, <1>3 DEF LeaseStep

\* An event, an intent and a receipt.
LEMMA WorkStepType ==
    ASSUME StateOK, NEW w \in Workers, WorkStep(w)
    PROVE  StateOK'
<1> USE DEF StateOK
<1>1. ASSUME NEW a \in Apps, NEW report \in Reports, RecordEvent(w, a, report)
      PROVE  StateOK'
  <2>1. report.state \in States /\ report.reason \in Reasons
    BY ControlAssumption DEF ControlAssumption, ReportAssumption
  <2>2. CheckpointStage(app[a].state, report.state) \in SafeStages
    BY <1>1 DEF RecordEvent
  <2>3. NoLease \in NoLease..Lease
    BY Bounds DEF NoLease
  <2> DEFINE lease == IF EndsLease(report.state) THEN NoLease ELSE app[a].lease
             known == IF EndsLease(report.state) THEN "none" ELSE report.state
             stage == CheckpointStage(app[a].state, report.state)
             row == [app[a] EXCEPT !.state = report.state, !.reason = report.reason,
                       !.stage = stage, !.batch = FALSE, !.lease = lease, !.known = known]
  <2>4. app' = [app EXCEPT ![a] = row]
    BY <1>1 DEF RecordEvent
  <2>5. lease \in NoLease..Lease /\ known \in States \union {"none"}
    BY <2>1, <2>3 DEF Row
  <2> HIDE DEF lease, known, stage
  <2>6. \A before \in Row :
          [before EXCEPT !.state = report.state, !.reason = report.reason,
             !.stage = stage, !.batch = FALSE, !.lease = lease, !.known = known] \in Row
    BY ZenonT(60), <2>1, <2>2, <2>5 DEF Row, stage
  <2>7. row \in Row
    BY <2>6
  <2> HIDE DEF row
  <2> QED
    BY <1>1, <2>4, <2>7 DEF RecordEvent
<1>2. ASSUME NEW a \in Apps, BeginSubmission(w, a)
      PROVE  StateOK'
  <2>1. "submitting" \in States /\ "none" \in Reasons /\ 0 \in NoIntent..Window
    BY Bounds, Names DEF NoIntent
  <2>2. ASSUME NEW row \in Row
        PROVE  [row EXCEPT !.state = "submitting", !.reason = "none", !.intent = 0,
                           !.known = "submitting"] \in Row
    BY <2>1 DEF Row
  <2> QED
    BY <1>2, <2>2 DEF BeginSubmission
<1>3. ASSUME NEW a \in Apps, RecordReceipt(w, a)
      PROVE  StateOK'
  <2>1. Settled(app[a], "submitted", "none") \in Row
    BY Names, SettledType
  <2>2. [Settled(app[a], "submitted", "none") EXCEPT !.receipt = TRUE] \in Row
    BY <2>1 DEF Row
  <2> QED
    BY <1>3, <2>2 DEF RecordReceipt
<1> QED
  BY <1>1, <1>2, <1>3 DEF WorkStep

\* A batch of questions and an answer.
LEMMA QuestionStepType ==
    ASSUME StateOK, QuestionStep
    PROVE  StateOK'
<1> USE DEF StateOK
<1>1. QuestionKinds \subseteq States /\ 0 \in 0..Lease
  BY Bounds, Names, ControlAssumption DEF ControlAssumption, ReportAssumption
<1>2. ASSUME NEW w \in Workers, NEW a \in Apps, RegisterQuestions(w, a)
      PROVE  StateOK'
  <2>1. ASSUME NEW kind \in QuestionKinds
        PROVE  [Settled(app[a], kind, "question_unresolved") EXCEPT
                  !.stage = app[a].state, !.asked = "open", !.batch = TRUE, !.wait = 0] \in Row
    <3>1. Settled(app[a], kind, "question_unresolved") \in Row
      BY <1>1, Names, SettledType
    <3> QED
      BY <1>1, <1>2, <3>1 DEF Row, RegisterQuestions
  <2>2. [Rescreened(app[a], "none") EXCEPT
           !.asked = "answered", !.batch = TRUE, !.wait = 0] \in Row
    <3>1. Rescreened(app[a], "none") \in Row
      BY Names, RescreenedType
    <3> QED
      BY <1>1, <3>1 DEF Row
  <2> QED
    BY <1>2, <2>1, <2>2 DEF RegisterQuestions
<1>3. ASSUME NEW a \in Apps, AnswerQuestion(a)
      PROVE  StateOK'
  <2>1. [Rescreened(app[a], "none") EXCEPT !.asked = "answered", !.wait = 0] \in Row
    <3>1. Rescreened(app[a], "none") \in Row
      BY Names, RescreenedType
    <3> QED
      BY <1>1, <3>1 DEF Row
  <2>2. ASSUME NEW kind \in QuestionKinds
        PROVE  [Rescreened(app[a], "question_unresolved") EXCEPT
                  !.state = kind, !.asked = "open", !.wait = 0] \in Row
    <3>1. Rescreened(app[a], "question_unresolved") \in Row
      BY Names, RescreenedType
    <3> QED
      BY <1>1, <3>1 DEF Row
  <2> QED
    BY <1>3, <2>1, <2>2 DEF AnswerQuestion
<1> QED
  BY <1>2, <1>3 DEF QuestionStep

\* A run created, paused, stopped or resumed.
LEMMA RunStepType ==
    ASSUME StateOK, RunStep
    PROVE  StateOK'
<1> USE DEF StateOK
<1>1. ASSUME NEW w \in Workers, NEW r \in Runs, CreateRun(w, r)
      PROVE  StateOK'
  BY <1>1, InsertedRunType DEF CreateRun
<1>2. ASSUME NEW r \in Runs, NEW state \in RunState
      PROVE  [run EXCEPT ![r].state = state] \in [Runs -> Run]
  BY <1>2 DEF Run
<1>3. {"running", "paused", "stopped"} \subseteq RunState
  BY DEF RunState
<1>4. ASSUME NEW r \in Runs, PauseRun(r)
      PROVE  StateOK'
  BY <1>2, <1>3, <1>4, RowAfterRunType DEF PauseRun
<1>5. ASSUME NEW r \in Runs, StopRun(r)
      PROVE  StateOK'
  BY <1>2, <1>3, <1>5, RowAfterRunType DEF StopRun
<1>6. ASSUME NEW r \in Runs, ResumeRun(r)
      PROVE  StateOK'
  BY <1>2, <1>3, <1>6 DEF ResumeRun
<1> QED
  BY <1>1, <1>4, <1>5, <1>6 DEF RunStep

\* Staging the roles of a snapshot.
LEMMA StageStepType ==
    ASSUME StateOK, StageStep
    PROVE  StateOK'
<1> USE DEF StateOK
<1>1. PICK r \in Runs, roles \in SUBSET Roles : StageRoles(r, roles)
  BY DEF StageStep
<1>2. NewRow(r, 0) \in Row
  BY Bounds, NewRowType
<1>3. app' \in [Apps -> Row]
  BY <1>1, <1>2 DEF StageRoles
<1>4. ASSUME NEW targets \in [Roles -> 0..MaxAttempt]
      PROVE  [run EXCEPT ![r].targets = targets] \in [Runs -> Run]
  BY DEF Run
<1>5. run' \in [Runs -> Run]
  BY <1>1, <1>4 DEF StageRoles
<1> QED
  BY <1>1, <1>3, <1>5 DEF StageRoles

\* Another attempt after one that ends with row.
LEMMA ContinueType ==
    ASSUME StateOK, NEW r \in Runs, NEW a \in Apps, AttemptOf(a) < MaxAttempt,
           NEW row \in Row, NEW retries \in 0..RetryLimit, Continue(r, a, row, retries)
    PROVE  StateOK'
<1> USE DEF StateOK
<1>1. NewRow(r, retries) \in Row
  BY NewRowType
<1>2. app' \in [Apps -> Row]
  BY <1>1 DEF Continue
<1>3. AttemptOf(a) + 1 \in 0..MaxAttempt
  BY Bounds DEF Apps, AttemptOf
<1>4. \A n \in 0..MaxAttempt : [run EXCEPT ![r].targets[RoleOf(a)] = n] \in [Runs -> Run]
  BY DEF Run
<1>5. run' \in [Runs -> Run]
  BY <1>3, <1>4 DEF Continue
<1> QED
  BY <1>2, <1>5 DEF Continue

\* Reapplying, retrying after a confirmed non-submission, or restarting.
LEMMA AttemptStepType ==
    ASSUME StateOK, AttemptStep
    PROVE  StateOK'
<1>0. ASSUME NEW a \in Apps
      PROVE  app[a] \in Row
  BY <1>0 DEF StateOK
<1>1. 0 \in 0..RetryLimit
  BY Bounds
<1>2. ASSUME NEW r \in Runs, NEW a \in Apps, Reapply(r, a)
      PROVE  StateOK'
  BY <1>0, <1>1, <1>2, ContinueType DEF Reapply, MayContinue
<1>3. ASSUME NEW r \in Runs, NEW a \in Apps, RetryUnsubmitted(r, a)
      PROVE  StateOK'
  <2>1. /\ Settled(app[a], "failed", "confirmed_not_submitted") \in Row
        /\ Settled(app[a], "failed", "system") \in Row
    BY <1>0, Names, SettledType
  <2>2. app[a].retries < RetryLimit => app[a].retries + 1 \in 0..RetryLimit
    BY <1>0, Bounds DEF Row
  <2> QED
    BY <1>1, <1>3, <2>1, <2>2, ContinueType DEF RetryUnsubmitted, MayContinue
<1>4. ASSUME NEW r \in Runs, NEW a \in Apps, Restart(r, a)
      PROVE  StateOK'
  <2>1. Settled(app[a], "cancelled", "restarted") \in Row
    BY <1>0, Names, SettledType
  <2> QED
    BY <1>0, <1>1, <1>4, <2>1, ContinueType DEF Restart, MayContinue
<1> QED
  BY <1>2, <1>3, <1>4 DEF AttemptStep

\* The applicant gives a role up.
LEMMA RemoveStepType ==
    ASSUME StateOK, RemoveStep
    PROVE  StateOK'
<1> USE DEF StateOK
<1>1. ASSUME NEW a \in Apps, Delete(a)
      PROVE  StateOK'
  <2>1. Moved(app[a]) \in Row /\ Settled(app[a], "cancelled", "system") \in Row
    BY Names, SettledType, UnleasedType
  <2>2. \A row \in Row : [row EXCEPT !.hidden = TRUE] \in Row
    BY DEF Row
  <2> QED
    BY <1>1, <2>1, <2>2 DEF Delete
<1>2. ASSUME NEW a \in Apps, NEW state \in {"skipped", "cancelled"}, Drop(a, state)
      PROVE  StateOK'
  <2>1. Settled(app[a], state, "system") \in Row
    BY Names, SettledType
  <2> QED
    BY <1>2, <2>1 DEF Drop
<1>3. ASSUME NEW a \in Apps, EmergencyStop(a)
      PROVE  StateOK'
  <2>1. /\ Settled(app[a], "submission_unknown", "system") \in Row
        /\ Settled(app[a], "cancelled", "system") \in Row
    BY Names, SettledType
  <2> QED
    BY <1>3, <2>1 DEF EmergencyStop
<1>4. ASSUME NEW role \in Roles, MarkManual(role)
      PROVE  StateOK'
  <2>1. ASSUME NEW a \in Apps
        PROVE  /\ Released(app[a], "system") \in Row
               /\ [Released(app[a], "system") EXCEPT !.state = "skipped"] \in Row
    <3>1. Released(app[a], "system") \in Row
      BY Names, ReleasedType
    <3>2. "skipped" \in States
      BY Names
    <3> QED
      BY <3>1, <3>2 DEF Row
  <2> QED
    BY <1>4, <2>1 DEF MarkManual
<1> QED
  BY <1>1, <1>2, <1>3, <1>4 DEF RemoveStep

\* The applicant lets a row go on, or decides what became of it.
LEMMA DecideStepType ==
    ASSUME StateOK, DecideStep
    PROVE  StateOK'
<1> USE DEF StateOK
<1>1. ASSUME NEW a \in Apps, RetrySafe(a)
      PROVE  StateOK'
  <2> DEFINE state == IF app[a].stage = "ready" THEN "filling" ELSE app[a].stage
             row == Settled(app[a], state, "system")
  <2>1. state \in States
    BY <1>1, Names DEF Row, RetrySafe
  <2>2. row \in Row
    BY <2>1, Names, SettledType
  <2>3. app[a].retries + 1 \in 0..RetryLimit /\ 1 \in 0..Lease
    BY <1>1, Bounds DEF RetrySafe, Row
  <2>4. app' = [app EXCEPT ![a] =
                  [row EXCEPT !.retries = app[a].retries + 1, !.wait = 1]]
    BY <1>1 DEF RetrySafe
  <2> HIDE DEF row
  <2>5. [row EXCEPT !.retries = app[a].retries + 1, !.wait = 1] \in Row
    BY <2>2, <2>3 DEF Row
  <2> QED
    BY <1>1, <2>4, <2>5 DEF RetrySafe
<1>2. ASSUME NEW a \in Apps, ApproveSubmit(a)
      PROVE  StateOK'
  <2>1. Settled(app[a], "ready", "system") \in Row /\ 0 \in 0..Lease
    BY Bounds, Names, SettledType
  <2>2. [Settled(app[a], "ready", "system") EXCEPT !.wait = 0] \in Row
    BY <2>1 DEF Row
  <2> QED
    BY <1>2, <2>2 DEF ApproveSubmit
<1>3. ASSUME NEW a \in Apps, ConfirmSubmitted(a)
      PROVE  StateOK'
  <2>1. Settled(app[a], "submitted", "confirmed_submitted") \in Row
    BY Names, SettledType
  <2> QED
    BY <1>3, <2>1 DEF ConfirmSubmitted
<1>4. ASSUME NEW a \in Apps, ConfirmNotSubmitted(a)
      PROVE  StateOK'
  <2>1. Settled(app[a], "failed", "confirmed_not_submitted") \in Row
    BY Names, SettledType
  <2> QED
    BY <1>4, <2>1 DEF ConfirmNotSubmitted
<1> QED
  BY <1>1, <1>2, <1>3, <1>4 DEF DecideStep

\* A run an enabled policy carries, ends or makes in place of one it ends.
LEMMA CarriedRunType ==
    ASSUME StateOK, NEW r \in Runs, NEW replacement \in Replacements
    PROVE  CarriedRun(r, replacement) \in Run
<1> USE DEF StateOK
<1>1. policy.body \in Bodies /\ run[r] \in Run
  OBVIOUS
<1>2. CASE Carried(r)
  BY <1>1, <1>2 DEF CarriedRun, Run
<1>3. CASE Ended(r)
  BY <1>1, <1>3 DEF CarriedRun, Run, RunState, Carried, Ended
<1>4. CASE ~Carried(r) /\ ~Ended(r)
  <2>1. CASE \E s \in DOMAIN replacement : replacement[s] = r
    <3> DEFINE w == run[InPlaceOf(r, replacement)].worker
    <3>1. InPlaceOf(r, replacement) \in Runs
      BY <2>1 DEF InPlaceOf, Replacements, Replaced
    <3>2. w \in Workers \union {NoWorker}
      BY <3>1 DEF Run
    <3>3. AbsentRun \in Run
      BY Bounds DEF AbsentRun, Run, RunState, Bodies
    <3>4. CarriedRun(r, replacement) =
            [AbsentRun EXCEPT !.state = "running", !.bound = TRUE,
                              !.body = policy.body, !.worker = w]
      BY <1>4, <2>1 DEF CarriedRun
    <3> HIDE DEF w
    <3> QED
      BY <1>1, <3>2, <3>3, <3>4 DEF Run, RunState
  <2>2. CASE ~ \E s \in DOMAIN replacement : replacement[s] = r
    BY <1>1, <1>4, <2>2 DEF CarriedRun, Run
  <2> QED
    BY <2>1, <2>2
<1> QED
  BY <1>2, <1>3, <1>4

\* The profile or the policy saved, disabled, expired or enabled.
LEMMA PolicyStepType ==
    ASSUME StateOK, PolicyStep
    PROVE  StateOK'
<1> USE DEF StateOK
<1>1. Unbound \in [Runs -> Run]
  BY DEF Unbound, Run
<1>2. CASE SaveProfile
  BY <1>2, Bounds DEF SaveProfile
<1>3. ASSUME NEW body \in Policies, SavePolicy(body)
      PROVE  StateOK'
  BY <1>1, <1>3 DEF SavePolicy, Bodies
<1>4. CASE DisablePolicy
  BY <1>1, <1>4 DEF DisablePolicy
<1>5. CASE ExpirePolicy
  BY <1>5 DEF ExpirePolicy
<1>6. ASSUME NEW lost, EnablePolicy(lost)
      PROVE  StateOK'
  <2>1. run' \in [Runs -> Run]
    BY <1>6, CarriedRunType DEF EnablePolicy
  <2>2. app' \in [Apps -> Row]
    <3>1. ASSUME NEW a \in Apps
          PROVE  CarriedRow(a, a \in lost) \in Row
      BY CarriedRowType
    <3> QED
      BY <1>6, <3>1 DEF EnablePolicy
  <2> QED
    BY <1>6, <2>1, <2>2 DEF EnablePolicy
<1> QED
  BY <1>2, <1>3, <1>4, <1>5, <1>6 DEF PolicyStep

\* A worker revoked.
LEMMA RevokeStepType ==
    ASSUME StateOK, RevokeStep
    PROVE  StateOK'
<1> USE DEF StateOK
<1>1. PICK w \in Workers : RevokeWorker(w)
  BY DEF RevokeStep
<1>2. app' \in [Apps -> Row]
  BY <1>1, Names, ReleasedType DEF RevokeWorker
<1>3. run' \in [Runs -> Run]
  <2>1. \A r \in Runs : [run[r] EXCEPT !.state = "paused"] \in Run
    BY DEF Run, RunState
  <2> QED
    BY <1>1, <2>1 DEF RevokeWorker
<1> QED
  BY <1>1, <1>2, <1>3 DEF RevokeWorker

\* Time passes, or the clock is set back.
LEMMA ClockStepType ==
    ASSUME StateOK, ClockStep
    PROVE  StateOK'
<1> USE DEF StateOK
<1>1. \A row \in Row : /\ Sooner(row.lease) \in NoLease..Lease
                       /\ Sooner(row.wait) \in 0..Lease
                       /\ Later(row.wait, Lease) \in 0..Lease
                       /\ Later(row.intent, Window) \in NoIntent..Window
                       /\ Sooner(row.intent) \in NoIntent..Window
                       /\ 0 \in NoLease..Lease
  BY Bounds DEF Row, Sooner, Later, NoLease, NoIntent
<1>2. CASE Tick
  <2>1. ASSUME NEW row \in Row
        PROVE  Aged(row) \in Row
    <3> DEFINE lease == Sooner(row.lease)
               wait == Sooner(row.wait)
               intent == IF row.intent = NoIntent THEN NoIntent ELSE Later(row.intent, Window)
    <3>1. Aged(row) = [row EXCEPT !.lease = lease, !.wait = wait, !.intent = intent]
      BY DEF Aged
    <3>2. intent \in NoIntent..Window
      BY <1>1, Bounds DEF NoIntent
    <3>3. lease \in NoLease..Lease /\ wait \in 0..Lease
      BY <1>1
    <3> HIDE DEF lease, wait, intent
    <3> QED
      BY ZenonT(60), <3>1, <3>2, <3>3 DEF Row
  <2> QED
    BY <1>2, <2>1 DEF Tick
<1>3. CASE ClockBack
  <2>1. ASSUME NEW row \in Row
        PROVE  SetBack(row) \in Row
    <3> DEFINE lease == IF row.lease = NoLease THEN NoLease ELSE 0
               wait == Later(row.wait, Lease)
               intent == Sooner(row.intent)
    <3>1. SetBack(row) = [row EXCEPT !.lease = lease, !.wait = wait, !.intent = intent]
      BY DEF SetBack
    <3>2. lease \in NoLease..Lease
      BY <1>1, Bounds DEF NoLease
    <3>3. wait \in 0..Lease /\ intent \in NoIntent..Window
      BY <1>1
    <3> HIDE DEF lease, wait, intent
    <3> QED
      BY ZenonT(60), <3>1, <3>2, <3>3 DEF Row
  <2> QED
    BY <1>3, <2>1 DEF ClockBack
<1> QED
  BY <1>2, <1>3 DEF ClockStep

\* An attempt nothing is shown of is not reviewed.
LEMMA NoReviewType == NoReview \in Review
<1>1. "none" \in Forms /\ 0 \in 0..MaxProfile
  BY Bounds DEF Forms
<1> QED
  BY <1>1 DEF NoReview, Review

\* Whatever a step does to the rows, the review it leaves is a review.
LEMMA ObserveType ==
    ASSUME PlaneTypeOK, StateOK', Observe
    PROVE  reviewed' \in [Apps -> Review]
<1>1. ASSUME NEW a \in Apps
      PROVE  Observed(a) \in Review
  <2>1. reviewed[a] \in Review
    BY DEF PlaneTypeOK
  <2>2. NoReview \in Review
    BY NoReviewType
  <2>3. /\ [reviewed[a] EXCEPT !.approved = TRUE] \in Review
        /\ [reviewed[a] EXCEPT !.approved = FALSE] \in Review
    BY <2>1 DEF Review
  <2>4. [form |-> policy.body.form, profile |-> profile, asked |-> app'[a].asked,
         approved |-> FALSE] \in Review
    <3>1. policy.body.form \in Forms
      BY DEF PlaneTypeOK, Forms
    <3>2. app'[a].asked \in {"no", "open", "answered"}
      BY DEF StateOK, Row
    <3>3. profile \in 0..MaxProfile
      BY DEF PlaneTypeOK
    <3> QED
      BY <3>1, <3>2, <3>3 DEF Review
  <2> QED
    BY <2>1, <2>2, <2>3, <2>4 DEF Observed
<1> QED
  BY <1>1 DEF Observe

\* Every reachable state is one the private database can hold: states, reasons
\* and counters in range, whatever the handlers did before.
THEOREM TypeCorrect == Spec => []PlaneTypeOK
<1>1. Init => PlaneTypeOK
  <2>1. AbsentRow \in Row
    BY Bounds, NewRowType
  <2>2. AbsentRun \in Run
    BY Bounds DEF AbsentRun, Run, RunState, Bodies
  <2>3. 0 \in 0..MaxProfile
    BY Bounds
  <2>4. NoReview \in Review
    BY NoReviewType
  <2>5. EmptyPolicy \in Bodies
    BY DEF Bodies
  <2> QED
    BY <2>1, <2>2, <2>3, <2>4, <2>5 DEF Init, PlaneTypeOK
<1>2. PlaneTypeOK /\ [Next]_vars => PlaneTypeOK'
  <2> SUFFICES ASSUME PlaneTypeOK, [Next]_vars
               PROVE  PlaneTypeOK'
    OBVIOUS
  <2>1. CASE UNCHANGED vars
    BY <2>1 DEF PlaneTypeOK, vars
  <2>2. CASE Step /\ Observe
    <3>1. StateOK
      BY DEF PlaneTypeOK, StateOK
    <3>2. StateOK'
      <4>1. CASE WorkerStep
        BY <3>1, <4>1, LeaseStepType, WorkStepType DEF WorkerStep
      <4>2. CASE QuestionStep
        BY <3>1, <4>2, QuestionStepType
      <4>3. CASE RunStep
        BY <3>1, <4>3, RunStepType
      <4>4. CASE StageStep
        BY <3>1, <4>4, StageStepType
      <4>5. CASE AttemptStep
        BY <3>1, <4>5, AttemptStepType
      <4>6. CASE RemoveStep
        BY <3>1, <4>6, RemoveStepType
      <4>7. CASE DecideStep
        BY <3>1, <4>7, DecideStepType
      <4>8. CASE PolicyStep
        BY <3>1, <4>8, PolicyStepType
      <4>9. CASE RevokeStep
        BY <3>1, <4>9, RevokeStepType
      <4>10. CASE ClockStep
        BY <3>1, <4>10, ClockStepType
      <4> QED
        BY <2>2, <4>1, <4>2, <4>3, <4>4, <4>5, <4>6, <4>7, <4>8, <4>9, <4>10 DEF Step
    <3>3. reviewed' \in [Apps -> Review]
      BY <2>2, <3>2, ObserveType
    <3> QED
      BY <3>2, <3>3 DEF PlaneTypeOK, StateOK
  <2> QED
    BY <2>1, <2>2 DEF Next
<1> QED
  BY <1>1, <1>2, PTL DEF Spec

-----------------------------------------------------------------------------
\* The pair a worker holds never outlives what it was told.

\* KnownMeansUnchanged, of one row.
Fenced(row) == row.known # "none" => Leased(row) /\ row.known = row.state

\* A row with nothing known stays so whatever other fields are written.
LEMMA StaysUnknown ==
    ASSUME NEW row \in Row, row.known = "none",
           NEW state, NEW stage, NEW asked, NEW batch, NEW wait, NEW retries
    PROVE  /\ Fenced(row)
           /\ Fenced([row EXCEPT !.state = state])
           /\ Fenced([row EXCEPT !.wait = wait])
           /\ Fenced([row EXCEPT !.hidden = TRUE])
           /\ Fenced([row EXCEPT !.receipt = TRUE])
           /\ Fenced([row EXCEPT !.retries = retries, !.wait = wait])
           /\ Fenced([row EXCEPT !.asked = asked, !.wait = wait])
           /\ Fenced([row EXCEPT !.state = state, !.asked = asked, !.wait = wait])
           /\ Fenced([row EXCEPT !.asked = asked, !.batch = batch, !.wait = wait])
           /\ Fenced([row EXCEPT !.stage = stage, !.asked = asked, !.batch = batch,
                                 !.wait = wait])
BY DEF Fenced, Row

\* A poll, a heartbeat or a lost lease keeps every row fenced.
LEMMA LeaseStepFenced ==
    ASSUME StateOK, \A a \in Apps : Fenced(app[a]), NEW w \in Workers, LeaseStep(w)
    PROVE  \A a \in Apps : Fenced(app'[a])
<1>1. \A a \in Apps : app[a] \in Row
  BY DEF StateOK
<1>2. CASE Poll(w)
  <2> DEFINE rows == [a \in Apps |-> PollReleased(w, a)]
  <2>1. ASSUME NEW a \in Apps
        PROVE  rows[a] \in Row /\ Fenced(rows[a])
    <3>1. rows[a] = PollReleased(w, a) /\ PollReleased(w, a) \in Row
      BY <1>1, PollReleasedType
    <3>2. Released(app[a], "system") \in Row /\ Released(app[a], "system").known = "none"
      BY SMTT(60), <1>1, Names, ReleasedType
    <3>3. /\ Fenced(Released(app[a], "system"))
          /\ Fenced([Released(app[a], "system") EXCEPT !.wait = Lease])
      BY <3>2, StaysUnknown
    <3> QED
      BY <3>1, <3>3 DEF PollReleased
  <2>2. \A row \in Row : Fenced(Claimed(row))
    BY Bounds DEF Claimed, HandedOut, Fenced, Leased, Row, NoLease
  <2>3. \/ app' = rows
        \/ \E a \in Apps : app' = [rows EXCEPT ![a] = Claimed(rows[a])]
    BY <1>2 DEF Poll
  <2> HIDE DEF rows
  <2>4. rows \in [Apps -> Row]
    BY <1>1, PollReleasedType DEF rows
  <2> QED
    BY <2>1, <2>2, <2>3, <2>4
<1>3. ASSUME NEW a \in Apps, Heartbeat(w, a)
      PROVE  Fenced(app'[a]) /\ \A b \in Apps \ {a} : app'[b] = app[b]
  <2>1. app'[a] = [app[a] EXCEPT !.lease = Lease]
    BY <1>3 DEF Heartbeat, StateOK
  <2> QED
    BY <1>1, <1>3, <2>1, Bounds DEF Heartbeat, StateOK, Fenced, Leased, Row, NoLease
<1>4. ASSUME NEW a \in Apps, LoseLease(w, a)
      PROVE  Fenced(app'[a]) /\ \A b \in Apps \ {a} : app'[b] = app[b]
  <2>1. Released(app[a], "system").known = "none"
    BY <1>1, Names, ReleasedType
  <2> QED
    BY <1>4, <2>1 DEF LoseLease, StateOK, Fenced
<1> QED
  BY <1>2, <1>3, <1>4 DEF LeaseStep

\* An event, an intent or a receipt.
LEMMA WorkStepFenced ==
    ASSUME StateOK, \A a \in Apps : Fenced(app[a]), NEW w \in Workers, WorkStep(w)
    PROVE  \A a \in Apps : Fenced(app'[a])
<1>1. \A a \in Apps : app[a] \in Row
  BY DEF StateOK
<1>2. ASSUME NEW a \in Apps, NEW report \in Reports, RecordEvent(w, a, report)
      PROVE  Fenced(app'[a]) /\ \A b \in Apps \ {a} : app'[b] = app[b]
  <2> DEFINE ends == EndsLease(report.state)
  <2>1. Leased(app[a])
    BY <1>2 DEF RecordEvent, Checked, Matches
  <2>2. /\ app'[a].state = report.state
        /\ app'[a].lease = IF ends THEN NoLease ELSE app[a].lease
        /\ app'[a].known = IF ends THEN "none" ELSE report.state
    BY <1>1, <1>2 DEF RecordEvent, StateOK, Row
  <2>3. \A b \in Apps \ {a} : app'[b] = app[b]
    BY <1>2 DEF RecordEvent, StateOK
  <2> QED
    BY <2>1, <2>2, <2>3 DEF Fenced, Leased
<1>3. ASSUME NEW a \in Apps, BeginSubmission(w, a)
      PROVE  Fenced(app'[a]) /\ \A b \in Apps \ {a} : app'[b] = app[b]
  <2>1. Leased(app[a])
    BY <1>3 DEF BeginSubmission, Checked, Matches
  <2> QED
    BY <1>1, <1>3, <2>1 DEF BeginSubmission, StateOK, Fenced, Leased, Row
<1>4. ASSUME NEW a \in Apps, RecordReceipt(w, a)
      PROVE  Fenced(app'[a]) /\ \A b \in Apps \ {a} : app'[b] = app[b]
  <2>1. Fenced([Settled(app[a], "submitted", "none") EXCEPT !.receipt = TRUE])
    <3>1. /\ Settled(app[a], "submitted", "none") \in Row
          /\ Settled(app[a], "submitted", "none").known = "none"
      BY <1>1, Names, SettledType
    <3> QED
      BY <3>1, StaysUnknown
  <2> QED
    BY SMTT(60), <1>4, <2>1 DEF RecordReceipt, StateOK
<1> QED
  BY <1>2, <1>3, <1>4 DEF WorkStep

\* A batch of questions or an answer.
LEMMA QuestionStepFenced ==
    ASSUME StateOK, \A a \in Apps : Fenced(app[a]), QuestionStep
    PROVE  \A a \in Apps : Fenced(app'[a])
<1>1. \A a \in Apps : app[a] \in Row
  BY DEF StateOK
<1>2. QuestionKinds \subseteq States
  BY Names, ControlAssumption DEF ControlAssumption, ReportAssumption
<1>3. ASSUME NEW w \in Workers, NEW a \in Apps, RegisterQuestions(w, a)
      PROVE  Fenced(app'[a]) /\ \A b \in Apps \ {a} : app'[b] = app[b]
  <2>0. Rescreened(app[a], "none") \in Row /\ Rescreened(app[a], "none").known = "none"
    BY <1>1, Names, RescreenedType
  <2>1. ASSUME NEW kind \in QuestionKinds, NEW stage
        PROVE  Fenced([Settled(app[a], kind, "question_unresolved") EXCEPT
                         !.stage = stage, !.asked = "open", !.batch = TRUE, !.wait = 0])
    <3>1. /\ Settled(app[a], kind, "question_unresolved") \in Row
          /\ Settled(app[a], kind, "question_unresolved").known = "none"
      BY <1>1, <1>2, Names, SettledType
    <3> QED
      BY ZenonT(60), <3>1, StaysUnknown
  <2>2. Fenced([Rescreened(app[a], "none") EXCEPT
                  !.asked = "answered", !.batch = TRUE, !.wait = 0])
    BY <2>0, StaysUnknown
  <2>3. ASSUME NEW row, app' = [app EXCEPT ![a] = row], Fenced(row)
        PROVE  Fenced(app'[a]) /\ \A b \in Apps \ {a} : app'[b] = app[b]
    BY <2>3 DEF StateOK
  <2> QED
    BY ZenonT(60), <1>3, <2>1, <2>2, <2>3 DEF RegisterQuestions
<1>4. ASSUME NEW a \in Apps, AnswerQuestion(a)
      PROVE  Fenced(app'[a]) /\ \A b \in Apps \ {a} : app'[b] = app[b]
  <2>0. /\ Rescreened(app[a], "none") \in Row
        /\ Rescreened(app[a], "none").known = "none"
        /\ Rescreened(app[a], "question_unresolved") \in Row
        /\ Rescreened(app[a], "question_unresolved").known = "none"
    BY <1>1, Names, RescreenedType
  <2>1. Fenced([Rescreened(app[a], "none") EXCEPT !.asked = "answered", !.wait = 0])
    BY ZenonT(60), <2>0, StaysUnknown
  <2>2. ASSUME NEW kind \in QuestionKinds
        PROVE  Fenced([Rescreened(app[a], "question_unresolved") EXCEPT
                         !.state = kind, !.asked = "open", !.wait = 0])
    BY <2>0, StaysUnknown
  <2> QED
    BY ZenonT(60), <1>4, <2>1, <2>2 DEF AnswerQuestion, StateOK
<1> QED
  BY <1>3, <1>4 DEF QuestionStep

\* Writing one row, or one row and the next attempt's.
LEMMA OneRowFenced ==
    ASSUME StateOK, \A a \in Apps : Fenced(app[a]), NEW a \in Apps, NEW row, Fenced(row),
           app' = [app EXCEPT ![a] = row]
    PROVE  \A b \in Apps : Fenced(app'[b])
BY DEF StateOK

\* A run created, paused, stopped or resumed.
LEMMA RunStepFenced ==
    ASSUME StateOK, \A a \in Apps : Fenced(app[a]), RunStep
    PROVE  \A a \in Apps : Fenced(app'[a])
<1>1. \A a \in Apps : app[a] \in Row
  BY DEF StateOK
<1>2. ASSUME NEW a \in Apps, NEW r, NEW why \in {"run_paused", "run_stopped"}
      PROVE  Fenced(RowAfterRun(app[a], r, why))
  <2>1. Released(app[a], why) \in Row /\ Released(app[a], why).known = "none"
    BY <1>1, Names, ReleasedType
  <2>2. /\ Fenced(Released(app[a], why))
        /\ Fenced([Released(app[a], why) EXCEPT !.state = "cancelled"])
    BY <2>1, StaysUnknown
  <2> QED
    BY <2>2 DEF RowAfterRun
<1>3. ASSUME NEW r \in Runs, PauseRun(r) \/ StopRun(r)
      PROVE  \A a \in Apps : Fenced(app'[a])
  BY <1>2, <1>3 DEF PauseRun, StopRun
<1>4. ASSUME NEW r \in Runs, NEW w \in Workers, ResumeRun(r) \/ CreateRun(w, r)
      PROVE  app' = app
  BY <1>4 DEF ResumeRun, CreateRun
<1> QED
  BY <1>3, <1>4 DEF RunStep, ResumeRun

\* A new attempt is staged or follows one.
LEMMA AttemptsFenced ==
    ASSUME StateOK, \A a \in Apps : Fenced(app[a]), StageStep \/ AttemptStep
    PROVE  \A a \in Apps : Fenced(app'[a])
<1>1. \A a \in Apps : app[a] \in Row
  BY DEF StateOK
<1>2. \A r, n : Fenced(NewRow(r, n))
  BY DEF Fenced, NewRow
<1>3. CASE StageStep
  BY <1>2, <1>3 DEF StageStep, StageRoles
<1>4. ASSUME NEW r, NEW a \in Apps, NEW row, NEW n, Fenced(row), Continue(r, a, row, n)
      PROVE  \A b \in Apps : Fenced(app'[b])
  BY <1>2, <1>4 DEF Continue, StateOK
<1>5. ASSUME NEW a \in Apps
      PROVE  /\ Fenced(Settled(app[a], "failed", "confirmed_not_submitted"))
             /\ Fenced(Settled(app[a], "failed", "system"))
             /\ Fenced(Settled(app[a], "cancelled", "restarted"))
  <2>1. /\ Settled(app[a], "failed", "confirmed_not_submitted").known = "none"
        /\ Settled(app[a], "failed", "system").known = "none"
        /\ Settled(app[a], "cancelled", "restarted").known = "none"
    BY <1>1, Names, SettledType
  <2> QED
    BY <2>1 DEF Fenced
<1>6. ASSUME NEW r \in Runs, NEW a \in Apps, Reapply(r, a)
      PROVE  \A b \in Apps : Fenced(app'[b])
  BY <1>4, <1>6 DEF Reapply
<1>7. ASSUME NEW r \in Runs, NEW a \in Apps, RetryUnsubmitted(r, a)
      PROVE  \A b \in Apps : Fenced(app'[b])
  BY <1>4, <1>5, <1>7 DEF RetryUnsubmitted
<1>8. ASSUME NEW r \in Runs, NEW a \in Apps, Restart(r, a)
      PROVE  \A b \in Apps : Fenced(app'[b])
  BY <1>4, <1>5, <1>8 DEF Restart
<1> QED
  BY <1>3, <1>6, <1>7, <1>8 DEF AttemptStep

\* The applicant gives a role up.
LEMMA RemoveStepFenced ==
    ASSUME StateOK, \A a \in Apps : Fenced(app[a]), RemoveStep
    PROVE  \A a \in Apps : Fenced(app'[a])
<1>1. \A a \in Apps : app[a] \in Row
  BY DEF StateOK
<1>2. ASSUME NEW a \in Apps
      PROVE  /\ Fenced(Settled(app[a], "skipped", "system"))
             /\ Fenced(Settled(app[a], "cancelled", "system"))
             /\ Fenced(Settled(app[a], "submission_unknown", "system"))
             /\ Fenced([Moved(app[a]) EXCEPT !.hidden = TRUE])
             /\ Fenced([Settled(app[a], "cancelled", "system") EXCEPT !.hidden = TRUE])
             /\ Fenced(Released(app[a], "system"))
             /\ Fenced([Released(app[a], "system") EXCEPT !.state = "skipped"])
  <2>1. /\ Settled(app[a], "skipped", "system").known = "none"
        /\ Settled(app[a], "submission_unknown", "system").known = "none"
    BY <1>1, Names, SettledType
  <2>2. /\ Settled(app[a], "cancelled", "system") \in Row
        /\ Settled(app[a], "cancelled", "system").known = "none"
    BY <1>1, Names, SettledType
  <2>3. Moved(app[a]) \in Row /\ Moved(app[a]).known = "none"
    BY <1>1, UnleasedType
  <2>4. Released(app[a], "system") \in Row /\ Released(app[a], "system").known = "none"
    BY <1>1, Names, ReleasedType
  <2>5. /\ Fenced(Settled(app[a], "skipped", "system"))
        /\ Fenced(Settled(app[a], "submission_unknown", "system"))
    BY <2>1 DEF Fenced
  <2> QED
    BY <2>2, <2>3, <2>4, <2>5, StaysUnknown
<1>3. ASSUME NEW a \in Apps, Delete(a)
      PROVE  \A b \in Apps : Fenced(app'[b])
  <2>1. \/ app' = [app EXCEPT ![a] = [Moved(app[a]) EXCEPT !.hidden = TRUE]]
        \/ app' = [app EXCEPT ![a] =
                     [Settled(app[a], "cancelled", "system") EXCEPT !.hidden = TRUE]]
    BY <1>3 DEF Delete
  <2> QED
    BY <1>2, <2>1, OneRowFenced
<1>4. ASSUME NEW a \in Apps, NEW state \in {"skipped", "cancelled"}, Drop(a, state)
      PROVE  \A b \in Apps : Fenced(app'[b])
  BY <1>2, <1>4, OneRowFenced DEF Drop
<1>5. ASSUME NEW a \in Apps, EmergencyStop(a)
      PROVE  \A b \in Apps : Fenced(app'[b])
  BY <1>2, <1>5, OneRowFenced DEF EmergencyStop
<1>6. ASSUME NEW role \in Roles, MarkManual(role)
      PROVE  \A b \in Apps : Fenced(app'[b])
  BY <1>2, <1>6 DEF MarkManual
<1> QED
  BY SMTT(60), <1>3, <1>4, <1>5, <1>6 DEF RemoveStep

\* The applicant lets a row go on, or decides what became of it.
LEMMA DecideStepFenced ==
    ASSUME StateOK, \A a \in Apps : Fenced(app[a]), DecideStep
    PROVE  \A a \in Apps : Fenced(app'[a])
<1>1. \A a \in Apps : app[a] \in Row
  BY DEF StateOK
<1>2. ASSUME NEW a \in Apps, RetrySafe(a)
      PROVE  \A b \in Apps : Fenced(app'[b])
  <2> DEFINE state == IF app[a].stage = "ready" THEN "filling" ELSE app[a].stage
             row == Settled(app[a], state, "system")
  <2>1. state \in States
    BY <1>1, <1>2, Names DEF Row, RetrySafe
  <2>2. row \in Row /\ row.known = "none"
    BY ZenonT(60), <1>1, <2>1, Names, SettledType
  <2>3. app' = [app EXCEPT ![a] =
                  [row EXCEPT !.retries = app[a].retries + 1, !.wait = 1]]
    BY <1>2 DEF RetrySafe
  <2> HIDE DEF row
  <2>4. Fenced([row EXCEPT !.retries = app[a].retries + 1, !.wait = 1])
    BY <2>2, StaysUnknown
  <2> QED
    BY <2>3, <2>4, OneRowFenced
<1>3. ASSUME NEW a \in Apps, ApproveSubmit(a)
      PROVE  \A b \in Apps : Fenced(app'[b])
  <2>1. /\ Settled(app[a], "ready", "system") \in Row
        /\ Settled(app[a], "ready", "system").known = "none"
    BY <1>1, Names, SettledType
  <2>2. Fenced([Settled(app[a], "ready", "system") EXCEPT !.wait = 0])
    BY <2>1, StaysUnknown
  <2> QED
    BY <1>3, <2>2, OneRowFenced DEF ApproveSubmit
<1>4. ASSUME NEW a \in Apps, ConfirmSubmitted(a) \/ ConfirmNotSubmitted(a)
      PROVE  \A b \in Apps : Fenced(app'[b])
  <2>1. /\ Settled(app[a], "submitted", "confirmed_submitted").known = "none"
        /\ Settled(app[a], "failed", "confirmed_not_submitted").known = "none"
    BY <1>1, Names, SettledType
  <2>2. /\ Fenced(Settled(app[a], "submitted", "confirmed_submitted"))
        /\ Fenced(Settled(app[a], "failed", "confirmed_not_submitted"))
    BY <2>1 DEF Fenced
  <2> QED
    BY <1>4, <2>2, OneRowFenced DEF ConfirmSubmitted, ConfirmNotSubmitted
<1> QED
  BY <1>2, <1>3, <1>4 DEF DecideStep

\* The row an enabled policy leaves is one nothing is known of: its lease ends
\* first, and every later step either writes it anew or leaves it.
LEMMA CarriedRowUnknown ==
    ASSUME NEW a \in Apps, app[a] \in Row, Fenced(app[a]), NEW lost
    PROVE  Fenced(CarriedRow(a, lost))
<1> DEFINE U == {row \in Row : row.known = "none"}
<1>1. EndLease(app[a]) \in U
  <2>1. CASE Leased(app[a]) \/ app[a].state = "submitting"
    <3> DEFINE state == IF app[a].state = "submitting" THEN "submission_unknown"
                        ELSE app[a].state
    <3>1. state \in States \union {"absent"}
      BY Names DEF Row
    <3>2. EndLease(app[a]) = Settled(app[a], state, "system")
      BY <2>1 DEF EndLease
    <3> HIDE DEF state
    <3>3. /\ Settled(app[a], state, "system") \in Row
          /\ Settled(app[a], state, "system").known = "none"
      BY <3>1, Names, SettledType
    <3> QED
      BY <3>2, <3>3
  <2>2. CASE ~(Leased(app[a]) \/ app[a].state = "submitting")
    BY <2>2 DEF EndLease, Fenced
  <2> QED
    BY <2>1, <2>2
<1>2. \A row \in U : EndRun(row) \in U
  BY Names, SettledType DEF EndRun
<1>3. \A row \in U : WithdrawApproval(row) \in U
  BY Names, SettledType DEF WithdrawApproval
<1>4. \A role : \A row \in U : EndReapplication(row, role) \in U
  BY Names, SettledType DEF EndReapplication
<1>5. ASSUME NEW row \in U
      PROVE  CarryQuestions(row, lost) \in U
  <2>1. Rescreened(row, "system") \in U
    BY Names, RescreenedType
  <2>2. \A c \in U : [c EXCEPT !.asked = IF lost THEN "no" ELSE @] \in U
    BY DEF Row
  <2> QED
    BY <2>1, <2>2 DEF CarryQuestions
<1>6. \A row \in U : Refill(row) \in U
  BY Names, RescreenedType DEF Refill
<1>7. CarriedRow(a, lost) \in U
  <2> HIDE DEF U
  <2> QED
    BY <1>1, <1>2, <1>3, <1>4, <1>5, <1>6 DEF CarriedRow
<1> QED
  BY <1>7 DEF Fenced

\* The profile or the policy changes, or a worker is revoked.
LEMMA OwnerStepFenced ==
    ASSUME StateOK, \A a \in Apps : Fenced(app[a]), PolicyStep \/ RevokeStep
    PROVE  \A a \in Apps : Fenced(app'[a])
<1>1. \A a \in Apps : app[a] \in Row
  BY DEF StateOK
<1>2. ASSUME SaveProfile \/ (\E body \in Policies : SavePolicy(body))
               \/ DisablePolicy \/ ExpirePolicy
      PROVE  app' = app
  BY <1>2 DEF SaveProfile, SavePolicy, DisablePolicy, ExpirePolicy
<1>3. ASSUME NEW lost, EnablePolicy(lost)
      PROVE  \A a \in Apps : Fenced(app'[a])
  <2>1. \A a \in Apps : app'[a] = CarriedRow(a, a \in lost)
    BY <1>3 DEF EnablePolicy
  <2>2. ASSUME NEW a \in Apps
        PROVE  Fenced(CarriedRow(a, a \in lost))
    BY <1>1, CarriedRowUnknown
  <2> QED
    BY <2>1, <2>2
<1>4. ASSUME NEW w \in Workers, RevokeWorker(w)
      PROVE  \A a \in Apps : Fenced(app'[a])
  <2>1. ASSUME NEW a \in Apps
        PROVE  Fenced(Released(app[a], "system"))
    <3>1. Released(app[a], "system").known = "none"
      BY <1>1, Names, ReleasedType
    <3> QED
      BY <3>1 DEF Fenced
  <2> QED
    BY <1>4, <2>1 DEF RevokeWorker
<1> QED
  BY <1>2, <1>3, <1>4 DEF PolicyStep, RevokeStep

\* Time runs a lease out but does not end it: only a handler does.
LEMMA ClockStepFenced ==
    ASSUME StateOK, \A a \in Apps : Fenced(app[a]), ClockStep
    PROVE  \A a \in Apps : Fenced(app'[a])
<1>1. ASSUME NEW row \in Row, Fenced(row)
      PROVE  Fenced(Aged(row)) /\ Fenced(SetBack(row))
  <2>1. /\ Aged(row).known = row.known /\ Aged(row).state = row.state
        /\ SetBack(row).known = row.known /\ SetBack(row).state = row.state
        /\ Aged(row).lease = Sooner(row.lease)
        /\ SetBack(row).lease = IF row.lease = NoLease THEN NoLease ELSE 0
    BY DEF Aged, SetBack, Row
  <2>2. Leased(row) => Leased(Aged(row)) /\ Leased(SetBack(row))
    BY <2>1, Bounds DEF Leased, Sooner, Row, NoLease
  <2> QED
    BY <1>1, <2>1, <2>2 DEF Fenced
<1> QED
  BY <1>1 DEF ClockStep, Tick, ClockBack, StateOK

\* No worker's fence and revision ever match a row that moved since: whoever
\* parks, settles, releases, stops, carries or revokes, under any policy and
\* at any time, moves the pair with the row.
THEOREM FencesHold == Spec => []KnownMeansUnchanged
<1>1. Init => KnownMeansUnchanged
  BY DEF Init, KnownMeansUnchanged, AbsentRow, NewRow
<1>2. PlaneTypeOK /\ KnownMeansUnchanged /\ [Next]_vars => KnownMeansUnchanged'
  <2> SUFFICES ASSUME PlaneTypeOK, KnownMeansUnchanged, [Next]_vars
               PROVE  KnownMeansUnchanged'
    OBVIOUS
  <2>1. StateOK /\ \A a \in Apps : Fenced(app[a])
    BY DEF PlaneTypeOK, StateOK, KnownMeansUnchanged, Fenced
  <2>2. \A a \in Apps : Fenced(app'[a])
    <3>1. CASE UNCHANGED vars
      BY <2>1, <3>1 DEF vars
    <3>2. CASE WorkerStep
      BY <2>1, <3>2, LeaseStepFenced, WorkStepFenced DEF WorkerStep
    <3>3. CASE QuestionStep
      BY <2>1, <3>3, QuestionStepFenced
    <3>4. CASE RunStep
      BY <2>1, <3>4, RunStepFenced
    <3>5. CASE StageStep \/ AttemptStep
      BY <2>1, <3>5, AttemptsFenced
    <3>6. CASE RemoveStep
      BY <2>1, <3>6, RemoveStepFenced
    <3>7. CASE DecideStep
      BY <2>1, <3>7, DecideStepFenced
    <3>8. CASE PolicyStep \/ RevokeStep
      BY <2>1, <3>8, OwnerStepFenced
    <3>9. CASE ClockStep
      BY <2>1, <3>9, ClockStepFenced
    <3> QED
      BY <3>1, <3>2, <3>3, <3>4, <3>5, <3>6, <3>7, <3>8, <3>9 DEF Next, Step
  <2> QED
    BY <2>2 DEF KnownMeansUnchanged, Fenced, Leased
<1> QED
  BY <1>1, <1>2, TypeCorrect, PTL DEF Spec

-----------------------------------------------------------------------------
(***************************************************************************)
(* An application's state and its recorded intent tell one story whatever  *)
(* interrupts a submission.  IntentDecides is not inductive alone: a poll, *)
(* a revocation or a policy writes a reason on every leased row, and must  *)
(* not do so on one the applicant confirmed as not submitted, so the       *)
(* invariant that carries the proof adds that a leased row is in a state   *)
(* work can go on from.                                                    *)
(***************************************************************************)
\* The invariant of one row

\* The state says that something may have been sent.
Sent(row) ==
    \/ row.state \in Ambiguous \union {"submitted"}
    \/ row.state = "failed" /\ row.reason = "confirmed_not_submitted"

\* IntentDecides of one row, and the lease rule on its state.
Sound(row) ==
    /\ Leased(row) => row.state \in Leasable
    /\ row.intent # NoIntent <=> Sent(row)
    /\ row.receipt => row.state = "submitted"

\* Nothing was sent for the row and nobody holds it.
Unsent == {row \in Row : /\ row.intent = NoIntent
                         /\ ~row.receipt
                         /\ row.lease = NoLease
                         /\ ~Sent(row)}

\* The states and reasons with which nothing was sent.
UnsentStates == (States \union {"absent"}) \ (Ambiguous \union {"submitted"})
UnsentReasons == Reasons \ {"confirmed_not_submitted"}

\* What the handlers write where nothing was sent.
LEMMA UnsentNames ==
    /\ {"none", "system", "submit_approval", "question_unresolved", "run_paused",
        "run_stopped", "restarted"} \subseteq UnsentReasons
    /\ {"queued", "screening", "filling", "needs_policy_decision", "ready", "failed",
        "skipped", "cancelled", "absent"} \subseteq UnsentStates
    /\ SafeStages \subseteq UnsentStates
    /\ Waiting \subseteq UnsentStates
    /\ Waiting \intersect Leasable = {}
    /\ Terminal \intersect Leasable = {}
    /\ SafeStages \union Ambiguous = Leasable
BY DEF UnsentReasons, UnsentStates, Reasons, States, SafeStages, Waiting, Ambiguous,
       Terminal, Leasable

\* A row of which nothing was sent, and which nobody holds, is sound.
LEMMA UnsentSound ==
    ASSUME NEW row \in Unsent
    PROVE  Sound(row)
BY DEF Unsent, Sound, Leased

\* A row of which nothing was sent is sound whatever the handlers write beside
\* its intent, its receipt and its lease.
LEMMA UnsentKept ==
    ASSUME NEW row \in Unsent,
           NEW asked, NEW batch, NEW wait, NEW retries,
           NEW state \in UnsentStates, state # "failed"
    PROVE  /\ Sound([row EXCEPT !.wait = wait])
           /\ Sound([row EXCEPT !.hidden = TRUE])
           /\ Sound([row EXCEPT !.state = state])
           /\ Sound([row EXCEPT !.retries = retries, !.wait = wait])
           /\ Sound([row EXCEPT !.asked = asked, !.wait = wait])
           /\ Sound([row EXCEPT !.state = state, !.asked = asked, !.wait = wait])
           /\ Sound([row EXCEPT !.asked = asked, !.batch = batch, !.wait = wait])
BY DEF Unsent, Sound, Leased, Sent, UnsentStates, Row

\* Settling a row as something not sent, whatever it was before.
LEMMA SettledUnsent ==
    ASSUME NEW row \in Row, row.intent = NoIntent, ~row.receipt,
           NEW state \in UnsentStates, NEW why \in UnsentReasons
    PROVE  Settled(row, state, why) \in Unsent
<1>1. Settled(row, state, why) \in Row
  BY SettledType DEF UnsentStates, UnsentReasons
<1>2. /\ Settled(row, state, why).intent = row.intent
      /\ Settled(row, state, why).receipt = row.receipt
      /\ Settled(row, state, why).lease = NoLease
      /\ Settled(row, state, why).state = state
      /\ Settled(row, state, why).reason = why
  BY DEF Settled, Unleased, Moved, Row
<1> QED
  BY <1>1, <1>2 DEF Unsent, Sent, UnsentStates, UnsentReasons

\* Screening it again.
LEMMA RescreenedUnsent ==
    ASSUME NEW row \in Row, row.intent = NoIntent, ~row.receipt,
           NEW why \in UnsentReasons
    PROVE  Rescreened(row, why) \in Unsent
<1> DEFINE settled == Settled(row, "screening", why)
<1>1. settled \in Unsent
  BY UnsentNames, SettledUnsent
<1> HIDE DEF settled
<1>2. [settled EXCEPT !.stage = "screening"] \in Unsent
  BY <1>1, Names DEF Unsent, Sent, Row
<1> QED
  BY <1>2 DEF Rescreened, settled

\* A row that is sound and not sent has no intent and no receipt.
LEMMA SoundUnsent ==
    ASSUME NEW row \in Row, Sound(row), ~Sent(row)
    PROVE  row.intent = NoIntent /\ ~row.receipt
BY DEF Sound, Sent, Row

\* Releasing a row that is not over: what was being sent is in doubt, what was
\* in doubt stays so, and of any other row nothing was sent.
LEMMA ReleasedSound ==
    ASSUME NEW row \in Row, Sound(row), row.state \notin Terminal, NEW why \in UnsentReasons
    PROVE  /\ Sound(Released(row, why))
           /\ row.state \notin Ambiguous => Released(row, why) \in Unsent
           /\ row.state \in Ambiguous <=> Released(row, why).state = "submission_unknown"
           /\ Sound([Released(row, why) EXCEPT !.wait = Lease])
<1> DEFINE released == Released(row, why)
<1>1. released \in Row
  BY ReleasedType DEF UnsentReasons
<1>2. /\ released.intent = row.intent
      /\ released.receipt = row.receipt
      /\ released.lease = NoLease
      /\ released.state = IF row.state = "submitting" THEN "submission_unknown" ELSE row.state
  BY DEF Released, Unleased, Moved, Row
<1> HIDE DEF released
<1>3. row.state # "failed" /\ row.state # "submitted" /\ "submission_unknown" # "submitted"
  BY DEF Terminal
<1>4. Sent(row) <=> Sent(released)
  BY <1>2, <1>3 DEF Sent, Ambiguous
<1>5. Sound(released)
  BY <1>2, <1>3, <1>4 DEF Sound, Leased
<1>6. ASSUME row.state \notin Ambiguous
      PROVE  released \in Unsent
  <2>1. ~Sent(row)
    BY <1>3, <1>6 DEF Sent
  <2>2. row.intent = NoIntent /\ ~row.receipt
    BY <2>1, SoundUnsent
  <2> QED
    BY <1>1, <1>2, <1>4, <2>1, <2>2 DEF Unsent
<1>7. row.state \in Ambiguous <=> released.state = "submission_unknown"
  BY <1>2 DEF Ambiguous
<1>8. Sound([released EXCEPT !.wait = Lease])
  BY <1>1, <1>5 DEF Sound, Leased, Sent, Row
<1> QED
  BY <1>5, <1>6, <1>7, <1>8 DEF released

\* A leased row is not over, and neither is one a handler may interrupt.
LEMMA LeasedNotOver ==
    ASSUME NEW row, Sound(row), Leased(row) \/ row.state = "submitting"
    PROVE  row.state \notin Terminal
BY UnsentNames DEF Sound, Terminal

-----------------------------------------------------------------------------
\* One lemma for each group of actions

\* Writing one row.
LEMMA OneRowSound ==
    ASSUME StateOK, \A a \in Apps : Sound(app[a]), NEW a \in Apps, NEW row, Sound(row),
           app' = [app EXCEPT ![a] = row]
    PROVE  \A b \in Apps : Sound(app'[b])
BY DEF StateOK

\* A poll, a heartbeat or a lost lease.
LEMMA LeaseStepSound ==
    ASSUME StateOK, \A a \in Apps : Sound(app[a]), NEW w \in Workers, LeaseStep(w)
    PROVE  \A a \in Apps : Sound(app'[a])
<1>1. \A a \in Apps : app[a] \in Row
  BY DEF StateOK
<1>2. CASE Poll(w)
  <2> DEFINE rows == [a \in Apps |-> PollReleased(w, a)]
  <2>1. ASSUME NEW a \in Apps
        PROVE  Sound(rows[a])
    <3>1. CASE Leased(app[a])
      <4>1. /\ Sound(Released(app[a], "system"))
            /\ Sound([Released(app[a], "system") EXCEPT !.wait = Lease])
        BY <1>1, <3>1, LeasedNotOver, ReleasedSound, UnsentNames
      <4> QED
        BY <4>1 DEF PollReleased
    <3>2. CASE ~Leased(app[a])
      BY <3>2 DEF PollReleased
    <3> QED
      BY <3>1, <3>2
  <2>2. ASSUME NEW row \in Row, Sound(row), row.state \in {"queued"} \union Leasable
        PROVE  Sound(Claimed(row))
    <3> DEFINE state == IF row.state = "queued" THEN "screening"
                        ELSE IF row.state = "submitting" THEN "submission_unknown"
                        ELSE row.state
    <3>1. /\ Claimed(row).state = state
          /\ Claimed(row).intent = row.intent
          /\ Claimed(row).receipt = row.receipt
          /\ Claimed(row).reason = row.reason
      BY DEF Claimed, HandedOut, Row
    <3>2. /\ state \in Leasable
          /\ state \in Ambiguous <=> row.state \in Ambiguous
          /\ row.state \notin {"submitted", "failed"} /\ state \notin {"submitted", "failed"}
      BY <2>2 DEF Leasable, SafeStages, Ambiguous
    <3> HIDE DEF state
    <3> QED
      BY <2>2, <3>1, <3>2 DEF Sound, Sent
  <2>3. \/ app' = rows
        \/ \E a \in Apps : /\ app' = [rows EXCEPT ![a] = Claimed(rows[a])]
                           /\ rows[a].state \in {"queued"} \union Leasable
    BY <1>2 DEF Poll, Claimable
  <2> HIDE DEF rows
  <2>4. rows \in [Apps -> Row]
    BY <1>1, PollReleasedType DEF rows
  <2> QED
    BY <2>1, <2>2, <2>3, <2>4
<1>3. ASSUME NEW a \in Apps, Heartbeat(w, a)
      PROVE  \A b \in Apps : Sound(app'[b])
  <2>1. app' = [app EXCEPT ![a] = [app[a] EXCEPT !.lease = Lease]]
    BY <1>3 DEF Heartbeat
  <2>2. Leased(app[a])
    BY <1>3 DEF Heartbeat, Checked, Matches
  <2>3. Sound([app[a] EXCEPT !.lease = Lease])
    BY <1>1, <2>2 DEF Sound, Sent, Row
  <2> QED
    BY <2>1, <2>3, OneRowSound
<1>4. ASSUME NEW a \in Apps, LoseLease(w, a)
      PROVE  \A b \in Apps : Sound(app'[b])
  <2>1. Leased(app[a]) /\ app' = [app EXCEPT ![a] = Released(app[a], "system")]
    BY <1>4 DEF LoseLease, Matches
  <2>2. Sound(Released(app[a], "system"))
    BY <1>1, <2>1, LeasedNotOver, ReleasedSound, UnsentNames
  <2> QED
    BY <2>1, <2>2, OneRowSound
<1> QED
  BY <1>2, <1>3, <1>4 DEF LeaseStep

\* An event, an intent or a receipt.
LEMMA WorkStepSound ==
    ASSUME StateOK, \A a \in Apps : Sound(app[a]), NEW w \in Workers, WorkStep(w)
    PROVE  \A a \in Apps : Sound(app'[a])
<1>1. \A a \in Apps : app[a] \in Row
  BY DEF StateOK
<1>2. ASSUME NEW a \in Apps, NEW report \in Reports, RecordEvent(w, a, report)
      PROVE  \A b \in Apps : Sound(app'[b])
  <2> DEFINE ends == EndsLease(report.state)
  <2>1. /\ app'[a].state = report.state
        /\ app'[a].reason = report.reason
        /\ app'[a].lease = IF ends THEN NoLease ELSE app[a].lease
        /\ app'[a].intent = app[a].intent
        /\ app'[a].receipt = app[a].receipt
    BY <1>1, <1>2 DEF RecordEvent, StateOK, Row
  <2>2. report.reason # "confirmed_not_submitted"
    BY ControlAssumption DEF ControlAssumption, ReportAssumption
  <2>3. /\ CanTransition(app[a].state, report.state, report.evidence)
        /\ CheckpointStage(app[a].state, report.state) \in SafeStages
        /\ Leased(app[a])
    BY <1>2 DEF RecordEvent, Checked, Matches
  <2>4. \/ /\ app[a].state = "submitting"
           /\ report.state = "submission_unknown"
        \/ /\ app[a].state \in SafeStages
           /\ report.state \in SafeStages \union Waiting \union {"failed", "skipped", "cancelled"}
    <3>1. app[a].state \in Leasable
      BY <2>3 DEF Sound
    <3>2. CheckpointStage(app[a].state, "submitting") = "submitting"
      BY DEF CheckpointStage, EndsLease, Waiting, Terminal
    <3>3. report.state # "submitting"
      BY <2>3, <3>2 DEF SafeStages
    <3> QED
      BY <2>3, <3>1, <3>3 DEF CanTransition, Leasable, SafeStages, Ambiguous
  <2>5. ends \/ report.state \in Leasable
    BY <2>4 DEF EndsLease, Leasable, Terminal
  <2>6. Sent(app[a]) <=> Sent(app'[a])
    BY <2>1, <2>2, <2>4 DEF Sent, SafeStages, Waiting, Ambiguous
  <2>7. app[a].state # "submitted"
    BY <2>4 DEF SafeStages
  <2>8. Sound(app'[a])
    <3> HIDE DEF ends
    <3> QED
      BY <2>1, <2>5, <2>6, <2>7 DEF Sound, Leased
  <2> QED
    BY <1>2, <2>8 DEF RecordEvent, StateOK
<1>3. ASSUME NEW a \in Apps, BeginSubmission(w, a)
      PROVE  \A b \in Apps : Sound(app'[b])
  <2>1. /\ app'[a].state = "submitting"
        /\ app'[a].intent = 0
        /\ app'[a].receipt = app[a].receipt
        /\ app[a].state = "ready"
    BY <1>1, <1>3 DEF BeginSubmission, StateOK, Row
  <2>2. Sound(app'[a])
    BY <2>1 DEF Sound, Sent, Ambiguous, Leasable, NoIntent
  <2> QED
    BY <1>3, <2>2 DEF BeginSubmission, StateOK
<1>4. ASSUME NEW a \in Apps, RecordReceipt(w, a)
      PROVE  \A b \in Apps : Sound(app'[b])
  <2>1. /\ app'[a].state = "submitted"
        /\ app'[a].intent = app[a].intent
        /\ app'[a].lease = NoLease
        /\ app[a].intent # NoIntent
    BY <1>1, <1>4 DEF RecordReceipt, Settled, Unleased, Moved, StateOK, Row
  <2>2. Sound(app'[a])
    BY <2>1 DEF Sound, Sent, Leased
  <2> QED
    BY <1>4, <2>2 DEF RecordReceipt, StateOK
<1> QED
  BY <1>2, <1>3, <1>4 DEF WorkStep

\* A batch of questions or an answer.
LEMMA QuestionStepSound ==
    ASSUME StateOK, \A a \in Apps : Sound(app[a]), QuestionStep
    PROVE  \A a \in Apps : Sound(app'[a])
<1>1. \A a \in Apps : app[a] \in Row
  BY DEF StateOK
<1>2. QuestionKinds \subseteq UnsentStates \ {"failed"}
  BY UnsentNames, ControlAssumption DEF ControlAssumption, ReportAssumption, Waiting
<1>3. ASSUME NEW w \in Workers, NEW a \in Apps, RegisterQuestions(w, a)
      PROVE  \A b \in Apps : Sound(app'[b])
  <2>1. app[a].intent = NoIntent /\ ~app[a].receipt
    <3>1. ~Sent(app[a])
      BY <1>3 DEF RegisterQuestions, Sent, SafeStages, Ambiguous
    <3> QED
      BY <1>1, <3>1, SoundUnsent
  <2>2. ASSUME NEW kind \in QuestionKinds, NEW stage
        PROVE  Sound([Settled(app[a], kind, "question_unresolved") EXCEPT
                        !.stage = stage, !.asked = "open", !.batch = TRUE, !.wait = 0])
    <3> DEFINE settled == Settled(app[a], kind, "question_unresolved")
    <3>1. settled \in Unsent
      BY <1>1, <1>2, <2>1, UnsentNames, SettledUnsent
    <3> HIDE DEF settled
    <3>2. Sound([settled EXCEPT !.stage = stage, !.asked = "open", !.batch = TRUE,
                                !.wait = 0])
      BY SMTT(60), <3>1 DEF Unsent, Sound, Leased, Sent, Row
    <3> QED
      BY <3>2 DEF settled
  <2>3. Sound([Rescreened(app[a], "none") EXCEPT
                 !.asked = "answered", !.batch = TRUE, !.wait = 0])
    <3>1. Rescreened(app[a], "none") \in Unsent
      BY <1>1, <2>1, UnsentNames, RescreenedUnsent
    <3> QED
      BY ZenonT(60), <3>1, UnsentNames, UnsentKept
  <2>4. \/ \E kind \in QuestionKinds : app' = [app EXCEPT ![a] =
             [Settled(app[a], kind, "question_unresolved") EXCEPT
                !.stage = app[a].state, !.asked = "open", !.batch = TRUE, !.wait = 0]]
        \/ app' = [app EXCEPT ![a] = [Rescreened(app[a], "none") EXCEPT
                !.asked = "answered", !.batch = TRUE, !.wait = 0]]
    BY <1>3 DEF RegisterQuestions
  <2> QED
    BY <2>2, <2>3, <2>4, OneRowSound
<1>4. ASSUME NEW a \in Apps, AnswerQuestion(a)
      PROVE  \A b \in Apps : Sound(app'[b])
  <2>1. app[a].intent = NoIntent /\ ~app[a].receipt
    <3>1. ~Sent(app[a])
      BY <1>4 DEF AnswerQuestion, Answerable, Unfinished, Sent, Ambiguous, Terminal
    <3> QED
      BY <1>1, <3>1, SoundUnsent
  <2>2. /\ Rescreened(app[a], "none") \in Unsent
        /\ Rescreened(app[a], "question_unresolved") \in Unsent
    BY <1>1, <2>1, UnsentNames, RescreenedUnsent
  <2>3. Sound([Rescreened(app[a], "none") EXCEPT !.asked = "answered", !.wait = 0])
    BY ZenonT(60), <2>2, UnsentNames, UnsentKept
  <2>4. ASSUME NEW kind \in QuestionKinds
        PROVE  Sound([Rescreened(app[a], "question_unresolved") EXCEPT
                        !.state = kind, !.asked = "open", !.wait = 0])
    BY <1>2, <2>2, UnsentKept
  <2> QED
    BY <1>4, <2>3, <2>4, OneRowSound DEF AnswerQuestion
<1> QED
  BY <1>3, <1>4 DEF QuestionStep

\* A run created, paused, stopped or resumed.
LEMMA RunStepSound ==
    ASSUME StateOK, \A a \in Apps : Sound(app[a]), RunStep
    PROVE  \A a \in Apps : Sound(app'[a])
<1>1. \A a \in Apps : app[a] \in Row
  BY DEF StateOK
<1>2. ASSUME NEW a \in Apps, NEW r, NEW why \in {"run_paused", "run_stopped"}
      PROVE  Sound(RowAfterRun(app[a], r, why))
  <2>1. CASE app[a].run # r \/ app[a].state \in Terminal
    BY <2>1 DEF RowAfterRun
  <2>2. CASE ~(app[a].run # r \/ app[a].state \in Terminal)
    <3> DEFINE released == Released(app[a], why)
    <3>1. RowAfterRun(app[a], r, why) =
            IF why = "run_stopped" /\ released.state # "submission_unknown"
            THEN [released EXCEPT !.state = "cancelled"] ELSE released
      BY <2>2 DEF RowAfterRun
    <3>2. /\ Sound(released)
          /\ app[a].state \notin Ambiguous => released \in Unsent
          /\ app[a].state \in Ambiguous <=> released.state = "submission_unknown"
      BY ZenonT(60), <1>1, <2>2, UnsentNames, ReleasedSound
    <3> HIDE DEF released
    <3>3. released.state # "submission_unknown" =>
            Sound([released EXCEPT !.state = "cancelled"])
      BY <3>2, UnsentNames, UnsentKept
    <3> QED
      BY <3>1, <3>2, <3>3
  <2> QED
    BY <2>1, <2>2
<1>3. ASSUME NEW r \in Runs, PauseRun(r) \/ StopRun(r)
      PROVE  \A a \in Apps : Sound(app'[a])
  BY <1>2, <1>3 DEF PauseRun, StopRun
<1>4. ASSUME NEW r \in Runs, NEW w \in Workers, ResumeRun(r) \/ CreateRun(w, r)
      PROVE  app' = app
  BY <1>4 DEF ResumeRun, CreateRun
<1> QED
  BY <1>3, <1>4 DEF RunStep, ResumeRun

\* A new attempt is staged or follows one.
LEMMA AttemptsSound ==
    ASSUME StateOK, \A a \in Apps : Sound(app[a]), StageStep \/ AttemptStep
    PROVE  \A a \in Apps : Sound(app'[a])
<1>1. \A a \in Apps : app[a] \in Row
  BY DEF StateOK
<1>2. \A r, n : Sound(NewRow(r, n))
  BY DEF Sound, Sent, Leased, NewRow, Ambiguous
<1>3. CASE StageStep
  BY <1>2, <1>3 DEF StageStep, StageRoles
<1>4. ASSUME NEW r, NEW a \in Apps, NEW row, NEW n, Sound(row), Continue(r, a, row, n)
      PROVE  \A b \in Apps : Sound(app'[b])
  BY <1>2, <1>4 DEF Continue, StateOK
<1>5. ASSUME NEW r \in Runs, NEW a \in Apps, Reapply(r, a)
      PROVE  \A b \in Apps : Sound(app'[b])
  BY <1>4, <1>5 DEF Reapply
<1>6. ASSUME NEW r \in Runs, NEW a \in Apps, RetryUnsubmitted(r, a)
      PROVE  \A b \in Apps : Sound(app'[b])
  <2>1. app[a].state = "submission_unknown" =>
          Sound(Settled(app[a], "failed", "confirmed_not_submitted"))
    BY <1>1 DEF Sound, Sent, Settled, Unleased, Moved, Leased, Ambiguous, Row
  <2>2. app[a].state = "needs_document" => Sound(Settled(app[a], "failed", "system"))
    <3>1. ASSUME app[a].state = "needs_document"
          PROVE  app[a].intent = NoIntent /\ ~app[a].receipt
      BY <1>1, <3>1, SoundUnsent DEF Sent, Ambiguous
    <3> QED
      BY <1>1, <3>1, UnsentNames, SettledUnsent, UnsentSound
  <2> QED
    BY <1>4, <1>6, <2>1, <2>2 DEF RetryUnsubmitted
<1>7. ASSUME NEW r \in Runs, NEW a \in Apps, Restart(r, a)
      PROVE  \A b \in Apps : Sound(app'[b])
  <2>1. app[a].state \notin Terminal => Sound(Settled(app[a], "cancelled", "restarted"))
    <3>1. ASSUME app[a].state \notin Terminal
          PROVE  app[a].intent = NoIntent /\ ~app[a].receipt
      BY <1>1, <1>7, <3>1, SoundUnsent DEF Restart, Sent, Ambiguous, Terminal
    <3> QED
      BY <1>1, <3>1, UnsentNames, SettledUnsent, UnsentSound
  <2> QED
    BY <1>4, <1>7, <2>1 DEF Restart
<1> QED
  BY <1>3, <1>5, <1>6, <1>7 DEF AttemptStep

\* The applicant gives a role up.
LEMMA RemoveStepSound ==
    ASSUME StateOK, \A a \in Apps : Sound(app[a]), RemoveStep
    PROVE  \A a \in Apps : Sound(app'[a])
<1>1. \A a \in Apps : app[a] \in Row
  BY DEF StateOK
<1>2. ASSUME NEW a \in Apps, app[a].state \notin Ambiguous, app[a].state \notin Terminal
      PROVE  /\ Settled(app[a], "skipped", "system") \in Unsent
             /\ Settled(app[a], "cancelled", "system") \in Unsent
  <2>1. app[a].intent = NoIntent /\ ~app[a].receipt
    BY <1>1, <1>2, SoundUnsent DEF Sent, Terminal
  <2> QED
    BY <1>1, <2>1, UnsentNames, SettledUnsent
<1>3. ASSUME NEW a \in Apps, Delete(a)
      PROVE  \A b \in Apps : Sound(app'[b])
  <2>1. CASE app[a].state \in Terminal
    <3>1. app' = [app EXCEPT ![a] = [Moved(app[a]) EXCEPT !.hidden = TRUE]]
      BY <1>3, <2>1 DEF Delete
    <3>2. Sound([Moved(app[a]) EXCEPT !.hidden = TRUE])
      BY <1>1 DEF Sound, Sent, Leased, Moved, Row
    <3> QED
      BY <3>1, <3>2, OneRowSound
  <2>2. CASE app[a].state \notin Terminal
    <3>1. app' = [app EXCEPT ![a] =
                    [Settled(app[a], "cancelled", "system") EXCEPT !.hidden = TRUE]]
      BY <1>3, <2>2 DEF Delete
    <3>2. Settled(app[a], "cancelled", "system") \in Unsent
      BY <1>2, <1>3, <2>2 DEF Delete
    <3>3. Sound([Settled(app[a], "cancelled", "system") EXCEPT !.hidden = TRUE])
      BY <3>2, UnsentNames, UnsentKept
    <3> QED
      BY <3>1, <3>3, OneRowSound
  <2> QED
    BY <2>1, <2>2
<1>4. ASSUME NEW a \in Apps, NEW state \in {"skipped", "cancelled"}, Drop(a, state)
      PROVE  \A b \in Apps : Sound(app'[b])
  <2>1. Settled(app[a], state, "system") \in Unsent
    BY <1>2, <1>4 DEF Drop, Unfinished
  <2> QED
    BY <1>4, <2>1, UnsentSound, OneRowSound DEF Drop
<1>5. ASSUME NEW a \in Apps, EmergencyStop(a)
      PROVE  \A b \in Apps : Sound(app'[b])
  <2>1. CASE app[a].state \in Ambiguous
    <3>1. app' = [app EXCEPT ![a] = Settled(app[a], "submission_unknown", "system")]
      BY <1>5, <2>1 DEF EmergencyStop
    <3>2. Sound(Settled(app[a], "submission_unknown", "system"))
      BY <1>1, <2>1 DEF Sound, Sent, Settled, Unleased, Moved, Leased, Ambiguous, Row
    <3> QED
      BY <3>1, <3>2, OneRowSound
  <2>2. CASE app[a].state \notin Ambiguous
    <3>1. app' = [app EXCEPT ![a] = Settled(app[a], "cancelled", "system")]
      BY <1>5, <2>2 DEF EmergencyStop
    <3>2. Settled(app[a], "cancelled", "system") \in Unsent
      BY <1>2, <1>5, <2>2 DEF EmergencyStop
    <3> QED
      BY <3>1, <3>2, UnsentSound, OneRowSound
  <2> QED
    BY <2>1, <2>2
<1>6. ASSUME NEW role \in Roles, MarkManual(role), NEW a \in Apps
      PROVE  Sound(app'[a])
  <2> DEFINE released == Released(app[a], "system")
  <2>1. \/ app'[a] = app[a]
        \/ /\ app[a].state \notin Terminal
           /\ app'[a] = IF released.state = "submission_unknown" THEN released
                        ELSE [released EXCEPT !.state = "skipped"]
    BY <1>6 DEF MarkManual
  <2>2. app[a].state \notin Terminal =>
          /\ Sound(released)
          /\ released.state # "submission_unknown" => released \in Unsent
    BY <1>1, UnsentNames, ReleasedSound
  <2> HIDE DEF released
  <2>3. released \in Unsent => Sound([released EXCEPT !.state = "skipped"])
    BY UnsentNames, UnsentKept
  <2> QED
    BY <2>1, <2>2, <2>3
<1> QED
  BY <1>3, <1>4, <1>5, <1>6 DEF RemoveStep

\* The applicant lets a row go on, or decides what became of it.
LEMMA DecideStepSound ==
    ASSUME StateOK, \A a \in Apps : Sound(app[a]), DecideStep
    PROVE  \A a \in Apps : Sound(app'[a])
<1>1. \A a \in Apps : app[a] \in Row
  BY DEF StateOK
<1>2. ASSUME NEW a \in Apps, app[a].state \in Waiting
      PROVE  app[a].intent = NoIntent /\ ~app[a].receipt
  BY <1>1, <1>2, SoundUnsent DEF Sent, Ambiguous, Waiting
<1>3. ASSUME NEW a \in Apps, RetrySafe(a)
      PROVE  \A b \in Apps : Sound(app'[b])
  <2> DEFINE state == IF app[a].stage = "ready" THEN "filling" ELSE app[a].stage
             row == Settled(app[a], state, "system")
  <2>1. state \in UnsentStates
    BY <1>1, <1>3, UnsentNames DEF Row, RetrySafe
  <2>2. app[a].state \in Waiting
    BY <1>3 DEF RetrySafe, IsSafeRetry, Waiting
  <2>3. row \in Unsent
    BY SMTT(60), <1>1, <1>2, <2>1, <2>2, UnsentNames, SettledUnsent
  <2>4. app' = [app EXCEPT ![a] =
                  [row EXCEPT !.retries = app[a].retries + 1, !.wait = 1]]
    BY <1>3 DEF RetrySafe
  <2> HIDE DEF row
  <2>5. Sound([row EXCEPT !.retries = app[a].retries + 1, !.wait = 1])
    BY ZenonT(60), <2>3, UnsentNames, UnsentKept
  <2> QED
    BY <2>4, <2>5, OneRowSound
<1>4. ASSUME NEW a \in Apps, ApproveSubmit(a)
      PROVE  \A b \in Apps : Sound(app'[b])
  <2>1. app[a].state \in Waiting
    BY <1>4 DEF ApproveSubmit, IsAwaitingApproval, Waiting
  <2>2. Settled(app[a], "ready", "system") \in Unsent
    BY <1>1, <1>2, <2>1, UnsentNames, SettledUnsent
  <2>3. Sound([Settled(app[a], "ready", "system") EXCEPT !.wait = 0])
    BY <2>2, UnsentNames, UnsentKept
  <2> QED
    BY <1>4, <2>3, OneRowSound DEF ApproveSubmit
<1>5. ASSUME NEW a \in Apps, ConfirmSubmitted(a) \/ ConfirmNotSubmitted(a)
      PROVE  \A b \in Apps : Sound(app'[b])
  <2>1. app[a].state = "submission_unknown"
    BY <1>5 DEF ConfirmSubmitted, ConfirmNotSubmitted
  <2>2. /\ Sound(Settled(app[a], "submitted", "confirmed_submitted"))
        /\ Sound(Settled(app[a], "failed", "confirmed_not_submitted"))
    BY <1>1, <2>1 DEF Sound, Sent, Settled, Unleased, Moved, Leased, Ambiguous, Row
  <2> QED
    BY <1>5, <2>2, OneRowSound DEF ConfirmSubmitted, ConfirmNotSubmitted
<1> QED
  BY <1>3, <1>4, <1>5 DEF DecideStep

\* The row an enabled policy leaves: its lease ends first, and what may have
\* been sent passes every later step as it is.
LEMMA CarriedRowSound ==
    ASSUME NEW a \in Apps, app[a] \in Row, Sound(app[a]), NEW lost
    PROVE  Sound(CarriedRow(a, lost))
<1> DEFINE Over == {row \in Row : /\ Sound(row)
                                  /\ row.state \in Ambiguous \union Terminal \union {"absent"}}
           U == Unsent \union Over
<1>1. EndLease(app[a]) \in U
  <2>1. CASE Leased(app[a]) \/ app[a].state = "submitting"
    <3> DEFINE state == IF app[a].state = "submitting" THEN "submission_unknown"
                        ELSE app[a].state
               settled == Settled(app[a], state, "system")
    <3>1. app[a].state \in Leasable
      BY <2>1 DEF Sound, Leasable, Ambiguous
    <3>2. EndLease(app[a]) = settled
      BY <2>1 DEF EndLease
    <3>3. settled \in Row /\ settled.state = state
      <4>1. state \in States
        BY <3>1, Names, UnsentNames DEF States
      <4> HIDE DEF state
      <4>2. settled \in Row
        BY <4>1, Names, SettledType
      <4>3. settled.state = state
        BY DEF Settled, Unleased, Moved, Row
      <4> QED
        BY <4>2, <4>3
    <3>4. CASE app[a].state \in Ambiguous
      <4>1. /\ settled.intent = app[a].intent
            /\ settled.receipt = app[a].receipt
            /\ settled.lease = NoLease
        BY DEF Settled, Unleased, Moved, Row
      <4>2. settled.state = "submission_unknown" /\ app[a].state # "submitted"
        BY <3>3, <3>4 DEF Ambiguous
      <4> HIDE DEF settled
      <4>3. Sound(settled)
        BY <3>4, <4>1, <4>2 DEF Sound, Sent, Leased, Ambiguous
      <4> QED
        BY <3>2, <3>3, <4>2, <4>3 DEF Ambiguous
    <3>5. CASE app[a].state \in SafeStages
      <4>1. app[a].intent = NoIntent /\ ~app[a].receipt
        BY <3>5, SoundUnsent DEF Sent, SafeStages, Ambiguous
      <4>2. state \in UnsentStates
        BY <3>5, UnsentNames DEF SafeStages
      <4> QED
        BY <3>2, <4>1, <4>2, UnsentNames, SettledUnsent
    <3> QED
      BY <3>1, <3>4, <3>5 DEF Leasable
  <2>2. CASE ~(Leased(app[a]) \/ app[a].state = "submitting")
    <3>1. EndLease(app[a]) = app[a] /\ app[a].lease = NoLease
      BY <2>2 DEF EndLease, Leased
    <3>2. CASE app[a].state \in Ambiguous \union Terminal \union {"absent"}
      BY <3>1, <3>2
    <3>3. CASE app[a].state \notin Ambiguous \union Terminal \union {"absent"}
      <4>1. ~Sent(app[a])
        BY <3>3 DEF Sent, Terminal
      <4> QED
        BY <3>1, <4>1, SoundUnsent DEF Unsent
    <3> QED
      BY <3>2, <3>3
  <2> QED
    BY <2>1, <2>2
<1>2. ASSUME NEW row \in U
      PROVE  EndRun(row) \in U
  <2>1. Unfinished(row) => row \in Unsent
    BY DEF Unfinished
  <2>2. row \in Unsent => Settled(row, "cancelled", "run_stopped") \in Unsent
    BY UnsentNames, SettledUnsent DEF Unsent
  <2> QED
    BY <2>1, <2>2 DEF EndRun
<1>3. ASSUME NEW row \in U
      PROVE  WithdrawApproval(row) \in U
  <2>1. row.state = "ready" => row \in Unsent
    BY DEF Ambiguous, Terminal
  <2>2. row \in Unsent => Settled(row, "needs_policy_decision", "submit_approval") \in Unsent
    BY UnsentNames, SettledUnsent DEF Unsent
  <2> QED
    BY <2>1, <2>2 DEF WithdrawApproval
<1>4. ASSUME NEW row \in U, NEW role
      PROVE  EndReapplication(row, role) \in U
  <2>1. Unfinished(row) => row \in Unsent
    BY DEF Unfinished
  <2>2. row \in Unsent => Settled(row, "cancelled", "system") \in Unsent
    BY UnsentNames, SettledUnsent DEF Unsent
  <2> QED
    BY <2>1, <2>2 DEF EndReapplication
<1>5. ASSUME NEW row \in U
      PROVE  CarryQuestions(row, lost) \in U
  <2>1. Unfinished(row) => row \in Unsent
    BY DEF Unfinished
  <2>2. row \in Unsent => Rescreened(row, "system") \in Unsent
    BY UnsentNames, RescreenedUnsent DEF Unsent
  <2>3. \A c \in Unsent : [c EXCEPT !.asked = IF lost THEN "no" ELSE @] \in Unsent
    BY DEF Unsent, Sent, Row
  <2> HIDE DEF U
  <2>4. CASE row.asked # "no" /\ Unfinished(row) /\ Carried(row.run)
    <3>1. CarryQuestions(row, lost) \in Unsent
      BY <2>1, <2>2, <2>3, <2>4 DEF CarryQuestions
    <3> QED
      BY <3>1 DEF U
  <2>5. CASE ~(row.asked # "no" /\ Unfinished(row) /\ Carried(row.run))
    BY <2>5 DEF CarryQuestions
  <2> QED
    BY <2>4, <2>5
<1>6. ASSUME NEW row \in U
      PROVE  Refill(row) \in U
  <2>1. row.state = "ready" \/ IsAwaitingApproval(row.state, row.reason) => row \in Unsent
    BY DEF IsAwaitingApproval, Ambiguous, Terminal
  <2>2. row \in Unsent => Rescreened(row, "system") \in Unsent
    BY UnsentNames, RescreenedUnsent DEF Unsent
  <2> QED
    BY <2>1, <2>2 DEF Refill
<1>7. CarriedRow(a, lost) \in U
  <2> HIDE DEF U
  <2> QED
    BY <1>1, <1>2, <1>3, <1>4, <1>5, <1>6 DEF CarriedRow
<1> QED
  BY <1>7, UnsentSound

\* The profile or the policy changes, or a worker is revoked.
LEMMA OwnerStepSound ==
    ASSUME StateOK, \A a \in Apps : Sound(app[a]), PolicyStep \/ RevokeStep
    PROVE  \A a \in Apps : Sound(app'[a])
<1>1. \A a \in Apps : app[a] \in Row
  BY DEF StateOK
<1>2. ASSUME SaveProfile \/ (\E body \in Policies : SavePolicy(body))
               \/ DisablePolicy \/ ExpirePolicy
      PROVE  app' = app
  BY <1>2 DEF SaveProfile, SavePolicy, DisablePolicy, ExpirePolicy
<1>3. ASSUME NEW lost, EnablePolicy(lost)
      PROVE  \A a \in Apps : Sound(app'[a])
  <2>1. \A a \in Apps : app'[a] = CarriedRow(a, a \in lost)
    BY <1>3 DEF EnablePolicy
  <2>2. ASSUME NEW a \in Apps
        PROVE  Sound(CarriedRow(a, a \in lost))
    BY <1>1, CarriedRowSound
  <2> QED
    BY <2>1, <2>2
<1>4. ASSUME NEW w \in Workers, RevokeWorker(w), NEW a \in Apps
      PROVE  Sound(app'[a])
  <2>1. \/ app'[a] = app[a]
        \/ /\ Leased(app[a]) \/ app[a].state = "submitting"
           /\ app'[a] = Released(app[a], "system")
    BY <1>4 DEF RevokeWorker
  <2>2. Leased(app[a]) \/ app[a].state = "submitting" => Sound(Released(app[a], "system"))
    BY <1>1, LeasedNotOver, ReleasedSound, UnsentNames
  <2> QED
    BY <2>1, <2>2
<1> QED
  BY <1>2, <1>3, <1>4 DEF PolicyStep, RevokeStep

\* Time makes an intent older, or younger, but never forgets one.
LEMMA ClockStepSound ==
    ASSUME StateOK, \A a \in Apps : Sound(app[a]), ClockStep
    PROVE  \A a \in Apps : Sound(app'[a])
<1>1. ASSUME NEW row \in Row, Sound(row)
      PROVE  Sound(Aged(row)) /\ Sound(SetBack(row))
  <2>1. /\ Aged(row).state = row.state /\ Aged(row).reason = row.reason
        /\ Aged(row).receipt = row.receipt
        /\ SetBack(row).state = row.state /\ SetBack(row).reason = row.reason
        /\ SetBack(row).receipt = row.receipt
    BY DEF Aged, SetBack, Row
  <2>2. /\ Leased(Aged(row)) <=> Leased(row)
        /\ Leased(SetBack(row)) <=> Leased(row)
    <3>1. /\ Aged(row).lease = Sooner(row.lease)
          /\ SetBack(row).lease = IF row.lease = NoLease THEN NoLease ELSE 0
      BY DEF Aged, SetBack, Row
    <3> QED
      BY <3>1, Bounds DEF Leased, Sooner, Row, NoLease
  <2>3. /\ Aged(row).intent # NoIntent <=> row.intent # NoIntent
        /\ SetBack(row).intent # NoIntent <=> row.intent # NoIntent
    <3>1. /\ Aged(row).intent = IF row.intent = NoIntent THEN NoIntent
                                ELSE Later(row.intent, Window)
          /\ SetBack(row).intent = Sooner(row.intent)
      BY DEF Aged, SetBack, Row
    <3> QED
      BY <3>1, Bounds DEF Sooner, Later, Row, NoIntent
  <2> QED
    BY <1>1, <2>1, <2>2, <2>3 DEF Sound, Sent
<1> QED
  BY <1>1 DEF ClockStep, Tick, ClockBack, StateOK

-----------------------------------------------------------------------------
\* The theorem, and the invariant it rests on

\* What carries the proof: every row is sound.
AllSound == \A a \in Apps : Sound(app[a])

\* Every step of every handler keeps it.
LEMMA SoundAlways == Spec => []AllSound
<1>1. Init => AllSound
  BY DEF Init, AllSound, Sound, Sent, Leased, AbsentRow, NewRow, Ambiguous
<1>2. PlaneTypeOK /\ AllSound /\ [Next]_vars => AllSound'
  <2> SUFFICES ASSUME PlaneTypeOK, AllSound, [Next]_vars
               PROVE  AllSound'
    OBVIOUS
  <2>1. StateOK /\ \A a \in Apps : Sound(app[a])
    BY DEF PlaneTypeOK, StateOK, AllSound
  <2>2. \A a \in Apps : Sound(app'[a])
    <3>1. CASE UNCHANGED vars
      BY <2>1, <3>1 DEF vars
    <3>2. CASE WorkerStep
      BY <2>1, <3>2, LeaseStepSound, WorkStepSound DEF WorkerStep
    <3>3. CASE QuestionStep
      BY <2>1, <3>3, QuestionStepSound
    <3>4. CASE RunStep
      BY <2>1, <3>4, RunStepSound
    <3>5. CASE StageStep \/ AttemptStep
      BY <2>1, <3>5, AttemptsSound
    <3>6. CASE RemoveStep
      BY <2>1, <3>6, RemoveStepSound
    <3>7. CASE DecideStep
      BY <2>1, <3>7, DecideStepSound
    <3>8. CASE PolicyStep \/ RevokeStep
      BY <2>1, <3>8, OwnerStepSound
    <3>9. CASE ClockStep
      BY <2>1, <3>9, ClockStepSound
    <3> QED
      BY <3>1, <3>2, <3>3, <3>4, <3>5, <3>6, <3>7, <3>8, <3>9 DEF Next, Step
  <2> QED
    BY <2>2 DEF AllSound, Sound, Sent, Leased
<1> QED
  BY <1>1, <1>2, TypeCorrect, PTL DEF Spec

\* Nothing that may have been sent is ever queued, filled again, waiting or
\* cancelled, and nothing is in doubt or received without an intent: for any
\* number of workers, roles, runs and attempts, whatever interrupts them.
THEOREM IntentsDecide == Spec => []IntentDecides
<1>1. AllSound => IntentDecides
  BY DEF AllSound, Sound, Sent, IntentDecides
<1> QED
  BY <1>1, SoundAlways, PTL

-----------------------------------------------------------------------------
(***************************************************************************)
(* Proof that what the policy, the runs, the pairings and the applicant's  *)
(* approval are at any moment binds the work at hand.  None of the         *)
(* properties is inductive alone.  An approved form is the one of the      *)
(* enabled policy because the form shown is always the one of the row's    *)
(* run, also while no policy is enabled, and the runs an enable binds keep *)
(* only the rows whose form stays; a row of a stopped run is over because  *)
(* every row was placed in a run before it could stop.                     *)
(*                                                                         *)
(* Each of the steps is looked at once, for what it does to one row: it    *)
(* keeps it, or it is one of the few that lease, start, park, approve,     *)
(* begin or resolve it.  The properties follow from that.                  *)
(***************************************************************************)
-----------------------------------------------------------------------------
\* What a row says

\* A row the applicant is asked to approve.
Awaiting(row) == IsAwaitingApproval(row.state, row.reason)

\* A row whose filled form is what the applicant was last shown.
Shown(row) == row.state = "ready" \/ Awaiting(row)

\* The states after which only what may have been sent is looked at.
Over(row) == row.state \in Terminal \union {"submission_unknown"}

\* An attempt that was made belongs to a run that was, and no other does.
Placed ==
    \A a \in Apps :
        /\ app[a].run \in Runs <=> Present(a)
        /\ Present(a) => run[app[a].run].state # "absent"

\* A run bound to the policy head has its body.
BoundToHead == \A r \in Runs : run[r].bound => run[r].body = policy.body

\* What the applicant was shown is the form of the run's policy, with the
\* answers the row has.
ReviewStands ==
    \A a \in Apps : Shown(app[a]) =>
        /\ reviewed[a].form = run[app[a].run].body.form
        /\ reviewed[a].asked = app[a].asked

\* An approved form is approved, and under the head one that may be submitted.
ApprovalStands ==
    \A a \in Apps : app[a].state = "ready" =>
        /\ reviewed[a].approved
        /\ run[app[a].run].bound => "submit" \in policy.body.actions

-----------------------------------------------------------------------------
\* What a step may do to a row

\* Every handler keeps the run of a row and whether it was made, what is over
\* and what may have been sent; only the applicant makes a row ready, and only
\* a filled form asks for it.
KeptState(row, next) ==
    /\ next.run = row.run
    /\ next.state = "absent" <=> row.state = "absent"
    /\ row.state \in Terminal => next.state = row.state
    /\ next.state \in Ambiguous <=> row.state \in Ambiguous
    /\ row.state = "submission_unknown" => next.state = "submission_unknown"
    /\ next.state = "ready" => row.state = "ready" /\ next.asked = row.asked
    /\ Awaiting(next) => Shown(row) /\ next.asked = row.asked

\* The row is kept, with its intent, and is not leased by the step.
Kept(row, next) ==
    /\ KeptState(row, next)
    /\ next.intent = row.intent
    /\ Leased(next) => Leased(row)

\* A poll leases the row to a worker that has no other, on a board without one.
Leasing(a) ==
    /\ KeptState(app[a], app'[a])
    /\ app'[a].intent = app[a].intent
    /\ WorkerOf(app[a]) \in Workers \ revoked
    /\ \A b \in Apps \ {a} : Leased(app'[b]) =>
         /\ WorkerOf(app[b]) # WorkerOf(app[a])
         /\ TenantOf[RoleOf(b)] # TenantOf[RoleOf(a)]

\* A new attempt starts, in a run that discovers.
Starting(a) ==
    /\ StageStep \/ AttemptStep
    /\ ~Present(a)
    /\ RoleOf(a) \notin manual
    /\ \E r \in Runs, retries \in 0..RetryLimit :
         run[r].state = "running" /\ app'[a] = NewRow(r, retries)

\* The filled form is parked for the applicant's review.
Parking(a) ==
    /\ app[a].state = "filling"
    /\ LiveRun(a)
    /\ Awaiting(app'[a])
    /\ app'[a].run = app[a].run
    /\ app'[a].intent = app[a].intent
    /\ ~Leased(app'[a])
    /\ UNCHANGED <<run, policy>>

Beginning(a) == \E w \in Workers : BeginSubmission(w, a)

\* Of the rows there are, only one changes.
Alone(a) == \A b \in Apps \ {a} : app'[b] = app[b] \/ ~Present(b)

\* A submission in doubt is decided.
Resolving(a) ==
    /\ Alone(a)
    /\ app[a].state \in Ambiguous
    /\ \/ /\ app'[a].state = "submitted"
          /\ app'[a].receipt \/ app'[a].reason = "confirmed_submitted"
       \/ /\ app'[a].state = "failed"
          /\ app'[a].reason = "confirmed_not_submitted"
          /\ WindowClosed(app[a])
    /\ app'[a].run = app[a].run
    /\ app'[a].intent = app[a].intent
    /\ ~Leased(app'[a])

\* Time passes over the row.
Aging(a) ==
    /\ ClockStep
    /\ KeptState(app[a], app'[a])
    /\ app'[a].intent = NoIntent <=> app[a].intent = NoIntent
    /\ Leased(app'[a]) => Leased(app[a])

Changes(a) ==
    \/ Kept(app[a], app'[a])
    \/ Leasing(a)
    \/ Starting(a)
    \/ Parking(a)
    \/ ApproveSubmit(a)
    \/ Beginning(a)
    \/ Resolving(a)
    \/ Aging(a)

\* What the helpers write, field by field.
LEMMA Written ==
    ASSUME NEW row \in Row, NEW state, NEW why
    PROVE  /\ Settled(row, state, why).run = row.run
           /\ Settled(row, state, why).intent = row.intent
           /\ Settled(row, state, why).receipt = row.receipt
           /\ Settled(row, state, why).asked = row.asked
           /\ Settled(row, state, why).lease = NoLease
           /\ Settled(row, state, why).state = state
           /\ Settled(row, state, why).reason = why
           /\ Rescreened(row, why).run = row.run
           /\ Rescreened(row, why).intent = row.intent
           /\ Rescreened(row, why).lease = NoLease
           /\ Rescreened(row, why).state = "screening"
           /\ Released(row, why).run = row.run
           /\ Released(row, why).intent = row.intent
           /\ Released(row, why).asked = row.asked
           /\ Released(row, why).lease = NoLease
           /\ Released(row, why).state =
                IF row.state = "submitting" THEN "submission_unknown" ELSE row.state
           /\ row.state # "submission_unknown" => Released(row, why).reason = why
BY DEF Settled, Rescreened, Released, Unleased, Moved, Row

\* The states of the lists that a row changes between are distinct.
LEMMA Apart ==
    /\ Terminal \intersect Ambiguous = {}
    /\ "absent" \notin Terminal \union Ambiguous \union SafeStages \union Waiting
    /\ "ready" \notin Terminal \union Ambiguous \union Waiting
    /\ "needs_policy_decision" \notin Terminal \union Ambiguous \union SafeStages
    /\ "queued" \notin Terminal \union Ambiguous \union Waiting \union SafeStages
    /\ Waiting \intersect (Terminal \union Ambiguous \union SafeStages) = {}
    /\ SafeStages \intersect (Terminal \union Ambiguous) = {}
BY DEF Terminal, Ambiguous, SafeStages, Waiting

\* A row that goes on may be written as anything that was not sent, but for
\* ready and for waiting on an approval.
LEMMA KeptWritten ==
    ASSUME NEW row, NEW next,
           row.state \notin Terminal \union Ambiguous \union {"absent"},
           next.state \notin Ambiguous \union {"absent", "ready"},
           next.state = "needs_policy_decision" => next.reason # "submit_approval",
           next.run = row.run, next.intent = row.intent,
           Leased(next) => Leased(row)
    PROVE  Kept(row, next)
BY Apart DEF Kept, KeptState, Awaiting, IsAwaitingApproval, Ambiguous

\* Releasing a row keeps it, whatever it was.
LEMMA KeptReleased ==
    ASSUME NEW row \in Row, NEW why, why # "submit_approval", NEW wait
    PROVE  /\ Kept(row, Released(row, why))
           /\ Kept(row, [Released(row, why) EXCEPT !.wait = wait])
<1> DEFINE next == Released(row, why)
<1>1. \A any : LET last == [next EXCEPT !.wait = any] IN
        /\ last.run = next.run /\ last.state = next.state /\ last.reason = next.reason
        /\ last.asked = next.asked /\ last.intent = next.intent /\ last.lease = next.lease
  BY DEF Released, Unleased, Moved, Row
<1>2. /\ next.run = row.run /\ next.intent = row.intent /\ next.asked = row.asked
      /\ next.lease = NoLease
      /\ next.state = IF row.state = "submitting" THEN "submission_unknown" ELSE row.state
      /\ row.state # "submission_unknown" => next.reason = why
  BY Written
<1> HIDE DEF next
<1>3. ~Awaiting(next) /\ ~Leased(next)
  BY <1>2 DEF Awaiting, IsAwaitingApproval, Leased
<1>4. next.state \in Ambiguous <=> row.state \in Ambiguous
  BY <1>2 DEF Ambiguous
<1>5. row.state \in Terminal => next.state = row.state
  BY <1>2 DEF Terminal
<1>6. Kept(row, next)
  BY <1>2, <1>3, <1>4, <1>5 DEF Kept, KeptState
<1>7. Kept(row, [next EXCEPT !.wait = wait])
  BY <1>1, <1>6 DEF Kept, KeptState, Awaiting, Shown, Leased
<1> QED
  BY <1>6, <1>7 DEF next

\* What keeps a row and then keeps it again keeps it.
LEMMA KeptTwice ==
    ASSUME NEW row, NEW next, NEW last, Kept(row, next), Kept(next, last)
    PROVE  Kept(row, last)
BY DEF Kept, KeptState, Shown

LEMMA KeptSame ==
    ASSUME NEW row
    PROVE  Kept(row, row)
BY DEF Kept, KeptState, Shown

\* Writing one row changes no other.
LEMMA OneRowChanges ==
    ASSUME StateOK, NEW a \in Apps, NEW next, app' = [app EXCEPT ![a] = next],
           app'[a] = next => Changes(a)
    PROVE  \A b \in Apps : Changes(b)
BY KeptSame DEF StateOK, Changes

-----------------------------------------------------------------------------
\* One lemma for each group of actions

\* The row a poll leases goes on from what it was.
LEMMA ClaimedKept ==
    ASSUME NEW row \in Row, row.state \in {"queued"} \union Leasable
    PROVE  KeptState(row, Claimed(row)) /\ Claimed(row).intent = row.intent
<1> DEFINE next == Claimed(row)
<1>1. /\ next.run = row.run /\ next.intent = row.intent /\ next.asked = row.asked
      /\ next.state = IF row.state = "queued" THEN "screening"
                      ELSE IF row.state = "submitting" THEN "submission_unknown"
                      ELSE row.state
  BY DEF Claimed, HandedOut, Row
<1> HIDE DEF next
<1>2. row.state \notin Terminal \union {"absent", "needs_policy_decision"}
  BY DEF Terminal, Leasable, SafeStages, Ambiguous
<1>3. ~Awaiting(next) /\ next.state # "absent"
  BY <1>1, <1>2 DEF Awaiting, IsAwaitingApproval
<1>4. next.state \in Ambiguous <=> row.state \in Ambiguous
  BY <1>1 DEF Ambiguous
<1>5. next.state = "ready" => row.state = "ready"
  BY <1>1
<1>6. row.state = "submission_unknown" => next.state = "submission_unknown"
  BY <1>1
<1> QED
  BY <1>1, <1>2, <1>3, <1>4, <1>5, <1>6 DEF KeptState, next

\* A poll, a heartbeat or a lost lease.
LEMMA LeaseStepChanges ==
    ASSUME StateOK, AllSound, NEW w \in Workers, LeaseStep(w)
    PROVE  \A a \in Apps : Changes(a)
<1>1. \A a \in Apps : app[a] \in Row
  BY DEF StateOK
<1>2. CASE Poll(w)
  <2> DEFINE rows == [a \in Apps |-> PollReleased(w, a)]
  <2>1. ASSUME NEW a \in Apps
        PROVE  rows[a] \in Row /\ Kept(app[a], rows[a])
    <3>1. /\ Kept(app[a], Released(app[a], "system"))
          /\ Kept(app[a], [Released(app[a], "system") EXCEPT !.wait = Lease])
      BY <1>1, KeptReleased
    <3>2. rows[a] = PollReleased(w, a)
      OBVIOUS
    <3>3. rows[a] \in Row
      BY <1>1, <3>2, PollReleasedType
    <3> HIDE DEF rows
    <3> QED
      BY <3>1, <3>2, <3>3, KeptSame DEF PollReleased
  <2>2. \/ app' = rows
        \/ \E c \in Apps : /\ Claimable(w, rows, c)
                           /\ app' = [rows EXCEPT ![c] = Claimed(rows[c])]
    BY <1>2 DEF Poll
  <2>3. rows \in [Apps -> Row]
    BY <2>1
  <2> HIDE DEF rows
  <2>4. CASE app' = rows
    BY <2>1, <2>4 DEF Changes
  <2>5. ASSUME NEW c \in Apps, Claimable(w, rows, c),
               app' = [rows EXCEPT ![c] = Claimed(rows[c])], NEW a \in Apps
        PROVE  Changes(a)
    <3>1. CASE a # c
      <4>1. app'[a] = rows[a]
        BY <2>3, <2>5, <3>1
      <4> QED
        BY <2>1, <4>1 DEF Changes
    <3>2. CASE a = c
      <4>1. app'[a] = Claimed(rows[a]) /\ \A b \in Apps \ {a} : app'[b] = rows[b]
        BY <2>3, <2>5, <3>2
      <4>2. KeptState(rows[a], app'[a]) /\ app'[a].intent = rows[a].intent
        BY <2>1, <2>5, <3>2, <4>1, ClaimedKept DEF Claimable
      <4>3. KeptState(app[a], app'[a]) /\ app'[a].intent = app[a].intent
        <5>1. KeptState(app[a], rows[a]) /\ rows[a].intent = app[a].intent
          BY <2>1 DEF Kept
        <5> QED
          BY <4>2, <5>1 DEF KeptState, Shown
      <4>4. \A b \in Apps : WorkerOf(rows[b]) = WorkerOf(app[b])
        BY <2>1 DEF Kept, KeptState, WorkerOf
      <4>5. WorkerOf(app[a]) = w /\ w \notin revoked
        BY <1>2, <2>5, <3>2, <4>4 DEF Claimable, Poll
      <4>6. \A b \in Apps \ {a} : Leased(app'[b]) =>
              /\ WorkerOf(app[b]) # WorkerOf(app[a])
              /\ TenantOf[RoleOf(b)] # TenantOf[RoleOf(a)]
        BY <2>5, <3>2, <4>1, <4>4, <4>5 DEF Claimable
      <4> QED
        BY <4>3, <4>5, <4>6 DEF Leasing, Changes
    <3> QED
      BY <3>1, <3>2
  <2> QED
    BY <2>2, <2>4, <2>5
<1>3. ASSUME NEW a \in Apps, Heartbeat(w, a)
      PROVE  \A b \in Apps : Changes(b)
  <2>1. Leased(app[a]) /\ app' = [app EXCEPT ![a] = [app[a] EXCEPT !.lease = Lease]]
    BY <1>3 DEF Heartbeat, Checked, Matches
  <2>2. Kept(app[a], [app[a] EXCEPT !.lease = Lease])
    BY <1>1, <2>1 DEF Kept, KeptState, Shown, Awaiting, Row
  <2> QED
    BY <2>1, <2>2, OneRowChanges DEF Changes
<1>4. ASSUME NEW a \in Apps, LoseLease(w, a)
      PROVE  \A b \in Apps : Changes(b)
  <2>1. app' = [app EXCEPT ![a] = Released(app[a], "system")]
    BY <1>4 DEF LoseLease
  <2>2. Kept(app[a], Released(app[a], "system"))
    BY <1>1, KeptReleased
  <2> QED
    BY <2>1, <2>2, OneRowChanges DEF Changes
<1> QED
  BY <1>2, <1>3, <1>4 DEF LeaseStep

\* An event, an intent or a receipt.
LEMMA WorkStepChanges ==
    ASSUME StateOK, AllSound, NEW w \in Workers, WorkStep(w)
    PROVE  \A a \in Apps : Changes(a)
<1>1. \A a \in Apps : app[a] \in Row
  BY DEF StateOK
<1>2. ASSUME NEW a \in Apps, NEW report \in Reports, RecordEvent(w, a, report)
      PROVE  \A b \in Apps : Changes(b)
  <2> DEFINE ends == EndsLease(report.state)
  <2>1. /\ app'[a].state = report.state
        /\ app'[a].reason = report.reason
        /\ app'[a].lease = IF ends THEN NoLease ELSE app[a].lease
        /\ app'[a].intent = app[a].intent
        /\ app'[a].run = app[a].run
    BY <1>1, <1>2 DEF RecordEvent, StateOK, Row
  <2>2. /\ report.reason = "submit_approval" => report.from = "filling"
        /\ report.state # "ready"
    BY ControlAssumption DEF ControlAssumption, ReportAssumption
  <2>3. /\ CanTransition(app[a].state, report.state, report.evidence)
        /\ CheckpointStage(app[a].state, report.state) \in SafeStages
        /\ Leased(app[a]) /\ LiveRun(a)
        /\ app[a].state = report.from
        /\ UNCHANGED <<run, policy>>
    BY <1>2 DEF RecordEvent, Checked, Matches
  <2>4. \/ /\ app[a].state = "submitting"
           /\ report.state = "submission_unknown"
        \/ /\ app[a].state \in SafeStages
           /\ report.state \in SafeStages \union Waiting \union {"failed", "skipped", "cancelled"}
    <3>1. app[a].state \in Leasable
      BY <2>3 DEF AllSound, Sound
    <3>2. CheckpointStage(app[a].state, "submitting") = "submitting"
      BY DEF CheckpointStage, EndsLease, Waiting, Terminal
    <3>3. report.state # "submitting"
      BY <2>3, <3>2 DEF SafeStages
    <3> QED
      BY <2>3, <3>1, <3>3 DEF CanTransition, Leasable, SafeStages, Ambiguous
  <2>5. Leased(app'[a]) => Leased(app[a])
    BY <2>3
  <2>6. Changes(a)
    <3>1. CASE app[a].state = "submitting"
      <4>1. app'[a].state = "submission_unknown"
        BY <2>1, <2>4, <3>1 DEF SafeStages
      <4>2. ~Awaiting(app'[a])
        BY <4>1 DEF Awaiting, IsAwaitingApproval
      <4> QED
        BY <2>1, <2>5, <3>1, <4>1, <4>2 DEF Changes, Kept, KeptState, Terminal, Ambiguous
    <3>2. CASE app[a].state # "submitting" /\ Awaiting(app'[a])
      <4>1. report.reason = "submit_approval" /\ report.state = "needs_policy_decision"
        BY <2>1, <3>2 DEF Awaiting, IsAwaitingApproval
      <4>2. ~Leased(app'[a])
        <5>1. ends
          BY <4>1 DEF EndsLease, Waiting
        <5> HIDE DEF ends
        <5> QED
          BY <2>1, <5>1 DEF Leased
      <4> QED
        BY <2>1, <2>2, <2>3, <3>2, <4>1, <4>2 DEF Changes, Parking
    <3>3. CASE app[a].state # "submitting" /\ ~Awaiting(app'[a])
      <4>1. /\ app[a].state \in SafeStages
            /\ app'[a].state \notin Ambiguous \union {"absent", "ready"}
        BY <2>1, <2>2, <2>4, <3>3 DEF SafeStages, Waiting, Ambiguous
      <4> QED
        BY <2>1, <2>5, <3>3, <4>1, Apart, KeptWritten
           DEF Changes, Awaiting, IsAwaitingApproval
    <3> QED
      BY <3>1, <3>2, <3>3
  <2> QED
    BY <1>2, <2>6, KeptSame DEF RecordEvent, StateOK, Changes
<1>3. ASSUME NEW a \in Apps, BeginSubmission(w, a)
      PROVE  \A b \in Apps : Changes(b)
  <2>1. Changes(a)
    BY <1>3 DEF Changes, Beginning
  <2> QED
    BY <1>3, <2>1, OneRowChanges DEF BeginSubmission
<1>4. ASSUME NEW a \in Apps, RecordReceipt(w, a)
      PROVE  \A b \in Apps : Changes(b)
  <2> DEFINE row == Settled(app[a], "submitted", "none")
  <2>1. row.run = app[a].run /\ row.intent = app[a].intent /\ row.state = "submitted"
          /\ row.lease = NoLease
    BY <1>1, Written
  <2>2. row \in Row
    BY <1>1, Names, SettledType
  <2>3. app' = [app EXCEPT ![a] = [row EXCEPT !.receipt = TRUE]]
    BY <1>4 DEF RecordReceipt
  <2> HIDE DEF row
  <2>4. app'[a] = [row EXCEPT !.receipt = TRUE]
    BY <2>3 DEF StateOK
  <2>5. app[a].state \in Ambiguous
    BY <1>4 DEF RecordReceipt
  <2>6. Resolving(a)
    <3>1. Alone(a)
      BY <2>3 DEF Alone, StateOK
    <3> QED
      BY <2>1, <2>2, <2>4, <2>5, <3>1 DEF Resolving, Leased, Row
  <2> QED
    BY <2>3, <2>6, OneRowChanges DEF Changes
<1> QED
  BY <1>2, <1>3, <1>4 DEF WorkStep

\* A batch of questions or an answer.
LEMMA QuestionStepChanges ==
    ASSUME StateOK, QuestionStep
    PROVE  \A a \in Apps : Changes(a)
<1>1. \A a \in Apps : app[a] \in Row
  BY DEF StateOK
<1>2. \A kind \in QuestionKinds : kind \in Waiting /\ kind \in States
  BY Names, ControlAssumption DEF ControlAssumption, ReportAssumption
<1>3. ASSUME NEW w \in Workers, NEW a \in Apps, RegisterQuestions(w, a)
      PROVE  \A b \in Apps : Changes(b)
  <2>1. app[a].state \notin Terminal \union Ambiguous \union {"absent"}
    BY <1>3, Apart DEF RegisterQuestions
  <2>2. ASSUME NEW kind \in QuestionKinds, NEW stage
        PROVE  Kept(app[a], [Settled(app[a], kind, "question_unresolved") EXCEPT
                        !.stage = stage, !.asked = "open", !.batch = TRUE, !.wait = 0])
    <3> DEFINE row == Settled(app[a], kind, "question_unresolved")
               next == [row EXCEPT !.stage = stage, !.asked = "open", !.batch = TRUE,
                                   !.wait = 0]
    <3>0. row \in Row
      BY <1>1, <1>2, Names, SettledType
    <3>1. /\ row.run = app[a].run /\ row.intent = app[a].intent
          /\ row.lease = NoLease /\ row.state = kind /\ row.reason = "question_unresolved"
      BY <1>1, Written
    <3> HIDE DEF row
    <3>2. /\ next.run = row.run /\ next.intent = row.intent /\ next.lease = row.lease
          /\ next.state = row.state /\ next.reason = row.reason
      BY <3>0 DEF Row
    <3> HIDE DEF next
    <3>3. Kept(app[a], next)
      BY <1>2, <2>1, <3>1, <3>2, Apart, KeptWritten DEF Leased
    <3> QED
      BY <3>3 DEF next, row
  <2>3. Kept(app[a], [Rescreened(app[a], "none") EXCEPT
                        !.asked = "answered", !.batch = TRUE, !.wait = 0])
    <3> DEFINE row == Rescreened(app[a], "none")
               next == [row EXCEPT !.asked = "answered", !.batch = TRUE, !.wait = 0]
    <3>0. row \in Row
      BY <1>1, Names, RescreenedType
    <3>1. /\ row.run = app[a].run /\ row.intent = app[a].intent
          /\ row.lease = NoLease /\ row.state = "screening"
      BY <1>1, Written
    <3> HIDE DEF row
    <3>2. /\ next.run = row.run /\ next.intent = row.intent /\ next.lease = row.lease
          /\ next.state = row.state
      BY <3>0 DEF Row
    <3> HIDE DEF next
    <3>3. Kept(app[a], next)
      BY <2>1, <3>1, <3>2, KeptWritten DEF Leased, Ambiguous
    <3> QED
      BY <3>3 DEF next, row
  <2>4. \/ \E kind \in QuestionKinds : app' = [app EXCEPT ![a] =
             [Settled(app[a], kind, "question_unresolved") EXCEPT
                !.stage = app[a].state, !.asked = "open", !.batch = TRUE, !.wait = 0]]
        \/ app' = [app EXCEPT ![a] = [Rescreened(app[a], "none") EXCEPT
                !.asked = "answered", !.batch = TRUE, !.wait = 0]]
    BY <1>3 DEF RegisterQuestions
  <2>5. ASSUME NEW next, Kept(app[a], next), app' = [app EXCEPT ![a] = next]
        PROVE  \A b \in Apps : Changes(b)
    BY <2>5, OneRowChanges DEF Changes
  <2> QED
    BY <2>2, <2>3, <2>4, <2>5
<1>4. ASSUME NEW a \in Apps, AnswerQuestion(a)
      PROVE  \A b \in Apps : Changes(b)
  <2>1. app[a].state \notin Terminal \union Ambiguous \union {"absent"}
    BY <1>4 DEF AnswerQuestion, Answerable, Unfinished
  <2>2. Kept(app[a], [Rescreened(app[a], "none") EXCEPT !.asked = "answered", !.wait = 0])
    <3> DEFINE row == Rescreened(app[a], "none")
               next == [row EXCEPT !.asked = "answered", !.wait = 0]
    <3>0. row \in Row
      BY <1>1, Names, RescreenedType
    <3>1. /\ row.run = app[a].run /\ row.intent = app[a].intent
          /\ row.lease = NoLease /\ row.state = "screening"
      BY <1>1, Written
    <3> HIDE DEF row
    <3>2. /\ next.run = row.run /\ next.intent = row.intent /\ next.lease = row.lease
          /\ next.state = row.state
      BY <3>0 DEF Row
    <3> HIDE DEF next
    <3>3. Kept(app[a], next)
      BY <2>1, <3>1, <3>2, KeptWritten DEF Leased, Ambiguous
    <3> QED
      BY <3>3 DEF next, row
  <2>3. ASSUME NEW kind \in QuestionKinds
        PROVE  Kept(app[a], [Rescreened(app[a], "question_unresolved") EXCEPT
                        !.state = kind, !.asked = "open", !.wait = 0])
    <3> DEFINE row == Rescreened(app[a], "question_unresolved")
               next == [row EXCEPT !.state = kind, !.asked = "open", !.wait = 0]
    <3>0. row \in Row
      BY <1>1, Names, RescreenedType
    <3>1. /\ row.run = app[a].run /\ row.intent = app[a].intent
          /\ row.lease = NoLease
      BY <1>1, Written
    <3>2. row.reason = "question_unresolved"
      BY <1>1 DEF Rescreened, Settled, Unleased, Moved, Row
    <3> HIDE DEF row
    <3>3. /\ next.run = row.run /\ next.intent = row.intent /\ next.lease = row.lease
          /\ next.state = kind /\ next.reason = row.reason
      BY <3>0 DEF Row
    <3> HIDE DEF next
    <3>4. Kept(app[a], next)
      BY <1>2, <2>1, <3>1, <3>2, <3>3, Apart, KeptWritten DEF Leased
    <3> QED
      BY <3>4 DEF next, row
  <2> QED
    BY <1>4, <2>2, <2>3, OneRowChanges DEF AnswerQuestion, Changes
<1> QED
  BY <1>3, <1>4 DEF QuestionStep

\* What pause or stop leaves of a row is kept of it.
LEMMA RowAfterRunKept ==
    ASSUME NEW row \in Row, NEW r, NEW why \in {"run_paused", "run_stopped"},
           row.state # "absent"
    PROVE  Kept(row, RowAfterRun(row, r, why))
<1> DEFINE released == Released(row, why)
           next == [released EXCEPT !.state = "cancelled"]
<1>1. Kept(row, released)
  BY KeptReleased
<1>0. released \in Row
  BY Names, ReleasedType
<1>2. /\ released.run = row.run /\ released.intent = row.intent /\ released.lease = NoLease
      /\ released.state = IF row.state = "submitting" THEN "submission_unknown" ELSE row.state
  BY Written
<1>3. RowAfterRun(row, r, why) =
        IF row.run # r \/ row.state \in Terminal THEN row
        ELSE IF why = "run_stopped" /\ released.state # "submission_unknown"
        THEN next ELSE released
  BY DEF RowAfterRun
<1> HIDE DEF released
<1>4. next.run = released.run /\ next.intent = released.intent /\ next.state = "cancelled"
        /\ next.lease = released.lease
  BY <1>0 DEF Row
<1> HIDE DEF next
<1>5. ASSUME row.state \notin Terminal, released.state # "submission_unknown"
      PROVE  Kept(row, next)
  BY <1>2, <1>4, <1>5, KeptWritten DEF Leased, Ambiguous
<1> QED
  BY <1>1, <1>3, <1>5, KeptSame

\* A run created, paused, stopped or resumed.
LEMMA RunStepChanges ==
    ASSUME StateOK, Placed, RunStep
    PROVE  \A a \in Apps : Changes(a)
<1>1. \A a \in Apps : app[a] \in Row
  BY DEF StateOK
<1>2. ASSUME NEW a \in Apps, NEW r \in Runs, NEW why \in {"run_paused", "run_stopped"}
      PROVE  Kept(app[a], RowAfterRun(app[a], r, why))
  <2>1. CASE app[a].state = "absent"
    <3>1. app[a].run # r
      BY <2>1 DEF Placed, Present
    <3> QED
      BY <3>1, KeptSame DEF RowAfterRun
  <2>2. CASE app[a].state # "absent"
    BY <1>1, <2>2, RowAfterRunKept
  <2> QED
    BY <2>1, <2>2
<1>3. ASSUME NEW r \in Runs, PauseRun(r) \/ StopRun(r)
      PROVE  \A a \in Apps : Changes(a)
  BY <1>2, <1>3 DEF PauseRun, StopRun, Changes
<1>4. ASSUME NEW r \in Runs, NEW w \in Workers, ResumeRun(r) \/ CreateRun(w, r)
      PROVE  app' = app
  BY <1>4 DEF ResumeRun, CreateRun
<1> QED
  BY <1>3, <1>4, KeptSame DEF RunStep, ResumeRun, Changes

\* One row ends, if it goes on, and the next attempt at its role starts.
LEMMA ContinueChanges ==
    ASSUME StateOK, AttemptStep, NEW r \in Runs, NEW a \in Apps, NEW row,
           NEW retries \in 0..RetryLimit,
           CurrentDiscovery(r), MayContinue(r, a), Continue(r, a, row, retries),
           Kept(app[a], row) \/ (app'[a] = row /\ Alone(a) => Resolving(a))
    PROVE  \A b \in Apps : Changes(b)
<1> DEFINE after == <<RoleOf(a), AttemptOf(a) + 1>>
<1>1. after \in Apps /\ after # a
  BY Bounds DEF MayContinue, Apps, RoleOf, AttemptOf
<1>2. /\ app'[a] = row
      /\ app'[after] = NewRow(r, retries)
      /\ \A b \in Apps \ {a, after} : app'[b] = app[b]
  BY <1>1 DEF Continue, StateOK
<1>3. ~Present(after) /\ RoleOf(after) \notin manual
  BY <1>1, Bounds DEF MayContinue, Latest, Apps, RoleOf, AttemptOf
<1>4. Starting(after)
  BY <1>2, <1>3 DEF Starting, CurrentDiscovery
<1>5. Alone(a)
  BY <1>2, <1>3 DEF Alone
<1>6. Changes(a)
  BY <1>2, <1>5 DEF Changes
<1> QED
  BY <1>2, <1>4, <1>6, KeptSame DEF Changes

\* A new attempt is staged or follows one.
LEMMA AttemptsChange ==
    ASSUME StateOK, StageStep \/ AttemptStep
    PROVE  \A a \in Apps : Changes(a)
<1>1. \A a \in Apps : app[a] \in Row
  BY DEF StateOK
<1>2. 0 \in 0..RetryLimit
  BY Bounds
<1>3. CASE StageStep
  <2>1. PICK r \in Runs, roles \in SUBSET Roles : StageRoles(r, roles)
    BY <1>3 DEF StageStep
  <2>2. ASSUME NEW a \in Apps
        PROVE  Changes(a)
    <3>1. \/ app'[a] = app[a]
          \/ ~Present(a) /\ RoleOf(a) \notin manual /\ app'[a] = NewRow(r, 0)
      BY <2>1 DEF StageRoles, IsNext
    <3>2. run[r].state = "running"
      BY <2>1 DEF StageRoles, CurrentDiscovery
    <3> QED
      BY <1>2, <1>3, <3>1, <3>2, KeptSame DEF Changes, Starting
  <2> QED
    BY <2>2
<1>4. ASSUME NEW a \in Apps, NEW state \in {"failed", "cancelled"},
             app[a].state \notin Terminal \union Ambiguous \union {"absent"}, NEW why
      PROVE  Kept(app[a], Settled(app[a], state, why))
  <2> DEFINE next == Settled(app[a], state, why)
  <2>1. /\ next.run = app[a].run /\ next.intent = app[a].intent
        /\ next.lease = NoLease /\ next.state = state
    BY <1>1, Written
  <2> HIDE DEF next
  <2>2. Kept(app[a], next)
    BY <1>4, <2>1, KeptWritten DEF Leased, Ambiguous
  <2> QED
    BY <2>2 DEF next
<1>5. ASSUME NEW r \in Runs, NEW a \in Apps, Reapply(r, a)
      PROVE  \A b \in Apps : Changes(b)
  BY <1>2, <1>5, KeptSame, ContinueChanges DEF Reapply, AttemptStep
<1>6. ASSUME NEW r \in Runs, NEW a \in Apps, RetryUnsubmitted(r, a)
      PROVE  \A b \in Apps : Changes(b)
  <2>0. AttemptStep
    BY <1>6 DEF AttemptStep
  <2>1. CASE app[a].state = "submission_unknown"
    <3> DEFINE next == Settled(app[a], "failed", "confirmed_not_submitted")
    <3>1. /\ next.run = app[a].run /\ next.intent = app[a].intent /\ next.lease = NoLease
          /\ next.state = "failed" /\ next.reason = "confirmed_not_submitted"
      BY <1>1, Written
    <3>2. /\ CurrentDiscovery(r) /\ MayContinue(r, a) /\ WindowClosed(app[a])
          /\ Continue(r, a, next, 0)
      BY <1>6, <2>1 DEF RetryUnsubmitted
    <3> HIDE DEF next
    <3>3. app'[a] = next /\ Alone(a) => Resolving(a)
      BY <2>1, <3>1, <3>2 DEF Resolving, Leased, Ambiguous
    <3> QED
      BY <1>2, <2>0, <3>2, <3>3, ContinueChanges
  <2>2. CASE app[a].state = "needs_document"
    <3>1. /\ CurrentDiscovery(r) /\ MayContinue(r, a) /\ app[a].retries < RetryLimit
          /\ Continue(r, a, Settled(app[a], "failed", "system"), app[a].retries + 1)
      BY <1>6, <2>2 DEF RetryUnsubmitted
    <3>2. app[a].retries + 1 \in 0..RetryLimit
      BY <1>1, <3>1, Bounds DEF Row
    <3>3. Kept(app[a], Settled(app[a], "failed", "system"))
      BY <1>4, <2>2 DEF Terminal, Ambiguous
    <3> QED
      BY <2>0, <3>1, <3>2, <3>3, ContinueChanges
  <2> QED
    BY <1>6, <2>1, <2>2 DEF RetryUnsubmitted
<1>7. ASSUME NEW r \in Runs, NEW a \in Apps, Restart(r, a)
      PROVE  \A b \in Apps : Changes(b)
  <2> DEFINE next == IF app[a].state \in Terminal THEN app[a]
                     ELSE Settled(app[a], "cancelled", "restarted")
  <2>1. /\ AttemptStep /\ CurrentDiscovery(r) /\ MayContinue(r, a)
        /\ Continue(r, a, next, 0)
    BY <1>7 DEF Restart, AttemptStep
  <2>2. Kept(app[a], next)
    <3>1. app[a].state \notin Ambiguous \union {"absent"}
      BY <1>7 DEF Restart, MayContinue, Present
    <3> QED
      BY <1>4, <3>1, KeptSame
  <2> HIDE DEF next
  <2> QED
    BY <1>2, <2>1, <2>2, ContinueChanges
<1> QED
  BY <1>3, <1>5, <1>6, <1>7 DEF AttemptStep

\* Ending a row's lease without moving it on, or settling it in doubt.
LEMMA KeptInDoubt ==
    ASSUME NEW row \in Row, NEW state, NEW why, why # "submit_approval",
           IF row.state \in Ambiguous THEN state = "submission_unknown" ELSE state = row.state
    PROVE  Kept(row, Settled(row, state, why))
<1> DEFINE next == Settled(row, state, why)
<1>1. /\ next.run = row.run /\ next.intent = row.intent /\ next.asked = row.asked
      /\ next.lease = NoLease /\ next.state = state /\ next.reason = why
  BY Written
<1> HIDE DEF next
<1>2. ~Awaiting(next) /\ ~Leased(next)
  BY <1>1 DEF Awaiting, IsAwaitingApproval, Leased
<1>3. Kept(row, next)
  BY <1>1, <1>2, Apart DEF Kept, KeptState, Ambiguous
<1> QED
  BY <1>3 DEF next

\* Settling a row that goes on as something not sent, or screening it again.
LEMMA KeptSettled ==
    ASSUME NEW row \in Row, row.state \notin Terminal \union Ambiguous \union {"absent"},
           NEW state, state \notin Ambiguous \union {"absent", "ready"},
           NEW why, why # "submit_approval"
    PROVE  Kept(row, Settled(row, state, why)) /\ Kept(row, Rescreened(row, why))
<1> DEFINE next == Settled(row, state, why)
           again == Rescreened(row, why)
<1>1. /\ next.run = row.run /\ next.intent = row.intent /\ next.lease = NoLease
      /\ next.state = state /\ next.reason = why
      /\ again.run = row.run /\ again.intent = row.intent /\ again.lease = NoLease
      /\ again.state = "screening"
  BY Written
<1> HIDE DEF next, again
<1>2. Kept(row, next)
  BY <1>1, KeptWritten DEF Leased
<1>3. Kept(row, again)
  BY <1>1, KeptWritten DEF Leased, Ambiguous
<1> QED
  BY <1>2, <1>3 DEF next, again

\* Fields that say nothing of a row's state.
LEMMA KeptFields ==
    ASSUME NEW row \in Row, NEW before, Kept(before, row),
           NEW hidden, NEW retries, NEW wait
    PROVE  /\ Kept(before, [row EXCEPT !.hidden = hidden])
           /\ Kept(before, [row EXCEPT !.retries = retries, !.wait = wait])
BY DEF Kept, KeptState, Shown, Awaiting, Leased, Row

\* The applicant gives a role up.
LEMMA RemoveStepChanges ==
    ASSUME StateOK, RemoveStep
    PROVE  \A a \in Apps : Changes(a)
<1>1. \A a \in Apps : app[a] \in Row
  BY DEF StateOK
<1>2. ASSUME NEW a \in Apps, app[a].state \notin Terminal \union Ambiguous \union {"absent"}
      PROVE  /\ Kept(app[a], Settled(app[a], "cancelled", "system"))
             /\ Kept(app[a], Settled(app[a], "skipped", "system"))
  BY <1>1, <1>2, KeptSettled DEF Ambiguous
<1>3. ASSUME NEW a \in Apps, NEW next, Kept(app[a], next), app' = [app EXCEPT ![a] = next]
      PROVE  \A b \in Apps : Changes(b)
  BY <1>3, OneRowChanges DEF Changes
<1>4. ASSUME NEW a \in Apps, Delete(a)
      PROVE  \A b \in Apps : Changes(b)
  <2>1. CASE app[a].state \in Terminal
    <3>1. app' = [app EXCEPT ![a] = [Moved(app[a]) EXCEPT !.hidden = TRUE]]
      BY <1>4, <2>1 DEF Delete
    <3>2. Kept(app[a], Moved(app[a]))
      BY <1>1 DEF Kept, KeptState, Shown, Awaiting, Leased, Moved, Row
    <3>3. Kept(app[a], [Moved(app[a]) EXCEPT !.hidden = TRUE])
      BY <1>1, <3>2, UnleasedType, KeptFields
    <3> QED
      BY <1>3, <3>1, <3>3
  <2>2. CASE app[a].state \notin Terminal
    <3>1. app' = [app EXCEPT ![a] =
                    [Settled(app[a], "cancelled", "system") EXCEPT !.hidden = TRUE]]
      BY <1>4, <2>2 DEF Delete
    <3>2. Kept(app[a], Settled(app[a], "cancelled", "system"))
      BY <1>2, <1>4, <2>2 DEF Delete, Present
    <3>3. Settled(app[a], "cancelled", "system") \in Row
      BY <1>1, Names, SettledType
    <3>4. Kept(app[a], [Settled(app[a], "cancelled", "system") EXCEPT !.hidden = TRUE])
      BY <3>2, <3>3, KeptFields
    <3> QED
      BY <1>3, <3>1, <3>4
  <2> QED
    BY <2>1, <2>2
<1>5. ASSUME NEW a \in Apps, NEW state \in {"skipped", "cancelled"}, Drop(a, state)
      PROVE  \A b \in Apps : Changes(b)
  <2>1. Kept(app[a], Settled(app[a], state, "system"))
    BY <1>2, <1>5 DEF Drop, Unfinished
  <2> QED
    BY <1>3, <1>5, <2>1 DEF Drop
<1>6. ASSUME NEW a \in Apps, EmergencyStop(a)
      PROVE  \A b \in Apps : Changes(b)
  <2> DEFINE state == IF app[a].state \in Ambiguous THEN "submission_unknown"
                      ELSE "cancelled"
  <2>1. app' = [app EXCEPT ![a] = Settled(app[a], state, "system")]
    BY <1>6 DEF EmergencyStop
  <2>2. CASE app[a].state \in Ambiguous
    BY <1>1, <1>3, <2>1, <2>2, KeptInDoubt
  <2>3. CASE app[a].state \notin Ambiguous
    BY <1>2, <1>3, <1>6, <2>1, <2>3 DEF EmergencyStop, Present
  <2> QED
    BY <2>2, <2>3
<1>7. ASSUME NEW role \in Roles, MarkManual(role), NEW a \in Apps
      PROVE  Changes(a)
  <2> DEFINE released == Released(app[a], "system")
             next == [released EXCEPT !.state = "skipped"]
  <2>1. \/ app'[a] = app[a]
        \/ /\ app[a].state \notin Terminal \union {"absent"}
           /\ app'[a] = IF released.state = "submission_unknown" THEN released ELSE next
    BY <1>7 DEF MarkManual
  <2>2. Kept(app[a], released)
    BY <1>1, KeptReleased
  <2>3. released \in Row
    BY <1>1, Names, ReleasedType
  <2>4. /\ released.run = app[a].run /\ released.intent = app[a].intent
        /\ released.lease = NoLease
        /\ released.state = IF app[a].state = "submitting" THEN "submission_unknown"
                            ELSE app[a].state
    BY <1>1, Written
  <2> HIDE DEF released
  <2>5. next.run = released.run /\ next.intent = released.intent
          /\ next.lease = released.lease /\ next.state = "skipped"
    BY <2>3 DEF Row
  <2> HIDE DEF next
  <2>6. ASSUME app[a].state \notin Terminal \union {"absent"},
               released.state # "submission_unknown"
        PROVE  Kept(app[a], next)
    BY <2>4, <2>5, <2>6, KeptWritten DEF Leased, Ambiguous
  <2> QED
    BY <2>1, <2>2, <2>6, KeptSame DEF Changes
<1> QED
  BY <1>4, <1>5, <1>6, <1>7 DEF RemoveStep

\* The applicant lets a row go on, or decides what became of it.
LEMMA DecideStepChanges ==
    ASSUME StateOK, DecideStep
    PROVE  \A a \in Apps : Changes(a)
<1>1. \A a \in Apps : app[a] \in Row
  BY DEF StateOK
<1>2. ASSUME NEW a \in Apps, RetrySafe(a)
      PROVE  \A b \in Apps : Changes(b)
  <2> DEFINE state == IF app[a].stage = "ready" THEN "filling" ELSE app[a].stage
             row == Settled(app[a], state, "system")
  <2>1. state \in SafeStages \ {"ready"}
    BY <1>1, <1>2 DEF Row, RetrySafe, SafeStages
  <2>2. app[a].state \in Waiting
    BY <1>2 DEF RetrySafe, IsSafeRetry, Waiting
  <2>3. row \in Row /\ Kept(app[a], row)
    <3>1. row \in Row
      BY <1>1, <2>1, Names, SettledType
    <3>2. Kept(app[a], row)
      BY <1>1, <2>1, <2>2, Apart, KeptSettled
    <3> QED
      BY <3>1, <3>2
  <2>4. app' = [app EXCEPT ![a] =
                  [row EXCEPT !.retries = app[a].retries + 1, !.wait = 1]]
    BY <1>2 DEF RetrySafe
  <2> HIDE DEF row
  <2>5. Kept(app[a], [row EXCEPT !.retries = app[a].retries + 1, !.wait = 1])
    BY <2>3, KeptFields
  <2> QED
    BY <2>4, <2>5, OneRowChanges DEF Changes
<1>3. ASSUME NEW a \in Apps, ApproveSubmit(a)
      PROVE  \A b \in Apps : Changes(b)
  BY <1>3, OneRowChanges DEF ApproveSubmit, Changes
<1>4. ASSUME NEW a \in Apps, ConfirmSubmitted(a)
      PROVE  \A b \in Apps : Changes(b)
  <2> DEFINE next == Settled(app[a], "submitted", "confirmed_submitted")
  <2>1. app' = [app EXCEPT ![a] = next] /\ app[a].state = "submission_unknown"
    BY <1>4 DEF ConfirmSubmitted
  <2>2. /\ next.run = app[a].run /\ next.intent = app[a].intent /\ next.lease = NoLease
        /\ next.state = "submitted" /\ next.reason = "confirmed_submitted"
    BY <1>1, Written
  <2> HIDE DEF next
  <2>3. Alone(a)
    BY <2>1 DEF Alone, StateOK
  <2>4. app'[a] = next => Resolving(a)
    BY <2>1, <2>2, <2>3 DEF Resolving, Leased, Ambiguous
  <2> QED
    BY <2>1, <2>4, OneRowChanges DEF Changes
<1>5. ASSUME NEW a \in Apps, ConfirmNotSubmitted(a)
      PROVE  \A b \in Apps : Changes(b)
  <2> DEFINE next == Settled(app[a], "failed", "confirmed_not_submitted")
  <2>1. /\ app' = [app EXCEPT ![a] = next]
        /\ app[a].state = "submission_unknown"
        /\ WindowClosed(app[a])
    BY <1>5 DEF ConfirmNotSubmitted
  <2>2. /\ next.run = app[a].run /\ next.intent = app[a].intent /\ next.lease = NoLease
        /\ next.state = "failed" /\ next.reason = "confirmed_not_submitted"
    BY <1>1, Written
  <2> HIDE DEF next
  <2>3. Alone(a)
    BY <2>1 DEF Alone, StateOK
  <2>4. app'[a] = next => Resolving(a)
    BY <2>1, <2>2, <2>3 DEF Resolving, Leased, Ambiguous
  <2> QED
    BY <2>1, <2>4, OneRowChanges DEF Changes
<1> QED
  BY <1>2, <1>3, <1>4, <1>5 DEF DecideStep

\* The row an enabled policy leaves: kept at every step of the carry-forward,
\* ready only if it may be submitted, shown only if its form stays, and over
\* if its run ends.
LEMMA CarriedRowKept ==
    ASSUME NEW a \in Apps, app[a] \in Row, NEW lost
    PROVE  /\ Kept(app[a], CarriedRow(a, lost))
           /\ CarriedRow(a, lost).state = "ready" => "submit" \in policy.body.actions
           /\ Shown(CarriedRow(a, lost)) => ~Refilled(app[a].run)
           /\ Present(a) /\ Ended(app[a].run) => Over(CarriedRow(a, lost))
<1> DEFINE Goes(row) == row.state \notin Terminal \union Ambiguous \union {"absent"}
<1>1. ASSUME NEW row \in Row
      PROVE  EndLease(row) \in Row /\ Kept(row, EndLease(row))
             /\ EndLease(row).state # "submitting"
  <2> DEFINE state == IF row.state = "submitting" THEN "submission_unknown" ELSE row.state
  <2>1. state \in States \union {"absent"}
    BY <1>1, Names DEF Row
  <2>2. Settled(row, state, "system") \in Row
    BY <2>1, Names, SettledType
  <2>3. Kept(row, Settled(row, state, "system"))
    BY <1>1, KeptInDoubt DEF Ambiguous
  <2>4. Settled(row, state, "system").state = state
    BY <1>1, Written
  <2>5. EndLease(row) = IF Leased(row) \/ row.state = "submitting"
                        THEN Settled(row, state, "system") ELSE row
    BY DEF EndLease
  <2> QED
    BY <2>2, <2>3, <2>4, <2>5, KeptSame
<1>2. ASSUME NEW row \in Row
      PROVE  /\ EndRun(row) \in Row /\ Kept(row, EndRun(row))
             /\ /\ Ended(row.run)
                /\ row.state \notin {"submitting", "absent"}
                => Over(EndRun(row))
  <2>1. Settled(row, "cancelled", "run_stopped") \in Row
          /\ Settled(row, "cancelled", "run_stopped").state = "cancelled"
    BY Names, SettledType, Written
  <2>2. Unfinished(row) => Kept(row, Settled(row, "cancelled", "run_stopped"))
    BY <1>2, KeptSettled DEF Unfinished, Ambiguous
  <2>3. ~Unfinished(row) /\ row.state \notin {"submitting", "absent"} => Over(row)
    BY DEF Unfinished, Over, Ambiguous
  <2>4. "cancelled" \in Terminal
    BY DEF Terminal
  <2> QED
    BY <2>1, <2>2, <2>3, <2>4, KeptSame DEF EndRun, Over
<1>3. ASSUME NEW row \in Row
      PROVE  /\ WithdrawApproval(row) \in Row /\ Kept(row, WithdrawApproval(row))
             /\ WithdrawApproval(row).state = "ready" => "submit" \in policy.body.actions
  <2> DEFINE next == Settled(row, "needs_policy_decision", "submit_approval")
  <2>1. next \in Row
    BY Names, SettledType
  <2>2. /\ next.run = row.run /\ next.intent = row.intent /\ next.lease = NoLease
        /\ next.asked = row.asked /\ next.state = "needs_policy_decision"
    BY Written
  <2>3. WithdrawApproval(row) =
          IF row.state = "ready" /\ "submit" \notin policy.body.actions THEN next ELSE row
    BY DEF WithdrawApproval
  <2> HIDE DEF next
  <2>4. row.state = "ready" => Kept(row, next)
    BY <2>2, Apart DEF Kept, KeptState, Shown, Leased
  <2> QED
    BY <2>1, <2>2, <2>3, <2>4, KeptSame
<1>4. ASSUME NEW row \in Row, NEW role
      PROVE  EndReapplication(row, role) \in Row /\ Kept(row, EndReapplication(row, role))
  <2>1. Settled(row, "cancelled", "system") \in Row
    BY Names, SettledType
  <2>2. Unfinished(row) => Kept(row, Settled(row, "cancelled", "system"))
    BY <1>4, KeptSettled DEF Unfinished, Ambiguous
  <2> QED
    BY <2>1, <2>2, KeptSame DEF EndReapplication
<1>5. ASSUME NEW row \in Row
      PROVE  CarryQuestions(row, lost) \in Row /\ Kept(row, CarryQuestions(row, lost))
  <2> DEFINE again == Rescreened(row, "system")
             waits == row.state \in Waiting /\ row.reason \in {"question_unresolved", "run_paused"}
             filled == row.state \notin Waiting \/ Awaiting(row)
             asked == IF lost THEN "no" ELSE row.asked
  <2>1. again \in Row
    BY Names, RescreenedType
  <2>2. \A c \in Row, any \in {"no", "open", "answered"} :
          /\ [c EXCEPT !.asked = any] \in Row
          /\ [c EXCEPT !.asked = any].run = c.run
          /\ [c EXCEPT !.asked = any].intent = c.intent
          /\ [c EXCEPT !.asked = any].lease = c.lease
          /\ [c EXCEPT !.asked = any].state = c.state
          /\ [c EXCEPT !.asked = any].reason = c.reason
    BY DEF Row
  <2>3. /\ again.run = row.run /\ again.intent = row.intent
        /\ again.lease = NoLease /\ again.state = "screening"
    BY Written
  <2>4. again.asked = row.asked
    BY DEF Rescreened, Settled, Unleased, Moved, Row
  <2>5. CarryQuestions(row, lost) =
          IF row.asked # "no" /\ Unfinished(row) /\ Carried(row.run)
          THEN IF waits \/ (lost /\ filled) THEN [again EXCEPT !.asked = IF lost THEN "no" ELSE @]
               ELSE [row EXCEPT !.asked = IF lost THEN "no" ELSE @]
          ELSE row
    BY DEF CarryQuestions, Awaiting
  <2> HIDE DEF again
  <2>6. CASE ~(row.asked # "no" /\ Unfinished(row) /\ Carried(row.run))
    BY <2>5, <2>6, KeptSame
  <2>7. CASE /\ row.asked # "no" /\ Unfinished(row) /\ Carried(row.run)
             /\ waits \/ (lost /\ filled)
    <3> DEFINE next == [again EXCEPT !.asked = asked]
    <3>1. asked \in {"no", "open", "answered"} /\ asked = IF lost THEN "no" ELSE again.asked
      BY <2>4 DEF Row
    <3>2. CarryQuestions(row, lost) = next
      BY <2>4, <2>5, <2>7
    <3>3. /\ next \in Row /\ next.run = row.run /\ next.intent = row.intent
          /\ next.lease = NoLease /\ next.state = "screening"
      BY <2>1, <2>2, <2>3, <3>1
    <3> HIDE DEF next
    <3>4. Kept(row, next)
      BY <2>7, <3>3, KeptWritten DEF Unfinished, Leased, Ambiguous
    <3> QED
      BY <3>2, <3>3, <3>4
  <2>8. CASE /\ row.asked # "no" /\ Unfinished(row) /\ Carried(row.run)
             /\ ~(waits \/ (lost /\ filled))
    <3> DEFINE next == [row EXCEPT !.asked = asked]
    <3>1. asked \in {"no", "open", "answered"}
      BY DEF Row
    <3>2. CarryQuestions(row, lost) = next
      BY <2>5, <2>8
    <3>3. /\ next \in Row /\ next.run = row.run /\ next.intent = row.intent
          /\ next.lease = row.lease /\ next.state = row.state /\ next.reason = row.reason
          /\ next.asked = asked
      BY <2>2, <3>1 DEF Row
    <3> HIDE DEF next
    <3>4. Kept(row, next)
      <4>1. CASE lost
        <5>1. row.state \in Waiting /\ ~Awaiting(row)
          BY <2>8, <4>1
        <5> QED
          BY <2>8, <3>3, <5>1, Apart, KeptWritten
             DEF Unfinished, Leased, Awaiting, IsAwaitingApproval
      <4>2. CASE ~lost
        BY <3>3, <4>2 DEF Kept, KeptState, Shown, Awaiting, Leased
      <4> QED
        BY <4>1, <4>2
    <3> QED
      BY <3>2, <3>3, <3>4
  <2> QED
    BY <2>6, <2>7, <2>8
<1>6. ASSUME NEW row \in Row
      PROVE  /\ Refill(row) \in Row /\ Kept(row, Refill(row))
             /\ Shown(Refill(row)) => ~Refilled(row.run)
  <2> DEFINE again == Rescreened(row, "system")
  <2>1. again \in Row
    BY Names, RescreenedType
  <2>2. again.state = "screening"
    BY Written
  <2>3. Shown(row) => Kept(row, again)
    <3>1. Shown(row) => row.state \notin Terminal \union Ambiguous \union {"absent"}
      BY DEF Shown, Awaiting, IsAwaitingApproval, Terminal, Ambiguous
    <3>2. Goes(row) => Kept(row, Settled(row, "cancelled", "system")) /\ Kept(row, again)
      BY <1>6, KeptSettled DEF Ambiguous
    <3> QED
      BY <3>1, <3>2
  <2>4. Refill(row) = IF Shown(row) /\ Refilled(row.run) THEN again ELSE row
    BY DEF Refill, Shown, Awaiting
  <2> HIDE DEF again
  <2>5. ~Shown(again)
    BY <2>2 DEF Shown, Awaiting, IsAwaitingApproval
  <2> QED
    BY <2>1, <2>3, <2>4, <2>5, KeptSame
<1> DEFINE unleased == EndLease(app[a])
           gone == EndRun(unleased)
           ended == WithdrawApproval(gone)
           again == EndReapplication(ended, RoleOf(a))
           asked == CarryQuestions(again, lost)
           last == Refill(asked)
<1>7. CarriedRow(a, lost) = last
  BY DEF CarriedRow
<1>8. unleased \in Row /\ Kept(app[a], unleased) /\ unleased.state # "submitting"
  BY <1>1
<1> HIDE DEF unleased
<1>9. /\ gone \in Row /\ Kept(unleased, gone)
      /\ Ended(unleased.run) /\ unleased.state \notin {"submitting", "absent"} => Over(gone)
  BY <1>2, <1>8
<1> HIDE DEF gone
<1>10. /\ ended \in Row /\ Kept(gone, ended)
       /\ ended.state = "ready" => "submit" \in policy.body.actions
  BY <1>3, <1>9
<1> HIDE DEF ended
<1>11. again \in Row /\ Kept(ended, again)
  BY <1>4, <1>10
<1> HIDE DEF again
<1>12. asked \in Row /\ Kept(again, asked)
  BY <1>5, <1>11
<1> HIDE DEF asked
<1>13. last \in Row /\ Kept(asked, last) /\ (Shown(last) => ~Refilled(asked.run))
  BY <1>6, <1>12
<1> HIDE DEF last
<1>14. Kept(app[a], gone) /\ Kept(ended, last) /\ Kept(gone, last) /\ Kept(app[a], asked)
         /\ Kept(app[a], last)
  <2>1. Kept(app[a], gone) /\ Kept(ended, asked)
    BY <1>8, <1>9, <1>11, <1>12, KeptTwice
  <2>2. Kept(gone, asked) /\ Kept(ended, last)
    BY <1>10, <1>13, <2>1, KeptTwice
  <2>3. Kept(gone, last) /\ Kept(app[a], asked)
    BY <1>10, <2>1, <2>2, KeptTwice
  <2> QED
    BY <1>13, <2>1, <2>2, <2>3, KeptTwice
<1>15. last.state = "ready" => "submit" \in policy.body.actions
  BY <1>10, <1>14 DEF Kept, KeptState
<1>16. Shown(last) => ~Refilled(app[a].run)
  BY <1>13, <1>14 DEF Kept, KeptState
<1>17. Present(a) /\ Ended(app[a].run) => Over(last)
  <2>1. Present(a) /\ Ended(app[a].run) => Over(gone)
    BY <1>8, <1>9 DEF Present, Kept, KeptState
  <2> QED
    BY <1>14, <2>1 DEF Over, Kept, KeptState
<1> QED
  BY <1>7, <1>14, <1>15, <1>16, <1>17

\* The profile or the policy changes, or a worker is revoked.
LEMMA OwnerStepChanges ==
    ASSUME StateOK, PolicyStep \/ RevokeStep
    PROVE  \A a \in Apps : Changes(a)
<1>1. \A a \in Apps : app[a] \in Row
  BY DEF StateOK
<1>2. ASSUME SaveProfile \/ (\E body \in Policies : SavePolicy(body))
               \/ DisablePolicy \/ ExpirePolicy
      PROVE  app' = app
  BY <1>2 DEF SaveProfile, SavePolicy, DisablePolicy, ExpirePolicy
<1>3. ASSUME NEW lost, EnablePolicy(lost), NEW a \in Apps
      PROVE  Changes(a)
  <2>1. app'[a] = CarriedRow(a, a \in lost)
    BY <1>3 DEF EnablePolicy
  <2>2. Kept(app[a], CarriedRow(a, a \in lost))
    BY <1>1, CarriedRowKept
  <2> QED
    BY <2>1, <2>2 DEF Changes
<1>4. ASSUME NEW w \in Workers, RevokeWorker(w), NEW a \in Apps
      PROVE  Changes(a)
  <2>1. app'[a] = app[a] \/ app'[a] = Released(app[a], "system")
    BY <1>4 DEF RevokeWorker
  <2>2. Kept(app[a], Released(app[a], "system"))
    BY <1>1, KeptReleased
  <2> QED
    BY <2>1, <2>2, KeptSame DEF Changes
<1> QED
  BY <1>2, <1>3, <1>4, KeptSame DEF PolicyStep, RevokeStep, Changes

\* The clock.
LEMMA ClockStepAges ==
    ASSUME StateOK, ClockStep
    PROVE  \A a \in Apps : Aging(a)
<1>1. ASSUME NEW row \in Row, NEW next, next = Aged(row) \/ next = SetBack(row)
      PROVE  /\ KeptState(row, next)
             /\ next.intent = NoIntent <=> row.intent = NoIntent
             /\ Leased(next) => Leased(row)
  <2>1. /\ next.run = row.run /\ next.state = row.state /\ next.reason = row.reason
        /\ next.asked = row.asked
    BY <1>1 DEF Aged, SetBack, Row
  <2>2. \/ /\ next.lease = Sooner(row.lease)
           /\ next.intent = IF row.intent = NoIntent THEN NoIntent
                            ELSE Later(row.intent, Window)
        \/ /\ next.lease = IF row.lease = NoLease THEN NoLease ELSE 0
           /\ next.intent = Sooner(row.intent)
    BY <1>1 DEF Aged, SetBack, Row
  <2>3. Leased(next) => Leased(row)
    BY <2>2, Bounds DEF Leased, Sooner, Row, NoLease
  <2>4. next.intent = NoIntent <=> row.intent = NoIntent
    BY <2>2, Bounds DEF Sooner, Later, Row, NoIntent
  <2>5. KeptState(row, next)
    BY <2>1 DEF KeptState, Shown, Awaiting
  <2> QED
    BY <2>3, <2>4, <2>5
<1>2. ASSUME NEW a \in Apps
      PROVE  app[a] \in Row /\ (app'[a] = Aged(app[a]) \/ app'[a] = SetBack(app[a]))
  BY DEF StateOK, ClockStep, Tick, ClockBack
<1> QED
  BY <1>1, <1>2 DEF Aging

\* What any step does to any row.
LEMMA RowsChange ==
    ASSUME StateOK, AllSound, Placed, Step
    PROVE  \A a \in Apps : Changes(a)
BY LeaseStepChanges, WorkStepChanges, QuestionStepChanges, RunStepChanges, AttemptsChange,
   RemoveStepChanges, DecideStepChanges, OwnerStepChanges, ClockStepAges
   DEF Step, WorkerStep, Changes

-----------------------------------------------------------------------------
\* What a step may do to the runs

\* No run starts, ends or is bound, whatever becomes of its targets.
RunsAsWere ==
    /\ \A r \in Runs : /\ run'[r].state = run[r].state
                       /\ run'[r].worker = run[r].worker
                       /\ run'[r].bound = run[r].bound
                       /\ run'[r].body = run[r].body
                       /\ run'[r].targets = run[r].targets \/ StageStep \/ AttemptStep
    /\ policy'.body = policy.body
    /\ policy'.enabled => policy.enabled
    /\ revoked' = revoked

\* A run is inserted for a worker that has none going on.
Inserting ==
    /\ \E r \in Runs, w \in Workers \ revoked :
         MayStartRun(r, w) /\ run' = InsertedRun(r, w)
    /\ UNCHANGED <<policy, revoked>>

\* The policy's head moves, and no run is bound to it.
Unbinding ==
    /\ run' = Unbound
    /\ ~policy'.enabled
    /\ UNCHANGED revoked

RunsMay ==
    \/ RunsAsWere
    \/ Inserting
    \/ \E r \in Runs : PauseRun(r) \/ StopRun(r) \/ ResumeRun(r)
    \/ Unbinding
    \/ \E lost : EnablePolicy(lost)
    \/ RevokeStep

\* What any step does to the runs.
LEMMA RunsChange ==
    ASSUME StateOK, Step
    PROVE  RunsMay
<1>0. ASSUME run' = run, policy' = policy, revoked' = revoked
      PROVE  RunsMay
  BY <1>0 DEF RunsMay, RunsAsWere
<1>1. CASE WorkerStep
  <2>1. PICK w \in Workers : LeaseStep(w) \/ WorkStep(w)
    BY <1>1 DEF WorkerStep
  <2>2. CASE Poll(w)
    <3>1. /\ w \notin revoked /\ policy' = policy /\ revoked' = revoked
          /\ run' = run \/ \E r \in Runs : MayStartRun(r, w) /\ run' = InsertedRun(r, w)
      BY <2>2 DEF Poll, DailyStart
    <3> QED
      BY <1>0, <3>1 DEF RunsMay, Inserting
  <2>3. CASE ~Poll(w)
    <3>1. run' = run /\ policy' = policy /\ revoked' = revoked
      BY ZenonT(60), <2>1, <2>3 DEF LeaseStep, WorkStep, Heartbeat, LoseLease, RecordEvent,
         BeginSubmission, RecordReceipt
    <3> QED
      BY SMTT(60), <1>0, <3>1
  <2> QED
    BY <2>2, <2>3
<1>2. CASE QuestionStep \/ RemoveStep \/ DecideStep \/ ClockStep
  <2>1. run' = run /\ policy' = policy /\ revoked' = revoked
    BY <1>2 DEF QuestionStep, RegisterQuestions, AnswerQuestion, RemoveStep, Delete, Drop,
       EmergencyStop, MarkManual, DecideStep, RetrySafe, ApproveSubmit, ConfirmSubmitted,
       ConfirmNotSubmitted, ClockStep, Tick, ClockBack
  <2> QED
    BY <1>0, <2>1
<1>3. CASE RunStep
  <2>1. ASSUME NEW w \in Workers, NEW r \in Runs, CreateRun(w, r)
        PROVE  Inserting
    BY <2>1 DEF CreateRun, Inserting
  <2> QED
    BY <1>3, <2>1 DEF RunStep, RunsMay
<1>4. CASE StageStep
  <2>1. PICK r \in Runs, roles \in SUBSET Roles : StageRoles(r, roles)
    BY <1>4 DEF StageStep
  <2>2. PICK targets \in [Roles -> 0..MaxAttempt] : run' = [run EXCEPT ![r].targets = targets]
    BY <2>1 DEF StageRoles
  <2>3. policy' = policy /\ revoked' = revoked
    BY <2>1 DEF StageRoles
  <2>4. RunsAsWere
    BY <1>4, <2>2, <2>3 DEF RunsAsWere, StateOK, Run
  <2> QED
    BY <2>4 DEF RunsMay
<1>5. CASE AttemptStep
  <2>1. PICK r \in Runs, a \in Apps :
          \E row, n : Continue(r, a, row, n)
    BY <1>5 DEF AttemptStep, Reapply, RetryUnsubmitted, Restart
  <2>2. /\ run' = [run EXCEPT ![r].targets[RoleOf(a)] = AttemptOf(a) + 1]
        /\ policy' = policy /\ revoked' = revoked
    BY <2>1 DEF Continue
  <2>3. RunsAsWere
    BY <1>5, <2>2 DEF RunsAsWere, StateOK, Run
  <2> QED
    BY <2>3 DEF RunsMay
<1>6. CASE PolicyStep
  <2>1. CASE SaveProfile
    BY <1>0, <2>1 DEF SaveProfile
  <2>2. ASSUME NEW body \in Policies, SavePolicy(body)
        PROVE  Unbinding
    BY <2>2 DEF SavePolicy, Unbinding
  <2>3. CASE DisablePolicy
    BY <2>3 DEF DisablePolicy, Unbinding, RunsMay, StateOK
  <2>4. CASE ExpirePolicy
    BY <2>4 DEF ExpirePolicy, RunsAsWere, RunsMay, StateOK
  <2> QED
    BY <1>6, <2>1, <2>2, <2>3, <2>4 DEF PolicyStep, RunsMay
<1>7. CASE RevokeStep
  BY <1>7 DEF RunsMay
<1> QED
  BY <1>1, <1>2, <1>3, <1>4, <1>5, <1>6, <1>7 DEF Step

\* The run an enable leaves, field by field: carried and bound, ended, put in
\* place of an ended one, or left as it is.
LEMMA CarriedFields ==
    ASSUME StateOK, NEW r \in Runs, NEW replacement \in Replacements
    PROVE  LET next == CarriedRun(r, replacement) IN
           \/ /\ Carried(r)
              /\ next.state = run[r].state /\ next.worker = run[r].worker
              /\ next.bound /\ next.body = policy.body /\ next.targets = run[r].targets
           \/ /\ Ended(r)
              /\ next.state = "stopped" /\ next.worker = run[r].worker
              /\ ~next.bound /\ next.body = run[r].body /\ next.targets = run[r].targets
           \/ /\ run[r].state = "absent"
              /\ \E s \in Replaced : replacement[s] = r /\ next.worker = run[s].worker
              /\ next.state = "running" /\ next.bound /\ next.body = policy.body
           \/ /\ ~Live(r)
              /\ next.state = run[r].state /\ next.worker = run[r].worker
              /\ ~next.bound /\ next.body = run[r].body /\ next.targets = run[r].targets
<1>1. run[r] \in Run
  BY DEF StateOK
<1>2. CASE Carried(r)
  BY <1>1, <1>2 DEF CarriedRun, Run
<1>3. CASE Ended(r)
  <2>1. ~Carried(r)
    BY <1>3 DEF Carried, Ended
  <2> QED
    BY <1>1, <1>3, <2>1 DEF CarriedRun, Run
<1>4. CASE ~Carried(r) /\ ~Ended(r)
  <2>1. ~Live(r)
    BY <1>4 DEF Carried, Ended
  <2>2. CASE \E s \in DOMAIN replacement : replacement[s] = r
    <3>1. InPlaceOf(r, replacement) \in DOMAIN replacement
            /\ replacement[InPlaceOf(r, replacement)] = r
      BY <2>2 DEF InPlaceOf
    <3>2. DOMAIN replacement = Replaced
            /\ \A s \in Replaced : run[replacement[s]].state = "absent"
      BY DEF Replacements
    <3>3. CarriedRun(r, replacement) =
            [AbsentRun EXCEPT !.state = "running", !.bound = TRUE, !.body = policy.body,
               !.worker = run[InPlaceOf(r, replacement)].worker]
      BY <1>4, <2>2 DEF CarriedRun
    <3> QED
      BY <3>1, <3>2, <3>3 DEF AbsentRun
  <2>3. CASE ~ \E s \in DOMAIN replacement : replacement[s] = r
    BY <1>1, <1>4, <2>1, <2>3 DEF CarriedRun, Run
  <2> QED
    BY <2>2, <2>3
<1> QED
  BY <1>2, <1>3, <1>4

\* What a step leaves of a run that was made.
LEMMA MadeRunChanges ==
    ASSUME StateOK, RunsMay, NEW r \in Runs, run[r].state # "absent"
    PROVE  /\ run'[r].state # "absent"
           /\ run'[r].worker = run[r].worker
           /\ \/ /\ run'[r].body = run[r].body
                 /\ run'[r].bound => run[r].bound /\ policy'.body = policy.body
              \/ /\ \E lost : EnablePolicy(lost)
                 /\ run'[r].body = run[r].body \/ (Carried(r) /\ run'[r].body = policy.body)
           /\ \/ run'[r].state = "stopped" => run[r].state = "stopped"
              \/ StopRun(r)
              \/ /\ Ended(r)
                 /\ \E lost : EnablePolicy(lost)
           /\ run'[r].targets = run[r].targets \/ StageStep \/ AttemptStep
<1>1. run[r] \in Run /\ run \in [Runs -> Run]
  BY DEF StateOK
<1>2. CASE RunsAsWere
  BY <1>2 DEF RunsAsWere
<1>3. CASE Inserting
  <2>1. run'[r] = run[r] /\ policy' = policy
    BY <1>1, <1>3 DEF Inserting, MayStartRun, InsertedRun
  <2> QED
    BY <2>1
<1>4. ASSUME NEW s \in Runs, PauseRun(s) \/ StopRun(s) \/ ResumeRun(s)
      PROVE  /\ run'[r].state # "absent"
             /\ run'[r].worker = run[r].worker
             /\ run'[r].body = run[r].body
             /\ run'[r].bound = run[r].bound
             /\ run'[r].targets = run[r].targets
             /\ policy' = policy
             /\ (run'[r].state = "stopped" => run[r].state = "stopped") \/ StopRun(r)
  <2>1. /\ policy' = policy
        /\ \E state \in {"running", "paused", "stopped"} :
             /\ run' = [run EXCEPT ![s].state = state]
             /\ state = "stopped" => StopRun(s)
    BY <1>4 DEF PauseRun, StopRun, ResumeRun
  <2>2. PICK state \in {"running", "paused", "stopped"} :
          /\ run' = [run EXCEPT ![s].state = state]
          /\ state = "stopped" => StopRun(s)
    BY <2>1
  <2>3. CASE r = s
    BY <1>1, <2>1, <2>2, <2>3 DEF Run
  <2>4. CASE r # s
    <3>1. run'[r] = run[r]
      BY <1>1, <2>2, <2>4
    <3> QED
      BY <2>1, <3>1
  <2> QED
    BY <2>3, <2>4
<1>5. CASE Unbinding
  BY <1>1, <1>5 DEF Unbinding, Unbound, Run
<1>6. ASSUME NEW lost, EnablePolicy(lost)
      PROVE  /\ run'[r].state # "absent"
             /\ run'[r].worker = run[r].worker
             /\ run'[r].body = run[r].body \/ (Carried(r) /\ run'[r].body = policy.body)
             /\ (run'[r].state = "stopped" => run[r].state = "stopped") \/ Ended(r)
             /\ run'[r].targets = run[r].targets
  <2>1. PICK replacement \in Replacements : run'[r] = CarriedRun(r, replacement)
    BY <1>6 DEF EnablePolicy
  <2> DEFINE next == CarriedRun(r, replacement)
  <2>2. \/ /\ Carried(r)
           /\ next.state = run[r].state /\ next.worker = run[r].worker
           /\ next.body = policy.body /\ next.targets = run[r].targets
        \/ /\ Ended(r)
           /\ next.state = "stopped" /\ next.worker = run[r].worker
           /\ next.body = run[r].body /\ next.targets = run[r].targets
        \/ /\ next.state = run[r].state /\ next.worker = run[r].worker
           /\ next.body = run[r].body /\ next.targets = run[r].targets
    BY CarriedFields, Zenon
  <2> HIDE DEF next
  <2>3. run'[r] = next
    BY <2>1 DEF next
  <2> QED
    BY <2>2, <2>3
<1>7. CASE RevokeStep
  <2>1. /\ policy' = policy
        /\ run'[r] = run[r] \/ run'[r] = [run[r] EXCEPT !.state = "paused"]
    BY <1>1, <1>7 DEF RevokeStep, RevokeWorker
  <2> QED
    BY <1>1, <2>1 DEF Run
<1> QED
  BY <1>2, <1>3, <1>4, <1>5, <1>6, <1>7 DEF RunsMay


-----------------------------------------------------------------------------
\* What follows for the row, its run and its worker

\* A row keeps its run and stays made or not made, unless it starts.
LEMMA RowStays ==
    ASSUME StateOK, NEW a \in Apps, Changes(a), ~Starting(a)
    PROVE  /\ app'[a].run = app[a].run
           /\ app'[a].state = "absent" <=> app[a].state = "absent"
<1>1. app[a] \in Row
  BY DEF StateOK
<1>2. CASE ApproveSubmit(a)
  <2> DEFINE next == Settled(app[a], "ready", "system")
  <2>1. next \in Row
    BY <1>1, Names, SettledType
  <2>3. next.run = app[a].run /\ next.state = "ready"
    BY <1>1, Written
  <2>2. app'[a] = [next EXCEPT !.wait = 0] /\ app[a].state # "absent"
    BY <1>2 DEF ApproveSubmit, Present, StateOK
  <2> HIDE DEF next
  <2> QED
    BY <2>1, <2>2, <2>3 DEF Row
<1>3. CASE Beginning(a)
  <2>1. /\ app'[a].state = "submitting" /\ app'[a].run = app[a].run
        /\ app[a].state = "ready"
    BY <1>1, <1>3 DEF Beginning, BeginSubmission, StateOK, Row
  <2> QED
    BY <2>1
<1>4. CASE Parking(a) \/ Resolving(a)
  BY <1>4 DEF Parking, Resolving, Ambiguous, Awaiting, IsAwaitingApproval
<1> QED
  BY <1>2, <1>3, <1>4 DEF Changes, Kept, KeptState, Leasing, Aging

\* A row that starts is queued in a running run.
LEMMA RowStarts ==
    ASSUME NEW a \in Apps, Starting(a)
    PROVE  /\ app'[a].run \in Runs /\ run[app'[a].run].state = "running"
           /\ app'[a].state = "queued" /\ ~Leased(app'[a]) /\ app'[a].intent = NoIntent
           /\ ~Present(a) /\ RoleOf(a) \notin manual
BY DEF Starting, NewRow, Leased

\* The row goes on belonging to its worker.
LEMMA WorkerStays ==
    ASSUME StateOK, Placed, RunsMay, NEW a \in Apps, Changes(a), ~Starting(a)
    PROVE  WorkerOf(app[a])' = WorkerOf(app[a])
<1>1. app'[a].run = app[a].run
  BY RowStays
<1>2. CASE Present(a)
  <2>1. app[a].run \in Runs /\ run[app[a].run].state # "absent"
    BY <1>2 DEF Placed
  <2>2. run'[app[a].run].worker = run[app[a].run].worker
    BY <2>1, MadeRunChanges
  <2> QED
    BY <1>1, <2>2 DEF WorkerOf
<1>3. CASE ~Present(a)
  <2>1. app[a].run = NoRun
    BY <1>3 DEF Placed, StateOK, Row
  <2> QED
    BY <1>1, <2>1 DEF WorkerOf
<1> QED
  BY <1>2, <1>3

\* An attempt that was made stays in a run that was.
LEMMA PlacedKept ==
    ASSUME StateOK, Placed, RunsMay, \A a \in Apps : Changes(a)
    PROVE  Placed'
<1>1. ASSUME NEW a \in Apps
      PROVE  /\ app'[a].run \in Runs <=> app'[a].state # "absent"
             /\ app'[a].state # "absent" => run'[app'[a].run].state # "absent"
  <2>1. CASE Starting(a)
    <3>1. /\ app'[a].run \in Runs /\ run[app'[a].run].state # "absent"
          /\ app'[a].state # "absent"
      BY <2>1, RowStarts
    <3>2. run'[app'[a].run].state # "absent"
      BY <3>1, MadeRunChanges
    <3> QED
      BY <3>1, <3>2
  <2>2. CASE ~Starting(a)
    <3>1. app'[a].run = app[a].run /\ (app'[a].state = "absent" <=> app[a].state = "absent")
      BY <2>2, RowStays
    <3>2. app[a].state # "absent" => run'[app[a].run].state # "absent"
      BY MadeRunChanges DEF Placed, Present
    <3> QED
      BY <3>1, <3>2 DEF Placed, Present
  <2> QED
    BY <2>1, <2>2
<1> QED
  BY <1>1 DEF Placed, Present

\* A run is bound to the policy that stands, and while one is enabled every
\* run that may go on is.
LEMMA BoundKept ==
    ASSUME StateOK, BoundToHead, EnabledBindsRuns, RunsMay
    PROVE  BoundToHead' /\ EnabledBindsRuns'
<1>1. run \in [Runs -> Run]
  BY DEF StateOK
<1>2. CASE RunsAsWere
  BY <1>2 DEF RunsAsWere, BoundToHead, EnabledBindsRuns, Live
<1>3. CASE Inserting
  <2>1. PICK r \in Runs, w \in Workers \ revoked :
          MayStartRun(r, w) /\ run' = InsertedRun(r, w)
    BY <1>3 DEF Inserting
  <2>2. /\ run'[r].bound /\ run'[r].body = policy.body /\ policy' = policy
        /\ \A s \in Runs \ {r} : run'[s] = run[s]
    BY <1>1, <1>3, <2>1 DEF Inserting, InsertedRun
  <2> QED
    BY <2>2 DEF BoundToHead, EnabledBindsRuns, Live
<1>4. ASSUME NEW s \in Runs, PauseRun(s) \/ StopRun(s) \/ ResumeRun(s)
      PROVE  BoundToHead' /\ EnabledBindsRuns'
  <2>1. /\ policy' = policy /\ Live(s)
        /\ \E state \in {"running", "paused", "stopped"} :
             run' = [run EXCEPT ![s].state = state]
    BY <1>4 DEF PauseRun, StopRun, ResumeRun, Live
  <2>2. /\ \A r \in Runs : /\ run'[r].bound = run[r].bound
                           /\ run'[r].body = run[r].body
        /\ \A r \in Runs \ {s} : run'[r].state = run[r].state
    BY <1>1, <2>1 DEF Run
  <2> QED
    BY <2>1, <2>2 DEF BoundToHead, EnabledBindsRuns, Live
<1>5. CASE Unbinding
  BY <1>1, <1>5 DEF Unbinding, Unbound, Run, BoundToHead, EnabledBindsRuns
<1>6. ASSUME NEW lost, EnablePolicy(lost)
      PROVE  BoundToHead' /\ EnabledBindsRuns'
  <2>1. PICK replacement \in Replacements :
          \A r \in Runs : run'[r] = CarriedRun(r, replacement)
    BY <1>6 DEF EnablePolicy
  <2>2. policy'.body = policy.body
    BY <1>6 DEF EnablePolicy, StateOK
  <2>3. ASSUME NEW r \in Runs
        PROVE  /\ run'[r].bound => run'[r].body = policy'.body
               /\ run'[r].state \in {"running", "paused"} => run'[r].bound
    <3> DEFINE next == CarriedRun(r, replacement)
    <3>1. \/ next.bound /\ next.body = policy.body
          \/ ~next.bound /\ next.state = "stopped"
          \/ ~next.bound /\ next.state = run[r].state /\ ~Live(r)
      BY CarriedFields, Zenon
    <3>2. run'[r] = next
      BY <2>1
    <3> HIDE DEF next
    <3> QED
      BY <2>2, <3>1, <3>2 DEF Live
  <2> QED
    BY <2>3 DEF BoundToHead, EnabledBindsRuns, Live
<1>7. CASE RevokeStep
  <2>1. /\ policy' = policy
        /\ \A r \in Runs : \/ run'[r] = run[r]
                           \/ /\ run[r].state = "running"
                              /\ run'[r] = [run[r] EXCEPT !.state = "paused"]
    BY <1>7 DEF RevokeStep, RevokeWorker
  <2>2. ASSUME NEW r \in Runs
        PROVE  /\ run'[r].bound = run[r].bound
               /\ run'[r].body = run[r].body
               /\ run'[r].state \in {"running", "paused"} => Live(r)
    <3>1. CASE run'[r] = run[r]
      BY <3>1 DEF Live
    <3>2. CASE run[r].state = "running" /\ run'[r] = [run[r] EXCEPT !.state = "paused"]
      BY <1>1, <3>2 DEF Run, Live
    <3> QED
      BY <2>1, <3>1, <3>2
  <2> QED
    BY <2>1, <2>2 DEF BoundToHead, EnabledBindsRuns, Live
<1> QED
  BY <1>2, <1>3, <1>4, <1>5, <1>6, <1>7 DEF RunsMay

\* A lease, or a submission under way, was there before the step, unless a poll
\* or an intent of a worker that is not revoked made it.
LEMMA HeldBefore ==
    ASSUME StateOK, NEW a \in Apps, Changes(a),
           Leased(app'[a]) \/ app'[a].state = "submitting"
    PROVE  /\ ~Starting(a)
           /\ \/ Leased(app[a]) \/ app[a].state = "submitting"
              \/ Leasing(a)
<1>1. app[a] \in Row
  BY DEF StateOK
<1>2. ~Starting(a)
  BY RowStarts
<1>3. CASE Kept(app[a], app'[a]) \/ Aging(a)
  <2>1. KeptState(app[a], app'[a]) /\ (Leased(app'[a]) => Leased(app[a]))
    BY <1>3 DEF Kept, Aging
  <2> QED
    BY <1>2, <2>1 DEF KeptState, Ambiguous
<1>4. CASE Parking(a) \/ Resolving(a)
  BY <1>4 DEF Parking, Resolving, Awaiting, IsAwaitingApproval
<1>5. CASE ApproveSubmit(a)
  <2> DEFINE next == Settled(app[a], "ready", "system")
  <2>1. next \in Row
    BY <1>1, Names, SettledType
  <2>2. next.lease = NoLease /\ next.state = "ready"
    BY <1>1, Written
  <2>3. app'[a] = [next EXCEPT !.wait = 0]
    BY <1>5 DEF ApproveSubmit, StateOK
  <2> HIDE DEF next
  <2> QED
    BY <2>1, <2>2, <2>3 DEF Row, Leased
<1>6. CASE Beginning(a)
  BY <1>2, <1>6 DEF Beginning, BeginSubmission, Checked, Matches
<1> QED
  BY <1>2, <1>3, <1>4, <1>5, <1>6 DEF Changes

\* A worker that is revoked runs and holds nothing, then as before.
LEMMA RevokedKept ==
    ASSUME StateOK, Placed, RunsMay, \A a \in Apps : Changes(a), RevokedHoldsNothing
    PROVE  RevokedHoldsNothing'
<1>1. run \in [Runs -> Run]
  BY DEF StateOK
<1>2. CASE RevokeStep
  <2>1. PICK w \in Workers : RevokeWorker(w)
    BY <1>2 DEF RevokeStep
  <2>2. revoked' = revoked \union {w}
    BY <2>1 DEF RevokeWorker
  <2>3. ASSUME NEW r \in Runs, run'[r].worker \in revoked'
        PROVE  run'[r].state # "running"
    <3>1. CASE run[r].worker = w /\ run[r].state = "running"
      <4>1. run'[r] = [run[r] EXCEPT !.state = "paused"]
        BY <2>1, <3>1 DEF RevokeWorker
      <4> QED
        BY <1>1, <4>1 DEF Run
    <3>2. CASE ~(run[r].worker = w /\ run[r].state = "running")
      <4>1. run'[r] = run[r]
        BY <2>1, <3>2 DEF RevokeWorker
      <4> QED
        BY <2>2, <2>3, <3>2, <4>1 DEF RevokedHoldsNothing
    <3> QED
      BY <3>1, <3>2
  <2>4. ASSUME NEW a \in Apps, WorkerOf(app[a])' \in revoked'
        PROVE  ~Leased(app'[a]) /\ app'[a].state # "submitting"
    <3>0. CASE Starting(a)
      BY <3>0, RowStarts
    <3>1. ~Starting(a) => WorkerOf(app[a])' = WorkerOf(app[a])
      BY WorkerStays
    <3>2. CASE WorkerOf(app[a]) = w /\ (Leased(app[a]) \/ app[a].state = "submitting")
      <4>1. app'[a] = Released(app[a], "system")
        BY <2>1, <3>2 DEF RevokeWorker
      <4>2. /\ Released(app[a], "system").lease = NoLease
            /\ Released(app[a], "system").state # "submitting"
        BY Written DEF StateOK
      <4> QED
        BY <4>1, <4>2 DEF Leased
    <3>3. CASE /\ ~Starting(a)
               /\ ~(WorkerOf(app[a]) = w /\ (Leased(app[a]) \/ app[a].state = "submitting"))
      <4>1. app'[a] = app[a]
        BY <2>1, <3>3 DEF RevokeWorker
      <4> QED
        BY <2>2, <2>4, <3>1, <3>3, <4>1 DEF RevokedHoldsNothing
    <3> QED
      BY <3>0, <3>2, <3>3
  <2> QED
    BY <2>3, <2>4 DEF RevokedHoldsNothing, Leased, WorkerOf
<1>3. ASSUME revoked' = revoked
      PROVE  \A a \in Apps : WorkerOf(app[a])' \in revoked' =>
               ~Leased(app'[a]) /\ app'[a].state # "submitting"
  <2>1. ASSUME NEW a \in Apps, Leased(app'[a]) \/ app'[a].state = "submitting"
        PROVE  WorkerOf(app[a])' \notin revoked
    <3>1. ~Starting(a)
      BY <2>1, HeldBefore
    <3>2. WorkerOf(app[a])' = WorkerOf(app[a])
      BY <3>1, WorkerStays
    <3>3. Leased(app[a]) \/ app[a].state = "submitting" \/ WorkerOf(app[a]) \notin revoked
      BY <2>1, HeldBefore DEF Leasing
    <3> QED
      BY <3>2, <3>3 DEF RevokedHoldsNothing
  <2> QED
    BY <1>3, <2>1
<1>4. ASSUME revoked' = revoked,
             \A r \in Runs : run'[r].worker \in revoked => run'[r].state # "running"
      PROVE  RevokedHoldsNothing'
  BY <1>3, <1>4 DEF RevokedHoldsNothing, Leased, WorkerOf
<1>5. CASE RunsAsWere
  BY <1>4, <1>5 DEF RunsAsWere, RevokedHoldsNothing
<1>6. CASE Inserting
  <2>1. PICK r \in Runs, w \in Workers \ revoked :
          MayStartRun(r, w) /\ run' = InsertedRun(r, w)
    BY <1>6 DEF Inserting
  <2>2. /\ run'[r].worker = w /\ revoked' = revoked
        /\ \A s \in Runs \ {r} : run'[s] = run[s]
    BY <1>1, <1>6, <2>1 DEF Inserting, InsertedRun
  <2> QED
    BY <1>4, <2>2 DEF RevokedHoldsNothing
<1>7. ASSUME NEW s \in Runs, PauseRun(s) \/ StopRun(s) \/ ResumeRun(s)
      PROVE  RevokedHoldsNothing'
  <2>1. PICK state \in {"running", "paused", "stopped"} :
          /\ run' = [run EXCEPT ![s].state = state]
          /\ state = "running" => run[s].worker \notin revoked
    BY <1>7 DEF PauseRun, StopRun, ResumeRun
  <2>2. /\ \A r \in Runs : run'[r].worker = run[r].worker
        /\ \A r \in Runs \ {s} : run'[r].state = run[r].state
        /\ run'[s].state = state
    BY <1>1, <2>1 DEF Run
  <2>3. revoked' = revoked
    BY <1>7 DEF PauseRun, StopRun, ResumeRun
  <2> QED
    BY <1>4, <2>1, <2>2, <2>3 DEF RevokedHoldsNothing
<1>8. CASE Unbinding
  <2>1. \A r \in Runs : run'[r].worker = run[r].worker /\ run'[r].state = run[r].state
    BY <1>1, <1>8 DEF Unbinding, Unbound, Run
  <2> QED
    BY <1>4, <1>8, <2>1 DEF Unbinding, RevokedHoldsNothing
<1>9. ASSUME NEW lost, EnablePolicy(lost)
      PROVE  RevokedHoldsNothing'
  <2>1. PICK replacement \in Replacements :
          \A r \in Runs : run'[r] = CarriedRun(r, replacement)
    BY <1>9 DEF EnablePolicy
  <2>2. ASSUME NEW r \in Runs, run'[r].state = "running"
        PROVE  run'[r].worker \notin revoked
    <3> DEFINE next == CarriedRun(r, replacement)
    <3>1. \/ next.state = run[r].state /\ next.worker = run[r].worker
          \/ next.state = "stopped"
          \/ \E s \in Replaced : next.worker = run[s].worker
      BY CarriedFields, Zenon
    <3>2. run'[r] = next
      BY <2>1
    <3> HIDE DEF next
    <3> QED
      BY <2>2, <3>1, <3>2 DEF Replaced, RevokedHoldsNothing
  <2>3. revoked' = revoked
    BY <1>9 DEF EnablePolicy
  <2> QED
    BY <1>4, <2>2, <2>3
<1> QED
  BY <1>2, <1>5, <1>6, <1>7, <1>8, <1>9 DEF RunsMay

\* A worker has one running run, then as before.
LEMMA OneRunKept ==
    ASSUME StateOK, EnabledBindsRuns, OneRunningRun, RunsMay
    PROVE  OneRunningRun'
<1>1. run \in [Runs -> Run]
  BY DEF StateOK
<1>2. ASSUME \A r \in Runs : run'[r].state = "running" =>
               run[r].state = "running" /\ run'[r].worker = run[r].worker
      PROVE  OneRunningRun'
  BY <1>2 DEF OneRunningRun
<1>3. CASE RunsAsWere
  BY <1>2, <1>3 DEF RunsAsWere
<1>4. CASE Inserting
  <2>1. PICK r \in Runs, w \in Workers \ revoked :
          MayStartRun(r, w) /\ run' = InsertedRun(r, w)
    BY <1>4 DEF Inserting
  <2>2. /\ run'[r].worker = w
        /\ \A s \in Runs \ {r} : run'[s] = run[s]
        /\ \A s \in Runs : run[s].state = "running" => run[s].worker # w
    BY <1>1, <2>1 DEF InsertedRun, MayStartRun
  <2> QED
    BY <2>2 DEF OneRunningRun
<1>5. ASSUME NEW s \in Runs, PauseRun(s) \/ StopRun(s) \/ ResumeRun(s)
      PROVE  OneRunningRun'
  <2>1. PICK state \in {"running", "paused", "stopped"} :
          /\ run' = [run EXCEPT ![s].state = state]
          /\ state = "running" => ResumeRun(s)
    BY <1>5 DEF PauseRun, StopRun, ResumeRun
  <2>2. /\ \A r \in Runs : run'[r].worker = run[r].worker
        /\ \A r \in Runs \ {s} : run'[r].state = run[r].state
        /\ run'[s].state = state
    BY <1>1, <2>1 DEF Run
  <2>3. ResumeRun(s) => \A r \in Runs : run[r].state = "running" => run[r].worker # run[s].worker
    BY DEF ResumeRun, EnabledBindsRuns, Live
  <2> QED
    BY <2>1, <2>2, <2>3 DEF OneRunningRun
<1>6. CASE Unbinding
  BY <1>1, <1>2, <1>6 DEF Unbinding, Unbound, Run
<1>7. ASSUME NEW lost, EnablePolicy(lost)
      PROVE  OneRunningRun'
  <2>1. PICK replacement \in Replacements :
          \A r \in Runs : run'[r] = CarriedRun(r, replacement)
    BY <1>7 DEF EnablePolicy
  <2>2. ASSUME NEW r \in Runs, run'[r].state = "running"
        PROVE  \/ /\ Carried(r) /\ run[r].state = "running" /\ run'[r].worker = run[r].worker
               \/ \E s \in Replaced : replacement[s] = r /\ run'[r].worker = run[s].worker
    <3> DEFINE next == CarriedRun(r, replacement)
    <3>1. \/ Carried(r) /\ next.state = run[r].state /\ next.worker = run[r].worker
          \/ next.state = "stopped"
          \/ \E s \in Replaced : replacement[s] = r /\ next.worker = run[s].worker
          \/ ~Live(r) /\ next.state = run[r].state
      BY CarriedFields, Zenon
    <3>2. run'[r] = next
      BY <2>1
    <3> HIDE DEF next
    <3> QED
      BY <2>2, <3>1, <3>2 DEF Live
  <2>3. \A r, s \in Replaced : replacement[r] = replacement[s] => r = s
    BY DEF Replacements
  <2>4. \A s \in Replaced : s \in Runs /\ run[s].state = "running" /\ ~Carried(s)
    BY DEF Replaced, Ended, Carried
  <2>5. ASSUME NEW r \in Runs, NEW s \in Runs, run'[r].state = "running",
               run'[s].state = "running", run'[r].worker = run'[s].worker
        PROVE  r = s
    BY <2>2, <2>3, <2>4, <2>5 DEF OneRunningRun
  <2> QED
    BY <2>5 DEF OneRunningRun
<1>8. CASE RevokeStep
  <2>1. \A r \in Runs : run'[r] = run[r] \/ run'[r] = [run[r] EXCEPT !.state = "paused"]
    BY <1>8 DEF RevokeStep, RevokeWorker
  <2>2. \A r \in Runs : [run[r] EXCEPT !.state = "paused"].state = "paused"
    BY <1>1 DEF Run
  <2>3. \A r \in Runs : run'[r] = run[r] \/ run'[r].state = "paused"
    BY <2>1, <2>2
  <2> QED
    BY <1>2, <2>3
<1> QED
  BY <1>3, <1>4, <1>5, <1>6, <1>7, <1>8 DEF RunsMay

\* What is over stays over.
LEMMA OverStays ==
    ASSUME StateOK, NEW a \in Apps, Changes(a), Over(app[a])
    PROVE  Over(app'[a])
<1>1. /\ app[a].state \notin {"absent", "filling", "ready", "needs_policy_decision"}
      /\ app[a].state \in Terminal \union {"submission_unknown"}
  BY DEF Over, Terminal
<1>2. ~Starting(a) /\ ~Parking(a) /\ ~ApproveSubmit(a) /\ ~Beginning(a)
  BY <1>1 DEF Starting, Present, Parking, ApproveSubmit, IsAwaitingApproval, Beginning,
     BeginSubmission
<1>3. CASE Resolving(a)
  BY <1>3 DEF Resolving, Over, Terminal
<1>4. CASE KeptState(app[a], app'[a])
  BY <1>1, <1>4 DEF KeptState, Over
<1> QED
  BY <1>2, <1>3, <1>4 DEF Changes, Kept, Leasing, Aging

\* Only the applicant's word makes a role one applied to by hand.
LEMMA ManualChanges ==
    ASSUME Step
    PROVE  manual' = manual \/ \E role \in Roles : MarkManual(role)
<1>1. CASE WorkerStep
  BY ZenonT(60), <1>1 DEF WorkerStep, LeaseStep, WorkStep, Poll, Heartbeat, LoseLease, RecordEvent,
     BeginSubmission, RecordReceipt
<1>2. CASE QuestionStep \/ RunStep \/ DecideStep \/ ClockStep \/ RevokeStep
  BY <1>2 DEF QuestionStep, RegisterQuestions, AnswerQuestion, RunStep, CreateRun, PauseRun,
     StopRun, ResumeRun, DecideStep, RetrySafe, ApproveSubmit, ConfirmSubmitted,
     ConfirmNotSubmitted, ClockStep, Tick, ClockBack, RevokeStep, RevokeWorker
<1>3. CASE StageStep \/ AttemptStep
  BY ZenonT(60), <1>3 DEF StageStep, StageRoles, AttemptStep, Reapply, RetryUnsubmitted, Restart, Continue
<1>4. CASE RemoveStep
  BY <1>4 DEF RemoveStep, Delete, Drop, EmergencyStop
<1>5. CASE PolicyStep
  BY <1>5 DEF PolicyStep, SaveProfile, SavePolicy, DisablePolicy, ExpirePolicy, EnablePolicy
<1> QED
  BY SMTT(60), <1>1, <1>2, <1>3, <1>4, <1>5 DEF Step

\* A run that stops, and a role applied to by hand, leave no work under way.
LEMMA EndsWork ==
    ASSUME StateOK, Placed, Step, RunsMay, NEW a \in Apps, Present(a)
    PROVE  /\ /\ run[app[a].run].state # "stopped"
              /\ run'[app[a].run].state = "stopped"
              => Over(app'[a])
           /\ RoleOf(a) \in manual' \ manual => Over(app'[a])
<1> DEFINE r == app[a].run
<1>1. app[a] \in Row /\ r \in Runs /\ run[r].state # "absent"
  BY DEF StateOK, Placed
<1>2. ASSUME NEW why \in Reasons
      PROVE  /\ Released(app[a], why) \in Row
             /\ Released(app[a], why).state =
                  IF app[a].state = "submitting" THEN "submission_unknown" ELSE app[a].state
             /\ \A state : [Released(app[a], why) EXCEPT !.state = state].state = state
  <2>1. Released(app[a], why) \in Row
    BY <1>1, ReleasedType
  <2>2. \A row \in Row : \A state : [row EXCEPT !.state = state].state = state
    BY DEF Row
  <2>3. Released(app[a], why).state =
          IF app[a].state = "submitting" THEN "submission_unknown" ELSE app[a].state
    BY <1>1, Written
  <2> QED
    BY <2>1, <2>2, <2>3
<1>3. ASSUME run[r].state # "stopped", run'[r].state = "stopped"
      PROVE  Over(app'[a])
  <2>1. CASE StopRun(r)
    <3> DEFINE released == Released(app[a], "run_stopped")
    <3>1. app'[a] = RowAfterRun(app[a], r, "run_stopped")
      BY <2>1 DEF StopRun
    <3>2. app'[a] = IF app[a].state \in Terminal THEN app[a]
                    ELSE IF released.state # "submission_unknown"
                    THEN [released EXCEPT !.state = "cancelled"] ELSE released
      BY <3>1 DEF RowAfterRun
    <3>3. [released EXCEPT !.state = "cancelled"].state = "cancelled"
      BY <1>2, Names
    <3> HIDE DEF released
    <3> QED
      BY <3>2, <3>3 DEF Over, Terminal
  <2>2. ASSUME NEW lost, EnablePolicy(lost), Ended(r)
        PROVE  Over(app'[a])
    <3>1. app'[a] = CarriedRow(a, a \in lost)
      BY <2>2 DEF EnablePolicy
    <3> QED
      BY <1>1, <2>2, <3>1, CarriedRowKept
  <2> QED
    BY <1>1, <1>3, <2>1, <2>2, MadeRunChanges
<1>4. ASSUME RoleOf(a) \in manual', RoleOf(a) \notin manual
      PROVE  Over(app'[a])
  <2> DEFINE released == Released(app[a], "system")
  <2>1. PICK role \in Roles : MarkManual(role)
    BY <1>4, ManualChanges
  <2>2. RoleOf(a) = role
    BY <1>4, <2>1 DEF MarkManual
  <2>3. app'[a] = IF app[a].state \in Terminal \union {"absent", "submission_unknown"}
                  THEN app[a]
                  ELSE IF released.state = "submission_unknown" THEN released
                  ELSE [released EXCEPT !.state = "skipped"]
    BY <2>1, <2>2 DEF MarkManual
  <2>4. [released EXCEPT !.state = "skipped"].state = "skipped"
    BY <1>2, Names
  <2> HIDE DEF released
  <2> QED
    BY <2>3, <2>4 DEF Over, Terminal, Present
<1> QED
  BY <1>3, <1>4

\* Work under a stopped run, or at a role applied to by hand, is over.
LEMMA EndedKept ==
    ASSUME StateOK, Placed, Step, RunsMay, \A a \in Apps : Changes(a), EndedWorkIsOver
    PROVE  EndedWorkIsOver'
<1>1. ASSUME NEW a \in Apps, Starting(a)
      PROVE  run'[app'[a].run].state # "stopped" /\ RoleOf(a) \notin manual'
  <2>1. /\ app'[a].run \in Runs /\ run[app'[a].run].state = "running"
        /\ RoleOf(a) \notin manual
    BY <1>1, RowStarts
  <2>2. manual' = manual
    BY ZenonT(60), <1>1 DEF Starting, StageStep, StageRoles, AttemptStep, Reapply, RetryUnsubmitted,
       Restart, Continue
  <2>3. run'[app'[a].run].state = run[app'[a].run].state
    <3>1. StageStep \/ AttemptStep
      BY <1>1 DEF Starting
    <3>2. PICK r \in Runs : \E targets : run' = [run EXCEPT ![r].targets = targets]
      <4>1. CASE StageStep
        BY <4>1 DEF StageStep, StageRoles
      <4>2. CASE AttemptStep
        <5>1. PICK r \in Runs, b \in Apps : \E row, n : Continue(r, b, row, n)
          BY <4>2 DEF AttemptStep, Reapply, RetryUnsubmitted, Restart
        <5>2. run' = [run EXCEPT ![r].targets =
                        [run[r].targets EXCEPT ![RoleOf(b)] = AttemptOf(b) + 1]]
          BY <5>1 DEF Continue, StateOK, Run
        <5> QED
          BY <5>2
      <4> QED
        BY <3>1, <4>1, <4>2
    <3>3. run \in [Runs -> Run]
      BY DEF StateOK
    <3> QED
      BY <2>1, <3>2, <3>3 DEF Run
  <2> QED
    BY <2>1, <2>2, <2>3
<1>2. ASSUME NEW a \in Apps, ~Starting(a), app'[a].state # "absent",
             run'[app'[a].run].state = "stopped" \/ RoleOf(a) \in manual'
      PROVE  Over(app'[a])
  <2>1. Present(a) /\ app'[a].run = app[a].run
    BY <1>2, RowStays DEF Present
  <2>2. CASE Over(app[a])
    BY <2>2, OverStays
  <2>3. CASE ~Over(app[a])
    <3>1. run[app[a].run].state # "stopped" /\ RoleOf(a) \notin manual
      BY <2>1, <2>3 DEF EndedWorkIsOver, Over
    <3> QED
      BY <1>2, <2>1, <3>1, EndsWork
  <2> QED
    BY <2>2, <2>3
<1> QED
  BY <1>1, <1>2 DEF EndedWorkIsOver, Over, Present

-----------------------------------------------------------------------------
\* What the applicant was shown, and approved

\* A form shown after the step was shown before it, unless it is parked or
\* approved by the step.
LEMMA ShownBefore ==
    ASSUME StateOK, NEW a \in Apps, Changes(a), Shown(app'[a])
    PROVE  \/ Parking(a)
           \/ ApproveSubmit(a)
           \/ /\ KeptState(app[a], app'[a])
              /\ Shown(app[a])
              /\ app'[a].asked = app[a].asked
<1>1. app'[a].state \in {"ready", "needs_policy_decision"}
  BY DEF Shown, Awaiting, IsAwaitingApproval
<1>2. ~Starting(a) /\ ~Resolving(a)
  BY <1>1, RowStarts DEF Resolving
<1>3. ~Beginning(a)
  <2>1. Beginning(a) => app'[a].state = "submitting"
    BY DEF Beginning, BeginSubmission, StateOK, Row
  <2> QED
    BY <1>1, <2>1
<1>4. KeptState(app[a], app'[a]) => Shown(app[a]) /\ app'[a].asked = app[a].asked
  BY DEF KeptState, Shown
<1> QED
  BY <1>2, <1>3, <1>4 DEF Changes, Kept, Leasing, Aging

\* The review a step leaves of a form that was shown before: the same, approved
\* when the step made the row ready.
LEMMA ReviewAfter ==
    ASSUME PlaneTypeOK, Observe, NEW a \in Apps, Shown(app[a]), Shown(app'[a])
    PROVE  /\ reviewed'[a].form = reviewed[a].form
           /\ reviewed'[a].asked = reviewed[a].asked
           /\ app'[a].state = "ready" =>
                IF app[a].state = "ready" THEN reviewed'[a].approved = reviewed[a].approved
                ELSE reviewed'[a].approved
<1>1. /\ app[a].state \in {"ready", "needs_policy_decision"}
      /\ app'[a].state \in {"ready", "needs_policy_decision"}
  BY DEF Shown, Awaiting, IsAwaitingApproval
<1>2. reviewed[a] \in Review
  BY DEF PlaneTypeOK
<1>3. reviewed'[a] =
        IF app[a].state # app'[a].state
        THEN [reviewed[a] EXCEPT !.approved = app'[a].state = "ready"]
        ELSE reviewed[a]
  BY <1>1 DEF Observe, Observed
<1>4. CASE app[a].state # app'[a].state
  BY <1>1, <1>2, <1>3, <1>4 DEF Review
<1>5. CASE app[a].state = app'[a].state
  BY <1>3, <1>5
<1> QED
  BY <1>4, <1>5

\* The applicant's approval, field by field.
LEMMA ApprovedFields ==
    ASSUME StateOK, NEW a \in Apps, ApproveSubmit(a)
    PROVE  /\ app'[a].state = "ready" /\ app'[a].run = app[a].run
           /\ app'[a].asked = app[a].asked /\ app'[a].intent = app[a].intent
           /\ ~Leased(app'[a])
           /\ Shown(app[a]) /\ app[a].state # "ready"
<1> DEFINE next == Settled(app[a], "ready", "system")
<1>1. app[a] \in Row
  BY DEF StateOK
<1>2. next \in Row
  BY <1>1, Names, SettledType
<1>3. /\ next.run = app[a].run /\ next.state = "ready" /\ next.asked = app[a].asked
      /\ next.intent = app[a].intent /\ next.lease = NoLease
  BY <1>1, Written
<1>4. app'[a] = [next EXCEPT !.wait = 0]
  BY DEF ApproveSubmit, StateOK
<1> HIDE DEF next
<1>5. Shown(app[a]) /\ app[a].state # "ready"
  BY DEF ApproveSubmit, Shown, Awaiting, IsAwaitingApproval
<1> QED
  BY <1>2, <1>3, <1>4, <1>5 DEF Row, Leased

\* The form shown stays the one of the row's run.
LEMMA FormStays ==
    ASSUME StateOK, Placed, RunsMay, NEW a \in Apps, KeptState(app[a], app'[a]),
           Shown(app[a]), Shown(app'[a])
    PROVE  run'[app'[a].run].body.form = run[app[a].run].body.form
<1> DEFINE r == app[a].run
<1>1. app'[a].run = r
  BY DEF KeptState
<1>2. r \in Runs /\ run[r].state # "absent" /\ app[a] \in Row
  BY DEF Placed, Present, Shown, Awaiting, IsAwaitingApproval, StateOK
<1>3. CASE run'[r].body = run[r].body
  BY <1>1, <1>3
<1>4. ASSUME NEW lost, EnablePolicy(lost), Carried(r), run'[r].body = policy.body
      PROVE  run'[r].body.form = run[r].body.form
  <2>1. app'[a] = CarriedRow(a, a \in lost)
    BY <1>4 DEF EnablePolicy
  <2>2. ~Refilled(r)
    BY <1>2, <2>1, CarriedRowKept
  <2> QED
    BY <1>4, <2>2 DEF Refilled
<1> QED
  BY <1>1, <1>2, <1>3, <1>4, MadeRunChanges

\* What the applicant was shown is what the row's run would fill.
LEMMA ReviewKept ==
    ASSUME PlaneTypeOK, StateOK, Placed, BoundToHead, RunsMay, \A a \in Apps : Changes(a),
           Observe, ReviewStands
    PROVE  ReviewStands'
<1>1. ASSUME NEW a \in Apps, Shown(app'[a])
      PROVE  /\ reviewed'[a].form = run'[app'[a].run].body.form
             /\ reviewed'[a].asked = app'[a].asked
  <2>1. CASE Parking(a)
    <3>1. /\ app[a].state = "filling"
          /\ app'[a].state = "needs_policy_decision"
          /\ IsAwaitingApproval(app'[a].state, app'[a].reason)
          /\ app'[a].run = app[a].run /\ run' = run
      BY <2>1 DEF Parking, Awaiting, IsAwaitingApproval
    <3>2. reviewed'[a] = [form |-> policy.body.form, profile |-> profile,
                          asked |-> app'[a].asked, approved |-> FALSE]
      BY <3>1 DEF Observe, Observed
    <3>3. run[app[a].run].bound /\ app[a].run \in Runs
      BY <2>1, <3>1 DEF Parking, LiveRun, Placed, Present
    <3>4. run[app[a].run].body = policy.body
      BY <3>3 DEF BoundToHead
    <3> QED
      BY <3>1, <3>2, <3>4
  <2>2. CASE ApproveSubmit(a)
    <3>1. /\ Shown(app[a]) /\ app'[a].run = app[a].run /\ app'[a].asked = app[a].asked
      BY <2>2, ApprovedFields
    <3>2. run' = run
      BY <2>2 DEF ApproveSubmit
    <3>3. /\ reviewed[a].form = run[app[a].run].body.form
          /\ reviewed[a].asked = app[a].asked
      BY <3>1 DEF ReviewStands
    <3>4. reviewed'[a].form = reviewed[a].form /\ reviewed'[a].asked = reviewed[a].asked
      BY <1>1, <3>1, ReviewAfter
    <3> QED
      BY <3>1, <3>2, <3>3, <3>4
  <2>3. CASE KeptState(app[a], app'[a]) /\ Shown(app[a]) /\ app'[a].asked = app[a].asked
    <3>1. run'[app'[a].run].body.form = run[app[a].run].body.form
      BY <1>1, <2>3, FormStays
    <3>2. /\ reviewed[a].form = run[app[a].run].body.form
          /\ reviewed[a].asked = app[a].asked
      BY <2>3 DEF ReviewStands
    <3>3. reviewed'[a].form = reviewed[a].form /\ reviewed'[a].asked = reviewed[a].asked
      BY <1>1, <2>3, ReviewAfter
    <3> QED
      BY <2>3, <3>1, <3>2, <3>3
  <2> QED
    BY <1>1, <2>1, <2>2, <2>3, ShownBefore
<1> QED
  BY <1>1 DEF ReviewStands, Shown, Awaiting

\* A row that is ready was approved, and under the head may be submitted.
LEMMA ApprovalKept ==
    ASSUME PlaneTypeOK, StateOK, Placed, RunsMay, \A a \in Apps : Changes(a), Observe,
           ApprovalStands
    PROVE  ApprovalStands'
<1>1. ASSUME NEW a \in Apps, app'[a].state = "ready"
      PROVE  /\ reviewed'[a].approved
             /\ run'[app'[a].run].bound => "submit" \in policy'.body.actions
  <2>0. Shown(app'[a])
    BY <1>1 DEF Shown
  <2>1. ~Parking(a)
    BY <1>1 DEF Parking, Awaiting, IsAwaitingApproval
  <2>2. CASE ApproveSubmit(a)
    <3>1. Shown(app[a]) /\ app[a].state # "ready"
      BY <2>2, ApprovedFields
    <3>2. reviewed'[a].approved
      BY <1>1, <2>0, <3>1, ReviewAfter
    <3>3. "submit" \in policy'.body.actions
      BY <2>2 DEF ApproveSubmit
    <3> QED
      BY <3>2, <3>3
  <2>3. CASE KeptState(app[a], app'[a]) /\ Shown(app[a])
    <3> DEFINE r == app[a].run
    <3>1. app[a].state = "ready" /\ app'[a].run = r /\ app[a] \in Row
      BY <1>1, <2>3 DEF KeptState, StateOK
    <3>2. reviewed'[a].approved
      <4>1. reviewed[a].approved
        BY <3>1 DEF ApprovalStands
      <4> QED
        BY <1>1, <2>0, <2>3, <3>1, <4>1, ReviewAfter
    <3>3. r \in Runs /\ run[r].state # "absent"
      BY <3>1 DEF Placed, Present
    <3>4. CASE run'[r].bound => run[r].bound /\ policy'.body = policy.body
      BY <3>1, <3>2, <3>4 DEF ApprovalStands
    <3>5. ASSUME NEW lost, EnablePolicy(lost)
          PROVE  "submit" \in policy'.body.actions
      <4>1. app'[a] = CarriedRow(a, a \in lost) /\ policy'.body = policy.body
        BY <3>5 DEF EnablePolicy, StateOK
      <4> QED
        BY <1>1, <3>1, <4>1, CarriedRowKept
    <3> QED
      BY <3>2, <3>3, <3>4, <3>5, MadeRunChanges
  <2> QED
    BY <2>0, <2>1, <2>2, <2>3, ShownBefore
<1> QED
  BY <1>1 DEF ApprovalStands

-----------------------------------------------------------------------------
\* Leases, attempts and targets

\* One board and one worker hold one lease each.
LEMMA LeasesKept ==
    ASSUME StateOK, AllSound', Placed, RunsMay, \A a \in Apps : Changes(a), LeaseRules
    PROVE  LeaseRules'
<1>1. ASSUME NEW a \in Apps, Leased(app'[a])
      PROVE  /\ WorkerOf(app[a])' = WorkerOf(app[a])
             /\ app'[a].state \in Leasable
             /\ Leased(app[a]) \/ Leasing(a)
  <2>1. ~Starting(a)
    BY <1>1, HeldBefore
  <2>2. app'[a].state \in Leasable
    BY <1>1 DEF AllSound, Sound, Leased
  <2>3. ~Parking(a) /\ ~ApproveSubmit(a) /\ ~Resolving(a)
    BY <1>1, ApprovedFields DEF Parking, Resolving
  <2>4. Beginning(a) => Leased(app[a])
    BY DEF Beginning, BeginSubmission, Checked, Matches
  <2>5. Leased(app[a]) \/ Leasing(a)
    BY <1>1, <2>1, <2>3, <2>4 DEF Changes, Kept, Aging
  <2>6. WorkerOf(app[a])' = WorkerOf(app[a])
    BY <2>1, WorkerStays
  <2> QED
    BY <2>2, <2>5, <2>6
<1>2. ASSUME NEW a \in Apps, NEW b \in Apps \ {a}, Leased(app'[a]), Leased(app'[b])
      PROVE  /\ TenantOf[RoleOf(b)] # TenantOf[RoleOf(a)]
             /\ WorkerOf(app[b])' # WorkerOf(app[a])'
  <2>1. CASE Leasing(a)
    BY <1>1, <1>2, <2>1 DEF Leasing
  <2>2. CASE Leasing(b)
    BY <1>1, <1>2, <2>2 DEF Leasing
  <2>3. CASE Leased(app[a]) /\ Leased(app[b])
    BY <1>1, <1>2, <2>3 DEF LeaseRules
  <2> QED
    BY <1>1, <1>2, <2>1, <2>2, <2>3
<1> QED
  BY <1>1, <1>2 DEF LeaseRules, Leased, WorkerOf

\* The attempts before a new one are over, and every attempt after it is still
\* to come.
LEMMA StartsLast ==
    ASSUME StateOK, OneLiveAttempt, NEW b \in Apps, Starting(b)
    PROVE  \A a \in Apps : RoleOf(a) = RoleOf(b) =>
             /\ AttemptOf(a) < AttemptOf(b) => app'[a].state \in Terminal
             /\ AttemptOf(a) > AttemptOf(b) => ~Present(a) /\ app'[a].state = "absent"
<1>0. /\ \A a \in Apps : /\ AttemptOf(a) \in 1..MaxAttempt /\ RoleOf(a) \in Roles
                         /\ a = <<RoleOf(a), AttemptOf(a)>>
      /\ \A role \in Roles, n \in 1..MaxAttempt :
           /\ <<role, n>> \in Apps
           /\ RoleOf(<<role, n>>) = role /\ AttemptOf(<<role, n>>) = n
  BY DEF Apps, RoleOf, AttemptOf
<1>1. ~Present(b) /\ app'[b].state = "queued"
  BY RowStarts
<1>2. "absent" \notin Terminal /\ app'[b].state # app[b].state
  BY <1>1 DEF Terminal, Present
<1>3. ASSUME NEW a \in Apps, RoleOf(a) = RoleOf(b), AttemptOf(a) > AttemptOf(b)
      PROVE  ~Present(a)
  BY <1>1, <1>2, <1>3 DEF OneLiveAttempt, Present
<1>4. CASE StageStep
  <2>1. PICK r \in Runs, roles \in SUBSET Roles : StageRoles(r, roles)
    BY <1>4 DEF StageStep
  <2>2. \A a \in Apps : app'[a] = app[a] \/ (IsNext(a) /\ app'[a] = NewRow(r, 0))
    BY <2>1 DEF StageRoles
  <2>3. IsNext(b) /\ NeedsAttempt(RoleOf(b))
    <3>1. \/ app'[b] = app[b]
          \/ IsNext(b) /\ NeedsAttempt(RoleOf(b))
      BY <2>1 DEF StageRoles
    <3> QED
      BY <1>2, <3>1
  <2>4. ASSUME NEW a \in Apps, RoleOf(a) = RoleOf(b), AttemptOf(a) < AttemptOf(b)
        PROVE  app'[a].state \in Terminal
    <3> DEFINE c == <<RoleOf(b), AttemptOf(b) - 1>>
    <3>1. /\ c \in Apps /\ Present(c) /\ RoleOf(c) = RoleOf(b)
          /\ AttemptOf(c) = AttemptOf(b) - 1 /\ AttemptOf(a) <= AttemptOf(c)
      BY <1>0, <2>3, <2>4, Bounds DEF IsNext
    <3>2. app[c].state \in Terminal
      BY <2>3, <3>1 DEF NeedsAttempt, ReleasedUnsent, Terminal
    <3> HIDE DEF c
    <3>3. app[a].state \in Terminal
      <4>1. CASE AttemptOf(a) = AttemptOf(c)
        <5>1. a = c
          BY <1>0, <2>4, <3>1, <4>1
        <5> QED
          BY <3>2, <5>1
      <4>2. CASE AttemptOf(a) < AttemptOf(c)
        BY <2>4, <3>1, <4>2 DEF OneLiveAttempt
      <4> QED
        BY <1>0, <3>1, <4>1, <4>2
    <3> QED
      BY <1>2, <2>2, <3>3 DEF IsNext, Present
  <2>5. ASSUME NEW a \in Apps, RoleOf(a) = RoleOf(b), AttemptOf(a) > AttemptOf(b)
        PROVE  app'[a].state = "absent"
    <3> DEFINE c == <<RoleOf(a), AttemptOf(a) - 1>>
    <3>1. /\ c \in Apps /\ RoleOf(c) = RoleOf(b) /\ AttemptOf(c) = AttemptOf(a) - 1
          /\ AttemptOf(c) >= AttemptOf(b) /\ AttemptOf(a) > 1
      BY <1>0, <2>5, Bounds
    <3>2. ~Present(c)
      <4>1. CASE AttemptOf(c) = AttemptOf(b)
        <5>1. c = b
          BY <1>0, <3>1, <4>1
        <5> QED
          BY <1>1, <5>1
      <4>2. CASE AttemptOf(c) > AttemptOf(b)
        BY <1>3, <3>1, <4>2
      <4> QED
        BY <1>0, <3>1, <4>1, <4>2
    <3>3. ~IsNext(a)
      BY <3>1, <3>2 DEF IsNext
    <3> QED
      BY <1>3, <2>2, <2>5, <3>3 DEF Present
  <2> QED
    BY <1>3, <2>4, <2>5
<1>5. CASE AttemptStep
  <2>1. PICK r \in Runs, d \in Apps, n \in 0..RetryLimit : \E row :
          /\ MayContinue(r, d) /\ Continue(r, d, row, n)
          /\ row.state \in Terminal
    <3>1. PICK r \in Runs, d \in Apps :
            Reapply(r, d) \/ RetryUnsubmitted(r, d) \/ Restart(r, d)
      BY <1>5 DEF AttemptStep
    <3>2. app[d] \in Row /\ "failed" \in Terminal /\ "cancelled" \in Terminal
      BY DEF StateOK, Terminal
    <3>3. /\ Settled(app[d], "failed", "confirmed_not_submitted").state = "failed"
          /\ Settled(app[d], "failed", "system").state = "failed"
          /\ Settled(app[d], "cancelled", "restarted").state = "cancelled"
      BY <3>2, Written
    <3>4. 0 \in 0..RetryLimit /\ (app[d].retries < RetryLimit => app[d].retries + 1 \in 0..RetryLimit)
      BY <3>2, Bounds DEF Row
    <3>5. CASE Reapply(r, d)
      BY <3>4, <3>5 DEF Reapply
    <3>6. CASE RetryUnsubmitted(r, d)
      BY <3>2, <3>3, <3>4, <3>6 DEF RetryUnsubmitted
    <3>7. CASE Restart(r, d)
      <4> DEFINE row == IF app[d].state \in Terminal THEN app[d]
                        ELSE Settled(app[d], "cancelled", "restarted")
      <4>1. MayContinue(r, d) /\ Continue(r, d, row, 0)
        BY <3>7 DEF Restart
      <4>2. row.state \in Terminal
        BY <3>2, <3>3
      <4> HIDE DEF row
      <4> QED
        BY <3>4, <4>1, <4>2
    <3> QED
      BY <3>1, <3>5, <3>6, <3>7
  <2>2. PICK row : /\ MayContinue(r, d) /\ Continue(r, d, row, n)
                   /\ row.state \in Terminal
    BY <2>1
  <2> DEFINE after == <<RoleOf(d), AttemptOf(d) + 1>>
  <2>3. /\ after \in Apps /\ after # d /\ RoleOf(after) = RoleOf(d)
        /\ AttemptOf(after) = AttemptOf(d) + 1
    BY <1>0, <2>2, Bounds DEF MayContinue
  <2> HIDE DEF after
  <2>4. /\ app'[d] = row /\ app'[after] = NewRow(r, n)
        /\ \A a \in Apps \ {d, after} : app'[a] = app[a]
    BY <2>2, <2>3 DEF Continue, StateOK, after
  <2>5. b = after
    <3>1. Present(d)
      BY <2>2 DEF MayContinue
    <3> QED
      BY <1>1, <1>2, <2>4, <3>1
  <2>6. ASSUME NEW a \in Apps, RoleOf(a) = RoleOf(b), AttemptOf(a) < AttemptOf(b)
        PROVE  app'[a].state \in Terminal
    <3>1. CASE a = d
      BY <2>2, <2>4, <3>1
    <3>2. CASE a # d
      <4>1. AttemptOf(a) < AttemptOf(d)
        BY <1>0, <2>3, <2>5, <2>6, <3>2
      <4>2. app[a].state \in Terminal
        BY <2>2, <2>3, <2>5, <2>6, <4>1 DEF OneLiveAttempt, MayContinue
      <4> QED
        BY <1>0, <2>4, <2>5, <2>6, <3>2, <4>2
    <3> QED
      BY <3>1, <3>2
  <2>7. ASSUME NEW a \in Apps, RoleOf(a) = RoleOf(b), AttemptOf(a) > AttemptOf(b)
        PROVE  app'[a].state = "absent"
    <3>1. a # d /\ a # after
      BY <1>0, <2>3, <2>5, <2>7
    <3> QED
      BY <1>3, <2>4, <2>7, <3>1 DEF Present
  <2> QED
    BY <1>3, <2>6, <2>7
<1> QED
  BY <1>4, <1>5 DEF Starting

\* A role has one attempt that is not over, its newest.
LEMMA OneAttemptKept ==
    ASSUME StateOK, AllSound', \A a \in Apps : Changes(a), OneLiveAttempt
    PROVE  OneLiveAttempt'
<1>1. ASSUME NEW a \in Apps, app'[a].state \in Terminal
      PROVE  ~Leased(app'[a])
  BY <1>1 DEF AllSound, Sound, Leased, Leasable, Terminal, SafeStages, Ambiguous
<1>2. ASSUME NEW a \in Apps, app[a].state \in Terminal
      PROVE  app'[a].state \in Terminal
  <2>1. app[a].state \notin {"absent", "filling", "ready", "needs_policy_decision"} \union Ambiguous
    BY SMTT(60), <1>2 DEF Terminal, Ambiguous
  <2>2. KeptState(app[a], app'[a])
    BY <2>1 DEF Changes, Kept, Leasing, Aging, Starting, Present, Parking, ApproveSubmit,
       IsAwaitingApproval, Beginning, BeginSubmission, Resolving
  <2> QED
    BY <1>2, <2>2 DEF KeptState
<1>3. ASSUME NEW a \in Apps, NEW b \in Apps, RoleOf(a) = RoleOf(b),
             AttemptOf(a) < AttemptOf(b), app'[b].state # "absent"
      PROVE  app'[a].state \in Terminal /\ ~Leased(app'[a])
  <2>1. CASE Starting(b)
    BY <1>1, <1>3, <2>1, StartsLast
  <2>2. CASE ~Starting(b)
    <3>1. Present(b)
      BY <1>3, <2>2, RowStays DEF Present
    <3>2. app[a].state \in Terminal
      BY <1>3, <3>1 DEF OneLiveAttempt
    <3> QED
      BY <1>1, <1>2, <3>2
  <2> QED
    BY <2>1, <2>2
<1> QED
  BY <1>3 DEF OneLiveAttempt, Leased, Present

\* What goes on after a step went on before it, unless it starts.
LEMMA GoesOnBefore ==
    ASSUME StateOK, NEW a \in Apps, Changes(a), ~Starting(a), Unfinished(app'[a])
    PROVE  Unfinished(app[a])
<1>1. CASE KeptState(app[a], app'[a])
  BY <1>1 DEF KeptState, Unfinished
<1>2. CASE Parking(a) \/ ApproveSubmit(a)
  BY <1>2 DEF Parking, ApproveSubmit, IsAwaitingApproval, Unfinished, Terminal, Ambiguous
<1>3. CASE Beginning(a)
  <2>1. app'[a].state = "submitting"
    BY <1>3 DEF Beginning, BeginSubmission, StateOK, Row
  <2> QED
    BY <2>1 DEF Unfinished, Ambiguous
<1>4. CASE Resolving(a)
  BY <1>4 DEF Resolving, Unfinished, Terminal
<1> QED
  BY <1>1, <1>2, <1>3, <1>4 DEF Changes, Kept, Leasing, Aging

\* What goes on is what its run points at.
LEMMA TargetsKept ==
    ASSUME StateOK, Placed, OneLiveAttempt, OneLiveAttempt', RunsMay,
           \A a \in Apps : Changes(a), TargetsFollowWork
    PROVE  TargetsFollowWork'
<1>0. /\ \A a \in Apps : /\ AttemptOf(a) \in 1..MaxAttempt /\ RoleOf(a) \in Roles
                         /\ a = <<RoleOf(a), AttemptOf(a)>>
      /\ \A role \in Roles, n \in 1..MaxAttempt :
           /\ <<role, n>> \in Apps
           /\ RoleOf(<<role, n>>) = role /\ AttemptOf(<<role, n>>) = n
  BY DEF Apps, RoleOf, AttemptOf
<1>1. ASSUME NEW a \in Apps
      PROVE  Unfinished(app[a]) => /\ app[a].run \in Runs
                                   /\ run[app[a].run].state # "absent"
                                   /\ run[app[a].run].targets[RoleOf(a)] = AttemptOf(a)
  BY DEF Unfinished, Placed, Present, TargetsFollowWork
<1>2. ASSUME NEW a \in Apps, Unfinished(app'[a]), ~StageStep, ~AttemptStep
      PROVE  run'[app'[a].run].targets[RoleOf(a)] = AttemptOf(a)
  <2>1. ~Starting(a)
    BY <1>2 DEF Starting
  <2>2. Unfinished(app[a]) /\ app'[a].run = app[a].run
    BY <1>2, <2>1, GoesOnBefore, RowStays
  <2>3. run'[app[a].run].targets = run[app[a].run].targets
    BY <1>1, <1>2, <2>2, MadeRunChanges
  <2> QED
    BY <1>1, <2>2, <2>3
<1>3. ASSUME NEW a \in Apps, Unfinished(app'[a]), StageStep
      PROVE  run'[app'[a].run].targets[RoleOf(a)] = AttemptOf(a)
  <2>1. PICK r \in Runs, roles \in SUBSET Roles : StageRoles(r, roles)
    BY <1>3 DEF StageStep
  <2> DEFINE staged == {role \in roles \ manual : ~HoldsTarget(r, role)}
             IsLast(b) == /\ app'[b].state # "absent"
                          /\ \A c \in Apps :
                               RoleOf(c) = RoleOf(b) /\ AttemptOf(c) > AttemptOf(b)
                               => app'[c].state = "absent"
  <2>2. PICK targets \in [Roles -> 0..MaxAttempt] :
          /\ \A role \in staged : targets[role] # 0 /\ IsLast(<<role, targets[role]>>)
          /\ \A role \in Roles \ staged : targets[role] = run[r].targets[role]
          /\ run' = [run EXCEPT ![r].targets = targets]
    BY <2>1 DEF StageRoles
  <2>3. /\ \A b \in Apps : \/ app'[b] = app[b]
                           \/ app'[b] = NewRow(r, 0) /\ RoleOf(b) \in staged
        /\ run \in [Runs -> Run]
    BY <2>1 DEF StageRoles, StateOK
  <2> HIDE DEF staged
  <2>4. run'[r].targets = targets /\ \A q \in Runs \ {r} : run'[q] = run[q]
    BY <2>2, <2>3 DEF Run
  <2>5. CASE app'[a] = app[a]
    <3>1. /\ app[a].run \in Runs
          /\ run[app[a].run].targets[RoleOf(a)] = AttemptOf(a)
      BY <1>1, <1>3, <2>5
    <3>2. CASE app[a].run = r
      <4>1. HoldsTarget(r, RoleOf(a))
        BY <1>0, <3>1, <3>2, Bounds DEF HoldsTarget
      <4>2. RoleOf(a) \in Roles \ staged
        BY <1>0, <4>1 DEF staged
      <4> QED
        BY <2>2, <2>4, <2>5, <3>1, <3>2, <4>2
    <3>3. CASE app[a].run # r
      BY <2>4, <2>5, <3>1, <3>3
    <3> QED
      BY <3>2, <3>3
  <2>6. CASE app'[a] # app[a]
    <3>1. app'[a].run = r /\ RoleOf(a) \in staged
      BY <2>3, <2>6 DEF NewRow
    <3> DEFINE b == <<RoleOf(a), targets[RoleOf(a)]>>
    <3>2. b \in Apps /\ RoleOf(b) = RoleOf(a) /\ AttemptOf(b) = targets[RoleOf(a)] /\ IsLast(b)
      BY <1>0, <2>2, <3>1, Bounds
    <3> HIDE DEF b
    <3>3. app'[a].state \notin Terminal \union {"absent"}
      BY <1>3 DEF Unfinished
    <3>4. ~(AttemptOf(b) < AttemptOf(a))
      BY <3>2, <3>3
    <3>5. ~(AttemptOf(a) < AttemptOf(b))
      BY <3>2, <3>3 DEF OneLiveAttempt, Present
    <3>6. AttemptOf(a) = AttemptOf(b)
      BY <1>0, <3>2, <3>4, <3>5, Bounds
    <3> QED
      BY <2>4, <3>1, <3>2, <3>6
  <2> QED
    BY <2>5, <2>6
<1>4. ASSUME NEW a \in Apps, Unfinished(app'[a]), AttemptStep
      PROVE  run'[app'[a].run].targets[RoleOf(a)] = AttemptOf(a)
  <2>1. PICK r \in Runs, d \in Apps, n \in 0..(RetryLimit + 1) : \E row :
          MayContinue(r, d) /\ Continue(r, d, row, n)
    <3>1. PICK r \in Runs, d \in Apps :
            Reapply(r, d) \/ RetryUnsubmitted(r, d) \/ Restart(r, d)
      BY <1>4 DEF AttemptStep
    <3>2. 0 \in 0..(RetryLimit + 1) /\ app[d].retries + 1 \in 0..(RetryLimit + 1)
      BY Bounds DEF StateOK, Row
    <3> QED
      BY <3>1, <3>2 DEF Reapply, RetryUnsubmitted, Restart
  <2>2. PICK row : MayContinue(r, d) /\ Continue(r, d, row, n)
    BY <2>1
  <2> DEFINE after == <<RoleOf(d), AttemptOf(d) + 1>>
  <2>3. /\ after \in Apps /\ after # d /\ RoleOf(after) = RoleOf(d)
        /\ AttemptOf(after) = AttemptOf(d) + 1
    BY <1>0, <2>2, Bounds DEF MayContinue
  <2> HIDE DEF after
  <2>4. /\ app'[after] = NewRow(r, n)
        /\ \A b \in Apps \ {d, after} : app'[b] = app[b]
    BY <2>2, <2>3 DEF Continue, StateOK, after
  <2>5. /\ run \in [Runs -> Run]
        /\ run' = [run EXCEPT ![r].targets =
                     [run[r].targets EXCEPT ![RoleOf(d)] = AttemptOf(d) + 1]]
    BY <2>2 DEF Continue, StateOK, Run
  <2>6. /\ \A q \in Runs \ {r} : run'[q] = run[q]
        /\ run'[r].targets = [run[r].targets EXCEPT ![RoleOf(d)] = AttemptOf(d) + 1]
        /\ run[r].targets \in [Roles -> 0..MaxAttempt]
    BY <2>5 DEF Run
  <2>7. CASE a = after
    BY <1>0, <2>3, <2>4, <2>6, <2>7 DEF NewRow
  <2>8. CASE a # after /\ RoleOf(a) = RoleOf(d)
    <3>1. app'[after].state # "absent" /\ app'[a].state \notin Terminal \union {"absent"}
      BY <1>4, <2>4 DEF NewRow, Unfinished
    <3>2. AttemptOf(a) > AttemptOf(after)
      <4>1. AttemptOf(a) # AttemptOf(after)
        BY <1>0, <2>3, <2>8
      <4>2. ~(AttemptOf(a) < AttemptOf(after))
        BY <2>3, <2>8, <3>1 DEF OneLiveAttempt, Present
      <4> QED
        BY <1>0, <2>3, <4>1, <4>2, Bounds
    <3>3. Present(a)
      BY <1>0, <2>3, <2>4, <2>8, <3>1, <3>2, Bounds DEF Present
    <3> QED
      BY <1>0, <2>2, <2>3, <2>8, <3>2, <3>3, Bounds DEF MayContinue, Latest
  <2>9. CASE RoleOf(a) # RoleOf(d)
    <3>1. app'[a] = app[a]
      BY <2>3, <2>4, <2>9
    <3>2. /\ app[a].run \in Runs
          /\ run[app[a].run].targets[RoleOf(a)] = AttemptOf(a)
      BY <1>1, <1>4, <3>1
    <3> QED
      BY <1>0, <2>6, <2>9, <3>1, <3>2
  <2> QED
    BY <2>7, <2>8, <2>9
<1> QED
  BY <1>2, <1>3, <1>4 DEF TargetsFollowWork, Unfinished

-----------------------------------------------------------------------------
\* The invariant, and the theorems

\* What carries the proof: each part rests on others of the step before.
Bind ==
    /\ Placed
    /\ BoundToHead /\ EnabledBindsRuns
    /\ RevokedHoldsNothing
    /\ EndedWorkIsOver
    /\ ReviewStands /\ ApprovalStands
    /\ LeaseRules
    /\ OneRunningRun
    /\ OneLiveAttempt
    /\ TargetsFollowWork

\* Every step of every handler keeps it.
LEMMA BindStep ==
    ASSUME PlaneTypeOK, AllSound, AllSound', Bind, Next
    PROVE  Bind'
<1>1. StateOK /\ Placed /\ Step /\ Observe
  BY DEF PlaneTypeOK, StateOK, Bind, Next
<1>2. \A a \in Apps : Changes(a)
  BY <1>1, RowsChange
<1>3. RunsMay
  BY <1>1, RunsChange
<1>4. Placed'
  BY <1>1, <1>2, <1>3, PlacedKept
<1>5. BoundToHead' /\ EnabledBindsRuns'
  BY <1>1, <1>3, BoundKept DEF Bind
<1>6. RevokedHoldsNothing'
  BY <1>1, <1>2, <1>3, RevokedKept DEF Bind
<1>7. EndedWorkIsOver'
  BY <1>1, <1>2, <1>3, EndedKept DEF Bind
<1>8. ReviewStands' /\ ApprovalStands'
  BY <1>1, <1>2, <1>3, ReviewKept, ApprovalKept DEF Bind
<1>9. LeaseRules'
  BY <1>1, <1>2, <1>3, LeasesKept DEF Bind
<1>10. OneRunningRun'
  BY <1>1, <1>3, OneRunKept DEF Bind
<1>11. OneLiveAttempt'
  BY <1>1, <1>2, OneAttemptKept DEF Bind
<1>12. TargetsFollowWork'
  BY <1>1, <1>2, <1>3, <1>11, TargetsKept DEF Bind
<1> QED
  BY <1>4, <1>5, <1>6, <1>7, <1>8, <1>9, <1>10, <1>11, <1>12 DEF Bind

LEMMA BindAlways == Spec => []Bind
<1>1. Init => Bind
  <2> SUFFICES ASSUME Init
               PROVE  Bind
    OBVIOUS
  <2>1. /\ \A a \in Apps : /\ app[a].state = "absent" /\ app[a].run = NoRun
                           /\ ~Leased(app[a])
        /\ \A r \in Runs : /\ run[r].state = "absent" /\ ~run[r].bound
        /\ ~policy.enabled /\ revoked = {} /\ manual = {}
    BY DEF Init, AbsentRow, NewRow, AbsentRun, Leased
  <2>2. NoRun \notin Runs
    BY ControlAssumption DEF ControlAssumption, NoRun
  <2>3. Placed /\ BoundToHead /\ EnabledBindsRuns
    BY <2>1, <2>2 DEF Placed, Present, BoundToHead, EnabledBindsRuns
  <2>4. RevokedHoldsNothing /\ EndedWorkIsOver
    BY <2>1 DEF RevokedHoldsNothing, EndedWorkIsOver, Present
  <2>5. ReviewStands /\ ApprovalStands
    BY <2>1 DEF ReviewStands, ApprovalStands, Shown, Awaiting, IsAwaitingApproval
  <2>6. LeaseRules /\ OneRunningRun /\ OneLiveAttempt /\ TargetsFollowWork
    BY <2>1 DEF LeaseRules, OneRunningRun, OneLiveAttempt, Present, TargetsFollowWork,
       Unfinished
  <2> QED
    BY <2>3, <2>4, <2>5, <2>6 DEF Bind
<1>2. PlaneTypeOK /\ AllSound /\ AllSound' /\ Bind /\ [Next]_vars => Bind'
  <2>1. CASE Next
    BY <2>1, BindStep
  <2>2. ASSUME Bind, UNCHANGED vars
        PROVE  Bind'
    BY <2>2 DEF vars, Bind, Placed, Present, BoundToHead, EnabledBindsRuns, Live,
       RevokedHoldsNothing, WorkerOf, Leased, EndedWorkIsOver, ReviewStands, ApprovalStands,
       Shown, Awaiting, LeaseRules, OneRunningRun, OneLiveAttempt, TargetsFollowWork,
       Unfinished
  <2> QED
    BY <2>1, <2>2
<1> QED
  BY <1>1, <1>2, TypeCorrect, SoundAlways, PTL DEF Spec

\* A revoked worker runs and holds nothing, the runs of an enabled policy are
\* its own, ended work is over, and what is ready to be sent was approved and
\* may be submitted: whatever order the handlers of stores.ts, leases.ts and
\* commands.ts run in, for any number of workers, runs, roles and policies.
THEOREM WorkBound == Spec => []WorkIsBound
<1>1. PlaneTypeOK /\ Bind => ReadyIsPermitted
  <2> SUFFICES ASSUME PlaneTypeOK, Bind, NEW a \in Apps, app[a].state = "ready", LiveRun(a)
               PROVE  /\ "submit" \in policy.body.actions
                      /\ reviewed[a].approved
                      /\ reviewed[a].form = policy.body.form
    BY DEF ReadyIsPermitted
  <2>1. run[app[a].run].bound /\ app[a].run \in Runs
    BY DEF LiveRun, Bind, Placed, Present
  <2>2. run[app[a].run].body = policy.body
    BY <2>1 DEF Bind, BoundToHead
  <2> QED
    BY <2>1, <2>2 DEF Bind, ReviewStands, ApprovalStands, Shown
<1>2. PlaneTypeOK /\ Bind => WorkIsBound
  BY <1>1 DEF Bind, WorkIsBound
<1> QED
  BY <1>2, TypeCorrect, BindAlways, PTL

\* An intent is recorded only for the form the applicant approved, filled as
\* the policy that stands fills it and with the answers it was reviewed with.
THEOREM SubmissionsApproved == Spec => SubmitsWhatWasApproved
<1>1. PlaneTypeOK /\ AllSound /\ Bind /\ [Next]_vars =>
        [\A a \in Apps : Intends(a) =>
          /\ reviewed[a].approved
          /\ reviewed[a].form = policy.body.form
          /\ reviewed[a].asked = app[a].asked]_vars
  <2> SUFFICES ASSUME PlaneTypeOK, AllSound, Bind, Next, NEW a \in Apps, Intends(a)
               PROVE  /\ reviewed[a].approved
                      /\ reviewed[a].form = policy.body.form
                      /\ reviewed[a].asked = app[a].asked
    OBVIOUS
  <2>1. StateOK /\ Changes(a)
    BY RowsChange DEF PlaneTypeOK, StateOK, Bind, Next
  <2>2. Beginning(a)
    <3>1. app[a].intent = NoIntent /\ app'[a].intent # NoIntent
      BY DEF Intends
    <3>2. ~Starting(a) /\ ~ApproveSubmit(a)
      BY <2>1, <3>1, RowStarts, ApprovedFields
    <3> QED
      BY <2>1, <3>1, <3>2 DEF Changes, Kept, Leasing, Parking, Resolving, Aging
  <2>3. app[a].state = "ready" /\ LiveRun(a)
    BY <2>2 DEF Beginning, BeginSubmission, Checked
  <2>4. run[app[a].run].bound /\ app[a].run \in Runs
    BY <2>3 DEF LiveRun, Bind, Placed, Present
  <2>5. run[app[a].run].body = policy.body
    BY <2>4 DEF Bind, BoundToHead
  <2> QED
    BY <2>3, <2>5 DEF Bind, ReviewStands, ApprovalStands, Shown
<1> QED
  BY <1>1, TypeCorrect, SoundAlways, BindAlways, PTL DEF Spec, SubmitsWhatWasApproved

\* What may have been sent leaves doubt by a receipt, by the applicant's word or
\* once the employer's window closed, and an attempt that is over stays over.
THEOREM DoubtLeftForGood == Spec => LeavesDoubtForGood
<1>1. PlaneTypeOK /\ AllSound /\ Bind /\ [Next]_vars =>
        [\A a \in Apps :
          /\ app[a].state \in Terminal => app'[a].state = app[a].state
          /\ app[a].state \in Ambiguous => app'[a].state \in Ambiguous \/
               \/ app'[a].state = "submitted" /\ (app'[a].receipt \/
                     app'[a].reason = "confirmed_submitted")
               \/ /\ app'[a].state = "failed"
                  /\ app'[a].reason = "confirmed_not_submitted"
                  /\ app[a].intent >= Window]_vars
  <2> SUFFICES ASSUME PlaneTypeOK, AllSound, Bind, Next, NEW a \in Apps
               PROVE  /\ app[a].state \in Terminal => app'[a].state = app[a].state
                      /\ app[a].state \in Ambiguous => app'[a].state \in Ambiguous \/
                           \/ app'[a].state = "submitted" /\ (app'[a].receipt \/
                                 app'[a].reason = "confirmed_submitted")
                           \/ /\ app'[a].state = "failed"
                              /\ app'[a].reason = "confirmed_not_submitted"
                              /\ app[a].intent >= Window
    OBVIOUS
  <2>1. StateOK /\ Changes(a)
    BY RowsChange DEF PlaneTypeOK, StateOK, Bind, Next
  <2>2. CASE app[a].state \in Terminal \union Ambiguous
    <3>1. app[a].state \notin {"absent", "filling", "ready", "needs_policy_decision"}
      BY <2>2 DEF Terminal, Ambiguous
    <3>2. KeptState(app[a], app'[a]) \/ Resolving(a)
      BY <2>1, <3>1 DEF Changes, Kept, Leasing, Aging, Starting, Present, Parking,
         ApproveSubmit, IsAwaitingApproval, Beginning, BeginSubmission
    <3>3. CASE KeptState(app[a], app'[a])
      BY <3>3 DEF KeptState
    <3>4. CASE Resolving(a)
      <4>1. app[a].state \in Ambiguous /\ app[a].intent # NoIntent /\ app[a] \in Row
        BY <2>1, <3>4 DEF Resolving, AllSound, Sound, Sent, StateOK
      <4>2. WindowClosed(app[a]) => app[a].intent >= Window
        BY <4>1, Bounds DEF WindowClosed, Row, NoIntent
      <4> QED
        BY <3>4, <4>1, <4>2, Apart DEF Resolving
    <3> QED
      BY <3>2, <3>3, <3>4
  <2> QED
    BY <2>2
<1> QED
  BY <1>1, TypeCorrect, SoundAlways, BindAlways, PTL DEF Spec, LeavesDoubtForGood

\* The database's lease rules hold of every committed state, so no handler
\* aborts on them.
THEOREM LeasesObeyRules == Spec => []LeaseRules
BY BindAlways, PTL DEF Bind

\* A worker has one running run, a role one attempt that is not over, and a run
\* points at the attempt that goes on in it.
THEOREM OneOfEach == Spec => [](OneRunningRun /\ OneLiveAttempt /\ TargetsFollowWork)
BY BindAlways, PTL DEF Bind

-----------------------------------------------------------------------------
\* The promise to the employer

\* A step that neither records an intent nor decides a submission changes the
\* outcome of no attempt; unless it is the clock's, it changes no window.
LEMMA OutcomeStays ==
    ASSUME StateOK, AllSound, NEW a \in Apps, Changes(a), ~Beginning(a), ~Resolving(a)
    PROVE  /\ OutcomeOf(a)' = OutcomeOf(a)
           /\ ~Aging(a) => app'[a].intent = app[a].intent
<1>1. Sound(app[a]) /\ app[a] \in Row
  BY DEF StateOK, AllSound
<1>2. CASE Starting(a)
  <2>1. app'[a].intent = NoIntent /\ app[a].state = "absent"
    BY <1>2, RowStarts DEF Present
  <2>2. app[a].intent = NoIntent
    BY <1>1, <2>1 DEF Sound, Sent, Ambiguous
  <2> QED
    BY <2>1, <2>2 DEF OutcomeOf
<1>3. CASE Parking(a) \/ ApproveSubmit(a)
  <2>1. app'[a].intent = app[a].intent
    BY <1>3, ApprovedFields DEF Parking
  <2>2. app[a].state \in {"filling", "needs_policy_decision"}
    BY <1>3 DEF Parking, ApproveSubmit, IsAwaitingApproval
  <2>3. app[a].intent = NoIntent
    BY <1>1, <2>2 DEF Sound, Sent, Ambiguous
  <2> QED
    BY <2>1, <2>3 DEF OutcomeOf
<1>4. ASSUME KeptState(app[a], app'[a]), app'[a].intent = NoIntent <=> app[a].intent = NoIntent
      PROVE  OutcomeOf(a)' = OutcomeOf(a)
  <2>1. CASE app[a].intent = NoIntent
    BY <1>4, <2>1 DEF OutcomeOf
  <2>2. CASE app[a].intent # NoIntent
    <3>1. Sent(app[a]) /\ app'[a].intent # NoIntent
      BY <1>1, <1>4, <2>2 DEF Sound
    <3>2. CASE app[a].state \in Ambiguous
      <4>1. app'[a].state \in Ambiguous
        BY <1>4, <3>2 DEF KeptState
      <4> QED
        BY <2>2, <3>1, <3>2, <4>1 DEF OutcomeOf
    <3>3. CASE app[a].state \in Terminal
      <4>1. app'[a].state = app[a].state
        BY <1>4, <3>3 DEF KeptState
      <4> QED
        BY <2>2, <3>1, <4>1 DEF OutcomeOf
    <3> QED
      BY <3>1, <3>2, <3>3 DEF Sent, Terminal
  <2> QED
    BY <2>1, <2>2
<1>5. ~Aging(a) => app'[a].intent = app[a].intent
  <2>1. Starting(a) => app'[a].intent = NoIntent /\ app[a].intent = NoIntent
    <3>1. Starting(a) => app'[a].intent = NoIntent /\ app[a].state = "absent"
      BY RowStarts DEF Present
    <3> QED
      BY <1>1, <3>1 DEF Sound, Sent, Ambiguous
  <2>2. ApproveSubmit(a) => app'[a].intent = app[a].intent
    BY ApprovedFields
  <2> QED
    BY <2>1, <2>2 DEF Changes, Kept, Leasing, Parking
<1>6. \/ Starting(a) \/ Parking(a) \/ ApproveSubmit(a)
      \/ KeptState(app[a], app'[a]) /\ (app'[a].intent = NoIntent <=> app[a].intent = NoIntent)
  BY DEF Changes, Kept, Leasing, Aging
<1> QED
  BY <1>2, <1>3, <1>4, <1>5, <1>6

\* An intent is recorded for an attempt whose role has no submission open, and
\* no later attempt that was sent.
LEMMA OnlyOneOpens ==
    ASSUME StateOK, AllSound, Bind, NEW a \in Apps, Beginning(a)
    PROVE  /\ OutcomeOf(a) = "unsent"
           /\ \A b \in Apps \ {a} : RoleOf(b) = RoleOf(a) =>
                /\ OutcomeOf(b) # "open"
                /\ AttemptOf(b) > AttemptOf(a) => OutcomeOf(b) = "unsent"
<1>1. app[a].state = "ready" /\ app[a].intent = NoIntent
  BY DEF Beginning, BeginSubmission
<1>2. ASSUME NEW b \in Apps \ {a}, RoleOf(b) = RoleOf(a)
      PROVE  /\ OutcomeOf(b) # "open"
             /\ AttemptOf(b) > AttemptOf(a) => OutcomeOf(b) = "unsent"
  <2>1. AttemptOf(a) \in Nat /\ AttemptOf(b) \in Nat /\ AttemptOf(a) # AttemptOf(b)
    BY <1>2 DEF Apps, RoleOf, AttemptOf
  <2>2. CASE AttemptOf(b) > AttemptOf(a)
    <3>1. ~Present(b)
      BY <1>1, <1>2, <2>2, Apart DEF Bind, OneLiveAttempt
    <3>2. app[b].intent = NoIntent
      BY <1>2, <3>1 DEF Present, AllSound, Sound, Sent, Ambiguous
    <3> QED
      BY <3>2 DEF OutcomeOf
  <2>3. CASE AttemptOf(b) < AttemptOf(a)
    <3>1. app[b].state \in Terminal
      BY <1>1, <1>2, <2>3 DEF Bind, OneLiveAttempt, Present
    <3> QED
      BY <2>1, <2>3, <3>1, Apart DEF OutcomeOf
  <2> QED
    BY <2>1, <2>2, <2>3
<1> QED
  BY <1>1, <1>2 DEF OutcomeOf

\* A submission that is decided was open; it is received, or it is refuted when
\* its window had closed.
LEMMA DecidedOutcome ==
    ASSUME StateOK, AllSound, NEW a \in Apps, Resolving(a)
    PROVE  /\ OutcomeOf(a) = "open"
           /\ \/ OutcomeOf(a)' = "received"
              \/ OutcomeOf(a)' = "refuted" /\ app[a].intent \notin 0..(Window - 1)
           /\ app'[a].intent = app[a].intent
<1>1. app[a].intent # NoIntent /\ app[a].state \in Ambiguous /\ app'[a].intent = app[a].intent
  BY DEF Resolving, AllSound, Sound, Sent
<1>2. \/ app'[a].state = "submitted"
      \/ app'[a].state = "failed" /\ app[a].intent \notin 0..(Window - 1)
  BY DEF Resolving, WindowClosed
<1> QED
  BY <1>1, <1>2 DEF OutcomeOf, Ambiguous

\* Every step of the control plane is one of the ledger's or changes nothing
\* of it.
LEMMA LedgerSteps ==
    ASSUME PlaneTypeOK, AllSound, Bind, Next
    PROVE  Ledger!LedgerNext \/ UNCHANGED Ledger!ledgerVars
<1> DEFINE outcome == [a \in Apps |-> OutcomeOf(a)]
           window == [a \in Apps |-> app[a].intent \in 0..(Window - 1)]
<1>0. Ledger!Attempts = Apps /\ \A a \in Apps : a[1] = RoleOf(a) /\ a[2] = AttemptOf(a)
  BY DEF Ledger!Attempts, Apps, RoleOf, AttemptOf
<1>1. StateOK /\ Step /\ Placed
  BY DEF PlaneTypeOK, StateOK, Bind, Next
<1>2. \A a \in Apps : Changes(a)
  BY <1>1, RowsChange
<1>3. ASSUME NEW a \in Apps, Beginning(a)
      PROVE  Ledger!Open(a)
  <2>1. /\ app'[a].intent = 0 /\ app'[a].state = "submitting"
        /\ \A b \in Apps \ {a} : app'[b] = app[b]
    BY <1>1, <1>3 DEF Beginning, BeginSubmission, StateOK, Row
  <2>2. OutcomeOf(a)' = "open" /\ app'[a].intent \in 0..(Window - 1)
    BY <2>1, Bounds DEF OutcomeOf, NoIntent, Ambiguous
  <2>3. \A b \in Apps \ {a} : OutcomeOf(b)' = OutcomeOf(b)
    BY <2>1 DEF OutcomeOf
  <2>4. /\ outcome' = [outcome EXCEPT ![a] = "open"]
        /\ window' = [window EXCEPT ![a] = TRUE]
    BY <2>1, <2>2, <2>3
  <2>5. /\ outcome[a] = "unsent"
        /\ \A b \in Apps \ {a} : b[1] = a[1] =>
             /\ outcome[b] # "open"
             /\ b[2] > a[2] => outcome[b] = "unsent"
    BY <1>0, <1>1, <1>3, OnlyOneOpens
  <2> QED
    BY <1>0, <2>4, <2>5 DEF Ledger!Open
<1>4. ASSUME NEW a \in Apps, Resolving(a)
      PROVE  Ledger!Receive(a) \/ Ledger!Refute(a)
  <2>1. ASSUME NEW b \in Apps \ {a}
        PROVE  OutcomeOf(b)' = OutcomeOf(b) /\ app'[b].intent = app[b].intent
    <3>1. CASE app'[b] = app[b]
      BY <3>1 DEF OutcomeOf
    <3>2. CASE ~Present(b)
      <4>1. app[b].state = "absent" /\ app[b].intent = NoIntent
        BY <3>2 DEF Present, AllSound, Sound, Sent, Ambiguous
      <4>2. ~Beginning(b) /\ ~Resolving(b)
        BY <4>1 DEF Beginning, BeginSubmission, Resolving, Ambiguous
      <4>3. OutcomeOf(b)' = OutcomeOf(b)
        BY <1>1, <1>2, <4>2, OutcomeStays
      <4>4. app'[b].intent = NoIntent
        BY <1>1, <1>2, <4>1, <4>2, OutcomeStays DEF Aging
      <4> QED
        BY <4>1, <4>3, <4>4
    <3> QED
      BY <1>4, <3>1, <3>2 DEF Resolving, Alone
  <2>2. /\ OutcomeOf(a) = "open" /\ app'[a].intent = app[a].intent
        /\ \/ OutcomeOf(a)' = "received"
           \/ OutcomeOf(a)' = "refuted" /\ app[a].intent \notin 0..(Window - 1)
    BY <1>1, <1>4, DecidedOutcome
  <2>3. window' = window
    BY <2>1, <2>2
  <2>4. \A value : OutcomeOf(a)' = value => outcome' = [outcome EXCEPT ![a] = value]
    BY <2>1
  <2>5. CASE OutcomeOf(a)' = "received"
    BY <2>2, <2>3, <2>4, <2>5 DEF Ledger!Receive
  <2>6. CASE OutcomeOf(a)' = "refuted" /\ app[a].intent \notin 0..(Window - 1)
    BY <2>2, <2>3, <2>4, <2>6 DEF Ledger!Refute
  <2> QED
    BY <2>2, <2>5, <2>6
<1>5. ASSUME \A a \in Apps : ~Beginning(a) /\ ~Resolving(a)
      PROVE  Ledger!Clock \/ UNCHANGED Ledger!ledgerVars
  <2>1. \A a \in Apps : OutcomeOf(a)' = OutcomeOf(a)
    BY <1>1, <1>2, <1>5, OutcomeStays
  <2>2. outcome' = outcome
    BY <2>1
  <2>3. window' \in [Apps -> BOOLEAN]
    OBVIOUS
  <2> QED
    BY <1>0, <2>2, <2>3 DEF Ledger!Clock
<1> QED
  BY <1>0, <1>3, <1>4, <1>5 DEF Ledger!LedgerNext

\* The control plane implements SubmissionLedger: for each role one submission
\* is open at a time, and it is refuted only once the employer's window closed.
THEOREM LedgerKept == Spec => KeepsLedger
<1>1. Init => Ledger!LedgerInit
  <2> SUFFICES ASSUME Init
               PROVE  Ledger!LedgerInit
    OBVIOUS
  <2>1. \A a \in Apps : app[a].intent = NoIntent
    BY DEF Init, AbsentRow, NewRow
  <2>2. NoIntent \notin 0..(Window - 1)
    BY Bounds DEF NoIntent
  <2>3. \A a \in Apps : OutcomeOf(a) = "unsent"
    BY <2>1 DEF OutcomeOf
  <2>4. \A a \in Apps : (app[a].intent \in 0..(Window - 1)) = FALSE
    BY <2>1, <2>2
  <2>5. [a \in Apps |-> OutcomeOf(a)] = [a \in Apps |-> "unsent"]
    BY <2>3
  <2>6. [a \in Apps |-> app[a].intent \in 0..(Window - 1)] = [a \in Apps |-> FALSE]
    BY <2>4, Zenon
  <2>7. Ledger!Attempts = Apps
    BY DEF Ledger!Attempts, Apps
  <2> QED
    BY <2>5, <2>6, <2>7 DEF Ledger!LedgerInit
<1>2. PlaneTypeOK /\ AllSound /\ Bind /\ [Next]_vars => [Ledger!LedgerNext]_(Ledger!ledgerVars)
  <2>1. UNCHANGED vars => UNCHANGED Ledger!ledgerVars
    BY DEF vars, Ledger!ledgerVars, OutcomeOf
  <2> QED
    BY <2>1, LedgerSteps
<1> QED
  BY <1>1, <1>2, TypeCorrect, SoundAlways, BindAlways, PTL
     DEF Spec, KeepsLedger, Ledger!LedgerSpec
=============================================================================
