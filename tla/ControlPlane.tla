---------------------------- MODULE ControlPlane ----------------------------
(***************************************************************************)
(* The server side of Auto Apply for one applicant: the applications, runs,*)
(* workers and policy in the private database and every transaction that   *)
(* changes them (src/lib/applications).  One action is one committed       *)
(* transaction; the database serialises writers, so nothing runs inside it.*)
(*                                                                         *)
(* Time is relative: a lease is the number of ticks it has left, an intent *)
(* the number of ticks since it was recorded, a wait the ticks until the   *)
(* row is available, each held at its bound.  A row's fence and revision   *)
(* only ever grow and are only compared for equality with the pair the     *)
(* worker was last given, so the model keeps that comparison: "known" is   *)
(* the state the worker was told together with the pair that still         *)
(* matches, and "none" once either number has moved.  A request whose pair *)
(* does not match, or whose expected revision is old, is refused before it *)
(* changes anything and is not an action.  In the same way a run keeps     *)
(* whether its policy revision, version and hash are the head's.           *)
(***************************************************************************)
EXTENDS Integers, ApplicationStates

CONSTANTS
    Workers,        \* the applicant's paired workers
    Roles,          \* employer roles discovery may find
    TenantOf,       \* the employer board of each role: at most one lease each
    Runs,           \* identities of application runs
    MaxAttempt,     \* bound: attempts of one role
    MaxProfile,     \* bound: revisions of the profile
    Lease,          \* ticks in a lease (LEASE_MS)
    SubmitWait,     \* ticks an employer's window stays open (SUBMIT_WAIT_MS)
    RetryLimit,     \* safe retries of one role (3 in the code)
    Policies,       \* the policies the applicant may save
    EmptyPolicy,    \* what an owner without a saved policy has
    Reports,        \* the events the worker program sends, by the state it is in
    QuestionKinds   \* the states an unanswered question holds a row in

\* A policy is [select, form, reapply, actions]: the class of what discovery
\* selects with, of what fills a form, whether it permits reapplication, and
\* which of "read_jobs" and "submit" it permits.
PolicyAssumption ==
    /\ \A body \in Policies \union {EmptyPolicy} :
         /\ body = [select |-> body.select, form |-> body.form,
                    reapply |-> body.reapply, actions |-> body.actions]
         /\ body.reapply \in BOOLEAN
         /\ body.actions \subseteq {"read_jobs", "submit"}
    /\ EmptyPolicy \notin Policies

\* The reasons that say what the applicant confirmed are the server's to write.
\* A filled form is parked for the applicant's approval, from "filling" alone,
\* and never reported as ready: the worker program has no other result to send
\* (worker/main.ts:349-365).
ReportAssumption ==
    /\ Reports \subseteq
         [from : States, state : States, reason : Reasons, evidence : SUBSET Evidence]
    /\ \A report \in Reports :
         /\ report.reason \notin {"confirmed_submitted", "confirmed_not_submitted"}
         /\ report.reason = "submit_approval" => report.from = "filling"
         /\ report.state # "ready"
    /\ QuestionKinds \subseteq Waiting

ASSUME ControlAssumption ==
    /\ MaxAttempt \in Nat \ {0}
    /\ MaxProfile \in Nat
    /\ Lease \in Nat \ {0}
    /\ SubmitWait \in Nat \ {0}
    /\ RetryLimit \in Nat
    /\ "no_run" \notin Runs
    /\ "no_worker" \notin Workers
    /\ PolicyAssumption
    /\ ReportAssumption

VARIABLES
    app,        \* the row of each attempt of each role
    run,        \* the application runs
    policy,     \* the policy head: what is saved, enabled, expired
    profile,    \* the revision of the applicant's profile, 0 before the first
    revoked,    \* the workers whose token or pairing no longer stands
    manual,     \* the roles the applicant reported as applied by hand
    reviewed    \* history: the filled form last shown to the applicant

vars == <<app, run, policy, profile, revoked, manual, reviewed>>

-----------------------------------------------------------------------------
\* State

Apps == Roles \X (1..MaxAttempt)
RoleOf(a) == a[1]
AttemptOf(a) == a[2]

Window == SubmitWait + Lease    \* refuseOpenSubmission's age
NoLease == -1
NoIntent == -1
NoWorker == "no_worker"
NoRun == "no_run"

Bodies == Policies \union {EmptyPolicy}
RunState == {"absent", "running", "paused", "stopped"}

Row ==
    [state : States \union {"absent"},
     reason : Reasons,
     run : Runs \union {NoRun},
     lease : NoLease..Lease,
     known : States \union {"none"},
     stage : SafeStages \union {"none"},
     retries : 0..RetryLimit,
     wait : 0..Lease,
     hidden : BOOLEAN,
     asked : {"no", "open", "answered"},
     batch : BOOLEAN,
     intent : NoIntent..Window,
     receipt : BOOLEAN]

Run ==
    [state : RunState, worker : Workers \union {NoWorker}, bound : BOOLEAN,
     body : Bodies, targets : [Roles -> 0..MaxAttempt]]

Forms == {body.form : body \in Bodies} \union {"none"}

Review ==
    [form : Forms, profile : 0..MaxProfile, asked : {"no", "open", "answered"},
     approved : BOOLEAN]
NoReview == [form |-> "none", profile |-> 0, asked |-> "no", approved |-> FALSE]

PlaneTypeOK ==
    /\ app \in [Apps -> Row]
    /\ run \in [Runs -> Run]
    /\ policy \in [body : Bodies, enabled : BOOLEAN, expired : BOOLEAN]
    /\ profile \in 0..MaxProfile
    /\ revoked \subseteq Workers
    /\ manual \subseteq Roles
    /\ reviewed \in [Apps -> Review]

NewRow(r, retries) ==
    [state |-> "queued", reason |-> "none", run |-> r, lease |-> NoLease,
     known |-> "none", stage |-> "none", retries |-> retries, wait |-> 0,
     hidden |-> FALSE, asked |-> "no", batch |-> FALSE, intent |-> NoIntent,
     receipt |-> FALSE]

AbsentRow == [NewRow(NoRun, 0) EXCEPT !.state = "absent"]

AbsentRun ==
    [state |-> "absent", worker |-> NoWorker, bound |-> FALSE,
     body |-> EmptyPolicy, targets |-> [role \in Roles |-> 0]]

Init ==
    /\ app = [a \in Apps |-> AbsentRow]
    /\ run = [r \in Runs |-> AbsentRun]
    /\ policy = [body |-> EmptyPolicy, enabled |-> FALSE, expired |-> FALSE]
    /\ profile = 0
    /\ revoked = {}
    /\ manual = {}
    /\ reviewed = [a \in Apps |-> NoReview]

-----------------------------------------------------------------------------
\* What the handlers ask of a row

Present(a) == app[a].state # "absent"
Leased(row) == row.lease # NoLease
Unfinished(row) ==
    row.state \notin Terminal \union Ambiguous \union {"absent"}
WorkerOf(row) == IF row.run = NoRun THEN NoWorker ELSE run[row.run].worker

\* liveRun: an unknown submission may be read in any run; any other row needs
\* a running run on the enabled policy and a role not applied to by hand.
LiveRun(a) ==
    \/ app[a].state = "submission_unknown"
    \/ /\ run[app[a].run].state = "running"
       /\ RoleOf(a) \notin manual
       /\ policy.enabled
       /\ run[app[a].run].bound

\* currentDiscoveryPolicy
CurrentDiscovery(r) ==
    /\ run[r].state = "running"
    /\ policy.enabled
    /\ run[r].bound
    /\ "read_jobs" \in policy.body.actions

\* The pair a worker holds still matches: it was given one and neither number
\* moved since.  checkedLease's first test.
Matches(w, a) ==
    /\ w \notin revoked
    /\ Present(a)
    /\ WorkerOf(app[a]) = w
    /\ Leased(app[a])
    /\ app[a].known # "none"

\* checkedLease returns the row.
Checked(w, a) ==
    /\ Matches(w, a)
    /\ app[a].lease > 0
    /\ LiveRun(a)

\* The newest attempt of a's role.
Latest(a) ==
    \A b \in Apps : RoleOf(b) = RoleOf(a) /\ Present(b) =>
        AttemptOf(b) <= AttemptOf(a)

-----------------------------------------------------------------------------
\* What the handlers do to a row.  Moved is what every update does to the
\* pair the worker holds: the revision, and where a lease ends the fence, grow.

Moved(row) == [row EXCEPT !.known = "none"]
\* Mutant of Unleased: the fence does not grow.
UnleasedSameFence(row) == [row EXCEPT !.lease = NoLease]

Unleased(row) == [Moved(row) EXCEPT !.lease = NoLease]

\* Mutant of Released: what was being sent is left as it is.
ReleasedAsIs(row, why) == [Unleased(row) EXCEPT !.reason = why]

Released(row, why) ==
    [Unleased(row) EXCEPT
       !.state = IF @ = "submitting" THEN "submission_unknown" ELSE @,
       !.reason = IF row.state = "submission_unknown" /\ @ # "none"
                    THEN @ ELSE why]

\* The row with a new state and reason and no lease.
Settled(row, state, why) ==
    [Unleased(row) EXCEPT !.state = state, !.reason = why]

\* The row as it screens again, whatever was filled before.
Rescreened(row, why) ==
    [Settled(row, "screening", why) EXCEPT !.stage = "screening"]

\* The row leased again: the worker is told its state.
HandedOut(row, state) ==
    [row EXCEPT !.state = state, !.lease = Lease, !.known = state]

\* The form a worker parks for review, and the applicant's approval of it.
\* Any state other than these forgets the review.
Observed(a) ==
    LET before == app[a]
        after == app'[a]
    IN IF after.state \notin {"needs_policy_decision", "ready"} THEN NoReview
       ELSE IF before.state = "filling" /\ IsAwaitingApproval(after.state, after.reason)
       THEN [form |-> policy.body.form, profile |-> profile, asked |-> after.asked,
             approved |-> FALSE]
       ELSE IF before.state # after.state /\ before.state \in {"needs_policy_decision", "ready"}
       THEN [reviewed[a] EXCEPT !.approved = after.state = "ready"]
       ELSE reviewed[a]

Observe == reviewed' = [a \in Apps |-> Observed(a)]

-----------------------------------------------------------------------------
\* The worker's requests

\* The poll's first loop, over every leased row of the applicant.
PollReleased(w, a) ==
    LET row == app[a] IN
    IF ~Leased(row) THEN row
    ELSE IF WorkerOf(row) = w /\ row.state = "submission_unknown"
    THEN [Released(row, "system") EXCEPT !.wait = Lease]
    ELSE IF row.lease = 0 \/ ~LiveRun(a) THEN Released(row, "system")
    ELSE row

\* The runs after the daily start, which is due or not as the clock says.
InsertedRun(r, w) ==
    [run EXCEPT ![r] = [state |-> "running", worker |-> w, bound |-> TRUE,
                        body |-> policy.body, targets |-> [role \in Roles |-> 0]]]

\* Mutant of MayStartRun: a run that goes on already is not looked for.
MayStartAnother(r, w) == run[r].state = "absent" /\ policy.enabled

MayStartRun(r, w) ==
    /\ run[r].state = "absent"
    /\ policy.enabled
    /\ ~ \E s \in Runs : run[s].state = "running" /\ run[s].worker = w

DailyStart(w) ==
    {run} \union {InsertedRun(r, w) : r \in {s \in Runs : MayStartRun(s, w)}}

\* Mutants of Claimable: the board, or the worker's own lease, is not looked
\* at, and an unknown submission is read only in a running run.
ClaimableAnyBoard(w, rows, a) ==
    LET row == rows[a] IN
    /\ WorkerOf(row) = w
    /\ row.wait = 0
    /\ row.state \in {"queued"} \union Leasable
    /\ row.state # "submission_unknown" =>
         CurrentDiscovery(row.run) /\ RoleOf(a) \notin manual
    /\ \A b \in Apps \ {a} : Leased(rows[b]) => WorkerOf(rows[b]) # w

ClaimableAnyCount(w, rows, a) ==
    LET row == rows[a] IN
    /\ WorkerOf(row) = w
    /\ row.wait = 0
    /\ row.state \in {"queued"} \union Leasable
    /\ row.state # "submission_unknown" =>
         CurrentDiscovery(row.run) /\ RoleOf(a) \notin manual
    /\ \A b \in Apps \ {a} : Leased(rows[b]) =>
         TenantOf[RoleOf(b)] # TenantOf[RoleOf(a)]

ClaimableLiveOnly(w, rows, a) ==
    LET row == rows[a] IN
    /\ WorkerOf(row) = w
    /\ row.wait = 0
    /\ row.state \in {"queued"} \union Leasable
    /\ CurrentDiscovery(row.run) /\ RoleOf(a) \notin manual
    /\ \A b \in Apps \ {a} : Leased(rows[b]) => WorkerOf(rows[b]) # w

\* A row the poll may lease once the first loop has left rows: the worker's
\* live lease goes first and alone, and a board serves one lease at a time.
Claimable(w, rows, a) ==
    LET row == rows[a] IN
    /\ WorkerOf(row) = w
    /\ row.wait = 0
    /\ row.state \in {"queued"} \union Leasable
    /\ row.state # "submission_unknown" =>
         CurrentDiscovery(row.run) /\ RoleOf(a) \notin manual
    /\ \A b \in Apps \ {a} : Leased(rows[b]) =>
         /\ WorkerOf(rows[b]) # w
         /\ TenantOf[RoleOf(b)] # TenantOf[RoleOf(a)]

Claimed(row) ==
    HandedOut(row, IF row.state = "queued" THEN "screening"
                   ELSE IF row.state = "submitting" THEN "submission_unknown"
                   ELSE row.state)

\* The caps may hold every role not started yet, so a poll may pass those by.
Poll(w) ==
    /\ w \notin revoked
    /\ LET rows == [a \in Apps |-> PollReleased(w, a)]
           claims == {a \in Apps : Claimable(w, rows, a)}
       IN \/ \E a \in claims : app' = [rows EXCEPT ![a] = Claimed(rows[a])]
          \/ /\ \A a \in claims : rows[a].state = "queued"
             /\ app' = rows
    /\ run' \in DailyStart(w)
    /\ UNCHANGED <<policy, profile, revoked, manual>>

Heartbeat(w, a) ==
    /\ Checked(w, a)
    /\ app' = [app EXCEPT ![a].lease = Lease]
    /\ UNCHANGED <<run, policy, profile, revoked, manual>>

\* A heartbeat, event or question batch under a lease that ended commits the
\* release it answers with.  An intent or a receipt rolls it back instead.
LoseLease(w, a) ==
    /\ Matches(w, a)
    /\ app[a].lease = 0 \/ ~LiveRun(a)
    /\ app' = [app EXCEPT ![a] = Released(@, "system")]
    /\ UNCHANGED <<run, policy, profile, revoked, manual>>

\* An event ends the lease when it parks, settles or gives up the row.
EndsLease(state) == state \in Waiting \union Terminal \union {"submission_unknown"}

CheckpointStage(from, to) ==
    IF ~EndsLease(to) THEN to ELSE IF from = "submitting" THEN "ready" ELSE from

RecordEvent(w, a, report) ==
    LET stage == CheckpointStage(app[a].state, report.state) IN
    /\ Checked(w, a)
    /\ app[a].state = report.from
    /\ CanTransition(app[a].state, report.state, report.evidence)
    /\ stage \in SafeStages
    /\ EndsLease(report.state) => report.reason # "none"
    /\ app' = [app EXCEPT ![a] =
         [@ EXCEPT !.state = report.state, !.reason = report.reason,
                   !.stage = stage, !.batch = FALSE,
                   !.lease = IF EndsLease(report.state) THEN NoLease ELSE app[a].lease,
                   !.known = IF EndsLease(report.state) THEN "none" ELSE report.state]]
    /\ UNCHANGED <<run, policy, profile, revoked, manual>>

\* The batch holds the row on its first unanswered question, or, when every
\* question reused an answer, sends it to screen again.
RegisterQuestions(w, a) ==
    /\ Checked(w, a)
    /\ app[a].state \in SafeStages
    /\ \/ \E kind \in QuestionKinds : app' = [app EXCEPT ![a] =
            [Settled(@, kind, "question_unresolved") EXCEPT
               !.stage = app[a].state, !.asked = "open", !.batch = TRUE, !.wait = 0]]
       \/ app' = [app EXCEPT ![a] =
            [Rescreened(@, "none") EXCEPT
               !.asked = "answered", !.batch = TRUE, !.wait = 0]]
    /\ UNCHANGED <<run, policy, profile, revoked, manual>>

\* The intent is recorded before the form's submit is pressed, under a lease
\* on an approved form.  A replay of it changes nothing.
BeginSubmission(w, a) ==
    /\ Checked(w, a)
    /\ app[a].state = "ready"
    /\ app[a].intent = NoIntent
    /\ app' = [app EXCEPT ![a] =
         [@ EXCEPT !.state = "submitting", !.reason = "none", !.intent = 0,
                   !.known = "submitting"]]
    /\ UNCHANGED <<run, policy, profile, revoked, manual>>

\* A receipt needs the worker's lease but not the pair it was given: one kept
\* from an earlier lease is sent under the lease the worker reconciles with.
RecordReceipt(w, a) ==
    /\ w \notin revoked
    /\ Present(a)
    /\ WorkerOf(app[a]) = w
    /\ app[a].intent # NoIntent
    /\ ~app[a].receipt
    /\ app[a].state \in Ambiguous
    /\ app[a].lease > 0
    /\ LiveRun(a)
    /\ app' = [app EXCEPT ![a] =
         [Settled(@, "submitted", "none") EXCEPT !.receipt = TRUE]]
    /\ UNCHANGED <<run, policy, profile, revoked, manual>>

-----------------------------------------------------------------------------
\* Runs

CreateRun(w, r) ==
    /\ w \notin revoked
    /\ MayStartRun(r, w)
    /\ run' = InsertedRun(r, w)
    /\ UNCHANGED <<app, policy, profile, revoked, manual>>

\* Mutant of RowAfterRun: a stop cancels every row that is not over.
CancelledByRun(row, r, why) ==
    IF row.run # r \/ row.state \in Terminal THEN row
    ELSE IF why = "run_stopped" THEN Settled(row, "cancelled", why) ELSE Released(row, why)

\* releaseRunApplications: pause releases every unfinished row of the run and
\* stop cancels it as well, but neither takes back what may have been sent.
RowAfterRun(row, r, why) ==
    IF row.run # r \/ row.state \in Terminal THEN row
    ELSE LET released == Released(row, why) IN
         IF why = "run_stopped" /\ released.state # "submission_unknown"
         THEN [released EXCEPT !.state = "cancelled"] ELSE released

PauseRun(r) ==
    /\ run[r].state \in {"running", "paused"}
    /\ run' = [run EXCEPT ![r].state = "paused"]
    /\ app' = [a \in Apps |-> RowAfterRun(app[a], r, "run_paused")]
    /\ UNCHANGED <<policy, profile, revoked, manual>>

StopRun(r) ==
    /\ run[r].state \in {"running", "paused"}
    /\ run' = [run EXCEPT ![r].state = "stopped"]
    /\ app' = [a \in Apps |-> RowAfterRun(app[a], r, "run_stopped")]
    /\ UNCHANGED <<policy, profile, revoked, manual>>

ResumeRun(r) ==
    /\ run[r].state = "paused"
    /\ run[r].worker \notin revoked
    /\ policy.enabled
    /\ run[r].bound
    /\ ~ \E s \in Runs : /\ run[s].state = "running"
                         /\ run[s].worker = run[r].worker
                         /\ run[s].bound
    /\ run' = [run EXCEPT ![r].state = "running"]
    /\ UNCHANGED <<app, policy, profile, revoked, manual>>

-----------------------------------------------------------------------------
\* Attempts at a role

\* A run keeps, for each role its snapshots hold, the attempt found or made
\* when the role was staged; a later snapshot moves a role to a new attempt
\* only where that attempt is another run's and was stopped with nothing sent.
StoppedUnsent(row) ==
    row.state = "cancelled" /\ row.reason = "run_stopped" /\ row.intent = NoIntent

HoldsTarget(r, role) ==
    LET a == <<role, run[r].targets[role]>> IN
    /\ run[r].targets[role] # 0
    /\ app[a].run = r \/ ~StoppedUnsent(app[a])

\* Staging gives a role its first attempt, or another one when every attempt
\* before was ended by a stopped run or a restart with nothing sent.
ReleasedUnsent(row) ==
    /\ row.state = "cancelled"
    /\ row.reason \in {"run_stopped", "restarted"}
    /\ row.intent = NoIntent

NeedsAttempt(role) ==
    \A b \in Apps : RoleOf(b) = role /\ Present(b) => ReleasedUnsent(app[b])

\* b is the attempt that follows every attempt its role has.
IsNext(b) ==
    /\ ~Present(b)
    /\ AttemptOf(b) > 1 => Present(<<RoleOf(b), AttemptOf(b) - 1>>)

\* The last chunk of a snapshot of roles makes them claimable in run r.
StageRoles(r, roles) ==
    LET staged == {role \in roles \ manual : ~HoldsTarget(r, role)}
        fresh == {role \in staged : NeedsAttempt(role)}
        rows == [b \in Apps |->
                   IF RoleOf(b) \in fresh /\ IsNext(b) THEN NewRow(r, 0) ELSE app[b]]
        IsLast(b) == /\ rows[b].state # "absent"
                     /\ \A c \in Apps : RoleOf(c) = RoleOf(b) /\ AttemptOf(c) > AttemptOf(b)
                          => rows[c].state = "absent"
    IN /\ run[r].worker \notin revoked
       /\ CurrentDiscovery(r)
       /\ \A role \in fresh : ~Present(<<role, MaxAttempt>>)
       /\ \E targets \in [Roles -> 0..MaxAttempt] :
            /\ \A role \in staged : targets[role] # 0 /\ IsLast(<<role, targets[role]>>)
            /\ \A role \in Roles \ staged : targets[role] = run[r].targets[role]
            /\ run' = [run EXCEPT ![r].targets = targets]
       /\ app' = rows
       /\ UNCHANGED <<policy, profile, revoked, manual>>

\* nextAttempt: the attempt after a in run r, whose snapshot holds the role.
MayContinue(r, a) ==
    /\ Present(a)
    /\ Latest(a)
    /\ RoleOf(a) \notin manual
    /\ run[r].worker \notin revoked
    /\ run[r].targets[RoleOf(a)] # 0
    /\ AttemptOf(a) < MaxAttempt

\* Mutant of Continue: the run's target stays at the attempt before.
ContinueUntargeted(r, a, row, retries) ==
    /\ app' = [app EXCEPT ![a] = row,
                          ![<<RoleOf(a), AttemptOf(a) + 1>>] = NewRow(r, retries)]
    /\ UNCHANGED <<run, policy, profile, revoked, manual>>

Continue(r, a, row, retries) ==
    /\ app' = [app EXCEPT ![a] = row,
                          ![<<RoleOf(a), AttemptOf(a) + 1>>] = NewRow(r, retries)]
    /\ run' = [run EXCEPT ![r].targets[RoleOf(a)] = AttemptOf(a) + 1]
    /\ UNCHANGED <<policy, profile, revoked, manual>>

\* The cooldown is taken as over.
Reapply(r, a) ==
    /\ CurrentDiscovery(r)
    /\ policy.body.reapply
    /\ MayContinue(r, a)
    /\ app[a].state \in Terminal
    /\ ~Leased(app[a])
    /\ Continue(r, a, app[a], 0)

\* Mutant of WindowClosed: the lease the worker may still act under is left out.
WindowClosedEarly(row) == row.intent \notin 0..(SubmitWait - 1)

\* refuseOpenSubmission refuses while an intent is younger than the wait and
\* one lease.
WindowClosed(row) == row.intent \notin 0..(Window - 1)

RetryUnsubmitted(r, a) ==
    /\ CurrentDiscovery(r)
    /\ MayContinue(r, a)
    /\ \/ /\ app[a].state = "submission_unknown"
          /\ WindowClosed(app[a])
          /\ Continue(r, a, Settled(app[a], "failed", "confirmed_not_submitted"), 0)
       \/ /\ app[a].state = "needs_document"
          /\ IsSafeRetry(app[a].state, app[a].reason)
          /\ app[a].run # r
          /\ app[a].retries < RetryLimit
          /\ ~Leased(app[a])
          /\ Continue(r, a, Settled(app[a], "failed", "system"), app[a].retries + 1)

\* Mutants of Restart: the old attempt is not cancelled, or may be in doubt.
RestartBeside(r, a) ==
    /\ CurrentDiscovery(r)
    /\ MayContinue(r, a)
    /\ ~app[a].hidden
    /\ app[a].state \notin Ambiguous \union {"submitted"}
    /\ Continue(r, a, app[a], 0)

RestartInDoubt(r, a) ==
    /\ CurrentDiscovery(r)
    /\ MayContinue(r, a)
    /\ ~app[a].hidden
    /\ app[a].state # "submitted"
    /\ Continue(r, a, IF app[a].state \in Terminal THEN app[a]
                      ELSE Settled(app[a], "cancelled", "restarted"), 0)

Restart(r, a) ==
    /\ CurrentDiscovery(r)
    /\ MayContinue(r, a)
    /\ ~app[a].hidden
    /\ app[a].state \notin Ambiguous \union {"submitted"}
    /\ Continue(r, a, IF app[a].state \in Terminal THEN app[a]
                      ELSE Settled(app[a], "cancelled", "restarted"), 0)

-----------------------------------------------------------------------------
\* The applicant's commands on one application

Delete(a) ==
    /\ Present(a)
    /\ ~app[a].hidden
    /\ app[a].state \notin Ambiguous
    /\ app' = [app EXCEPT ![a] =
         [(IF @.state \in Terminal THEN Moved(@) ELSE Settled(@, "cancelled", "system"))
            EXCEPT !.hidden = TRUE]]
    /\ UNCHANGED <<run, policy, profile, revoked, manual>>

\* skip and cancel
Drop(a, state) ==
    /\ Unfinished(app[a])
    /\ app' = [app EXCEPT ![a] = Settled(@, state, "system")]
    /\ UNCHANGED <<run, policy, profile, revoked, manual>>

EmergencyStop(a) ==
    /\ Present(a)
    /\ app[a].state \notin Terminal
    /\ app' = [app EXCEPT ![a] =
         Settled(@, IF @.state \in Ambiguous THEN "submission_unknown" ELSE "cancelled",
                 "system")]
    /\ UNCHANGED <<run, policy, profile, revoked, manual>>

\* Mutant of RetrySafe: retries are not limited.
RetryAlways(a) ==
    /\ Present(a)
    /\ run[app[a].run].state # "stopped"
    /\ IsSafeRetry(app[a].state, app[a].reason)
    /\ app[a].stage # "none"
    /\ policy.enabled
    /\ run[app[a].run].bound
    /\ app' = [app EXCEPT ![a] =
         [Settled(@, IF @.stage = "ready" THEN "filling" ELSE @.stage, "system")
            EXCEPT !.retries = app[a].retries + 1, !.wait = 1]]
    /\ UNCHANGED <<run, policy, profile, revoked, manual>>

\* A form approved before is filled again, for a new review.
RetrySafe(a) ==
    /\ Present(a)
    /\ run[app[a].run].state # "stopped"
    /\ IsSafeRetry(app[a].state, app[a].reason)
    /\ app[a].stage # "none"
    /\ app[a].retries < RetryLimit
    /\ policy.enabled
    /\ run[app[a].run].bound
    /\ app' = [app EXCEPT ![a] =
         [Settled(@, IF @.stage = "ready" THEN "filling" ELSE @.stage, "system")
            EXCEPT !.retries = app[a].retries + 1, !.wait = 1]]
    /\ UNCHANGED <<run, policy, profile, revoked, manual>>

ApproveSubmit(a) ==
    /\ Present(a)
    /\ IsAwaitingApproval(app[a].state, app[a].reason)
    /\ run[app[a].run].state = "running"
    /\ policy.enabled
    /\ "submit" \in policy.body.actions
    /\ run[app[a].run].bound
    /\ app' = [app EXCEPT ![a] = [Settled(@, "ready", "system") EXCEPT !.wait = 0]]
    /\ UNCHANGED <<run, policy, profile, revoked, manual>>

ConfirmSubmitted(a) ==
    /\ app[a].state = "submission_unknown"
    /\ app' = [app EXCEPT ![a] = Settled(@, "submitted", "confirmed_submitted")]
    /\ UNCHANGED <<run, policy, profile, revoked, manual>>

ConfirmNotSubmitted(a) ==
    /\ app[a].state = "submission_unknown"
    /\ WindowClosed(app[a])
    /\ app' = [app EXCEPT ![a] = Settled(@, "failed", "confirmed_not_submitted")]
    /\ UNCHANGED <<run, policy, profile, revoked, manual>>

\* An answer screens the row again once no question of it is open.  A pause
\* hides the question, so the newest event says whether one held the row.
Answerable(a) ==
    /\ app[a].asked # "no"
    /\ Unfinished(app[a])
    /\ app[a].state \notin {"retryable_failure", "blocked_unsupported"}
    /\ LiveRun(a)
    /\ WorkerOf(app[a]) \notin revoked
    /\ app[a].state \in Waiting =>
         \/ app[a].reason = "question_unresolved"
         \/ app[a].reason = "run_paused" /\ app[a].batch

\* Another question holds the row when it is open, or its answer went stale
\* because the facts it rests on or its timeframe moved.
AnswerQuestion(a) ==
    /\ Answerable(a)
    /\ \/ app' = [app EXCEPT ![a] =
            [Rescreened(@, "none") EXCEPT !.asked = "answered", !.wait = 0]]
       \/ \E kind \in QuestionKinds : app' = [app EXCEPT ![a] =
            [Rescreened(@, "question_unresolved") EXCEPT
               !.state = kind, !.asked = "open", !.wait = 0]]
    /\ UNCHANGED <<run, policy, profile, revoked, manual>>

\* Mutant of MarkManual: a row a worker holds is left to it.
MarkUnleased(role) ==
    /\ role \notin manual
    /\ manual' = manual \union {role}
    /\ app' = [a \in Apps |->
         IF RoleOf(a) # role \/ Leased(app[a]) \/ ~Unfinished(app[a]) THEN app[a]
         ELSE [Released(app[a], "system") EXCEPT !.state = "skipped"]]
    /\ UNCHANGED <<run, policy, profile, revoked>>

\* Confirming an imported application made by hand ends Auto Apply's own.
MarkManual(role) ==
    /\ role \notin manual
    /\ manual' = manual \union {role}
    /\ app' = [a \in Apps |->
         LET row == app[a] IN
         IF RoleOf(a) # role \/ row.state \in Terminal \union {"absent", "submission_unknown"}
         THEN row
         ELSE LET released == Released(row, "system") IN
              IF released.state = "submission_unknown" THEN released
              ELSE [released EXCEPT !.state = "skipped"]]
    /\ UNCHANGED <<run, policy, profile, revoked>>

-----------------------------------------------------------------------------
\* The profile, and the policy.  Every policy command moves the head's
\* revision, so no run is bound to it until an enable carries forward the runs
\* that are not stopped.

\* Saving the profile changes no application: the next fill reads it.
SaveProfile ==
    /\ profile < MaxProfile
    /\ profile' = profile + 1
    /\ UNCHANGED <<app, run, policy, revoked, manual>>

Unbound == [r \in Runs |-> [run[r] EXCEPT !.bound = FALSE]]

SavePolicy(body) ==
    /\ policy' = [body |-> body, enabled |-> FALSE, expired |-> FALSE]
    /\ run' = Unbound
    /\ UNCHANGED <<app, profile, revoked, manual>>

DisablePolicy ==
    /\ policy' = [policy EXCEPT !.enabled = FALSE]
    /\ run' = Unbound
    /\ UNCHANGED <<app, profile, revoked, manual>>

\* The policy's expiry passes: nothing is written, but no policy is enabled.
ExpirePolicy ==
    /\ policy.body # EmptyPolicy
    /\ policy' = [policy EXCEPT !.enabled = FALSE, !.expired = TRUE]
    /\ UNCHANGED <<app, run, profile, revoked, manual>>

Live(r) == run[r].state \in {"running", "paused"}
Carried(r) == Live(r) /\ run[r].body.select = policy.body.select
Ended(r) == Live(r) /\ run[r].body.select # policy.body.select
Refilled(r) == Carried(r) /\ run[r].body.form # policy.body.form

\* carryRunsForward on one row, step by step.  Every lease from before ends.
EndLease(row) ==
    IF Leased(row) \/ row.state = "submitting"
    THEN Settled(row, IF row.state = "submitting" THEN "submission_unknown" ELSE row.state,
                 "system")
    ELSE row

\* Mutant of EndRun: a row that waits for the applicant is passed over.
EndRunUnderWay(row) ==
    IF Unfinished(row) /\ Ended(row.run) /\ row.state \notin Waiting
    THEN Settled(row, "cancelled", "run_stopped") ELSE row

\* A run whose rows the policy might not select ends as Stop ends it.
EndRun(row) ==
    IF Unfinished(row) /\ Ended(row.run) THEN Settled(row, "cancelled", "run_stopped") ELSE row

\* Mutant of WithdrawApproval: an approval outlives the permission to submit.
KeepApproval(row) == row

\* With Submit off an approved form waits for a new approval.
WithdrawApproval(row) ==
    IF row.state = "ready" /\ "submit" \notin policy.body.actions
    THEN Settled(row, "needs_policy_decision", "submit_approval") ELSE row

\* With reapplication off an attempt at a role submitted before ends.
EndReapplication(row, role) ==
    IF /\ ~policy.body.reapply
       /\ Unfinished(row)
       /\ Carried(row.run)
       /\ \E b \in Apps : RoleOf(b) = role /\ app[b].state = "submitted"
    THEN Settled(row, "cancelled", "system") ELSE row

\* A row waiting on questions, or a filled form that lost an answer, screens
\* again; a question that is not kept closes.
CarryQuestions(row, lost) ==
    LET filled == row.state \notin Waiting \/ IsAwaitingApproval(row.state, row.reason)
        waits == row.state \in Waiting /\ row.reason \in {"question_unresolved", "run_paused"}
        carried == IF waits \/ (lost /\ filled) THEN Rescreened(row, "system") ELSE row
    IN IF row.asked # "no" /\ Unfinished(row) /\ Carried(row.run)
       THEN [carried EXCEPT !.asked = IF lost THEN "no" ELSE @] ELSE row

\* Mutant of Refill: only an approved form is filled again.
RefillReady(row) ==
    IF row.state = "ready" /\ Refilled(row.run) THEN Rescreened(row, "system") ELSE row

\* A form reviewed before what fills it changed is filled again.
Refill(row) ==
    IF /\ row.state = "ready" \/ IsAwaitingApproval(row.state, row.reason)
       /\ Refilled(row.run)
    THEN Rescreened(row, "system") ELSE row

CarriedRow(a, lost) ==
    LET ended == WithdrawApproval(EndRun(EndLease(app[a])))
    IN Refill(CarryQuestions(EndReapplication(ended, RoleOf(a)), lost))

\* Mutant of CarriedRun: a paused run is not carried.
CarriedIfRunning(r, replacement) ==
    IF Carried(r) /\ run[r].state = "running"
    THEN [run[r] EXCEPT !.bound = TRUE, !.body = policy.body]
    ELSE IF Ended(r) THEN [run[r] EXCEPT !.bound = FALSE, !.state = "stopped"]
    ELSE [run[r] EXCEPT !.bound = FALSE]

\* A running run that ends is replaced by one that discovers again.
InPlaceOf(r, replacement) == CHOOSE s \in DOMAIN replacement : replacement[s] = r

CarriedRun(r, replacement) ==
    IF Carried(r) THEN [run[r] EXCEPT !.bound = TRUE, !.body = policy.body]
    ELSE IF Ended(r) THEN [run[r] EXCEPT !.bound = FALSE, !.state = "stopped"]
    ELSE IF \E s \in DOMAIN replacement : replacement[s] = r
    THEN [AbsentRun EXCEPT !.state = "running", !.bound = TRUE, !.body = policy.body,
            !.worker = run[InPlaceOf(r, replacement)].worker]
    ELSE [run[r] EXCEPT !.bound = FALSE]

Replaced == {r \in Runs : Ended(r) /\ run[r].state = "running"}

Replacements ==
    {f \in [Replaced -> {r \in Runs : run[r].state = "absent"}] :
       \A r, s \in Replaced : f[r] = f[s] => r = s}

\* A profile that is saved is taken as complete, and a policy that permits any
\* action as naming countries and destinations.
EnablePolicy(lost) ==
    /\ profile # 0
    /\ policy.body.actions # {}
    /\ ~policy.expired
    /\ \A a \in Apps : app[a].asked = "open" => a \in lost
    /\ policy' = [policy EXCEPT !.enabled = TRUE]
    /\ \E replacement \in Replacements :
         run' = [r \in Runs |-> CarriedRun(r, replacement)]
    /\ app' = [a \in Apps |-> CarriedRow(a, a \in lost)]
    /\ UNCHANGED <<profile, revoked, manual>>

-----------------------------------------------------------------------------
\* Revocation, and the clock

\* Mutant of RevokeWorker: a lease that ran out is not released.
RevokeCurrentLease(w) ==
    /\ w \notin revoked
    /\ revoked' = revoked \union {w}
    /\ run' = [r \in Runs |->
         IF run[r].worker = w /\ run[r].state = "running"
         THEN [run[r] EXCEPT !.state = "paused"] ELSE run[r]]
    /\ app' = [a \in Apps |->
         IF WorkerOf(app[a]) = w /\ app[a].lease > 0
         THEN Released(app[a], "system") ELSE app[a]]
    /\ UNCHANGED <<policy, profile, manual>>

\* invalidateWorker: revoked by the applicant, or found by the first request
\* after the household's credentials changed.
RevokeWorker(w) ==
    /\ w \notin revoked
    /\ revoked' = revoked \union {w}
    /\ run' = [r \in Runs |->
         IF run[r].worker = w /\ run[r].state = "running"
         THEN [run[r] EXCEPT !.state = "paused"] ELSE run[r]]
    /\ app' = [a \in Apps |->
         IF WorkerOf(app[a]) = w /\ (Leased(app[a]) \/ app[a].state = "submitting")
         THEN Released(app[a], "system") ELSE app[a]]
    /\ UNCHANGED <<policy, profile, manual>>

Later(n, bound) == IF n < bound THEN n + 1 ELSE n
Sooner(n) == IF n > 0 THEN n - 1 ELSE n

Aged(row) ==
    [row EXCEPT !.lease = Sooner(row.lease), !.wait = Sooner(row.wait),
                !.intent = IF row.intent = NoIntent THEN NoIntent
                           ELSE Later(row.intent, Window)]

Tick ==
    /\ app' = [a \in Apps |-> Aged(app[a])]
    /\ UNCHANGED <<run, policy, profile, revoked, manual>>

\* The server's clock is set back: a lease checked later than now has ended,
\* and what waited for a moment waits longer.
SetBack(row) ==
    [row EXCEPT !.lease = IF row.lease = NoLease THEN NoLease ELSE 0,
                !.wait = Later(row.wait, Lease), !.intent = Sooner(row.intent)]

ClockBack ==
    /\ app' = [a \in Apps |-> SetBack(app[a])]
    /\ UNCHANGED <<run, policy, profile, revoked, manual>>

-----------------------------------------------------------------------------
\* The specification

LeaseStep(w) ==
    Poll(w) \/ \E a \in Apps : Heartbeat(w, a) \/ LoseLease(w, a)

WorkStep(w) ==
    \E a \in Apps : \/ \E report \in Reports : RecordEvent(w, a, report)
                   \/ BeginSubmission(w, a)
                   \/ RecordReceipt(w, a)

QuestionStep ==
    \/ \E w \in Workers, a \in Apps : RegisterQuestions(w, a)
    \/ \E a \in Apps : AnswerQuestion(a)

WorkerStep == \E w \in Workers : LeaseStep(w) \/ WorkStep(w)

RunStep ==
    \/ \E w \in Workers, r \in Runs : CreateRun(w, r)
    \/ \E r \in Runs : PauseRun(r) \/ StopRun(r) \/ ResumeRun(r)

StageStep == \E r \in Runs, roles \in SUBSET Roles : StageRoles(r, roles)

AttemptStep ==
    \E r \in Runs, a \in Apps : Reapply(r, a) \/ RetryUnsubmitted(r, a) \/ Restart(r, a)

\* The applicant gives a role up, or says it was applied to by hand.
RemoveStep ==
    \/ \E a \in Apps : \/ Delete(a)
                       \/ \E state \in {"skipped", "cancelled"} : Drop(a, state)
                       \/ EmergencyStop(a)
    \/ \E role \in Roles : MarkManual(role)

\* The applicant lets an application go on, or decides what became of it.
DecideStep ==
    \E a \in Apps : \/ RetrySafe(a)
                   \/ ApproveSubmit(a)
                   \/ ConfirmSubmitted(a)
                   \/ ConfirmNotSubmitted(a)

PolicyStep ==
    \/ SaveProfile
    \/ \E body \in Policies : SavePolicy(body)
    \/ DisablePolicy
    \/ ExpirePolicy
    \/ \E lost \in SUBSET {a \in Apps : app[a].asked # "no"} : EnablePolicy(lost)

RevokeStep == \E w \in Workers : RevokeWorker(w)

ClockStep == Tick \/ ClockBack

Step ==
    \/ WorkerStep
    \/ QuestionStep
    \/ RunStep
    \/ StageStep
    \/ AttemptStep
    \/ RemoveStep
    \/ DecideStep
    \/ PolicyStep
    \/ RevokeStep
    \/ ClockStep

Next == Step /\ Observe

Spec == Init /\ [][Next]_vars

\* The worker program keeps polling, and the clock keeps going and is set
\* back only finitely often.
LiveSpec ==
    /\ Spec
    /\ <>[][~ClockBack]_vars
    /\ WF_vars(Tick /\ Observe)
    /\ \A w \in Workers : WF_vars(Poll(w) /\ Observe)

-----------------------------------------------------------------------------
(***************************************************************************)
(* Invariants.                                                             *)
(***************************************************************************)

\* The database's lease rules (0002_worker_control.sql): a leased row is in a
\* state work can go on from, one board and one worker hold one lease each.
\* poll, park, settle, stop and carry each write state and lease apart, and a
\* pair that breaks a rule aborts the handler that wrote it.
LeaseRules ==
    \A a \in Apps : Leased(app[a]) =>
        /\ app[a].state \in Leasable
        /\ \A b \in Apps \ {a} : Leased(app[b]) =>
             /\ TenantOf[RoleOf(b)] # TenantOf[RoleOf(a)]
             /\ WorkerOf(app[b]) # WorkerOf(app[a])

\* A fence and revision the worker holds never match a row that changed since
\* it was told of it: every handler that changes a leased row, the
\* applicant's, the policy's and the clock's included, moves the pair.
KnownMeansUnchanged ==
    \A a \in Apps : app[a].known # "none" =>
        Leased(app[a]) /\ app[a].known = app[a].state

\* A role has at most one attempt that is not over, and it is its newest
\* (0003's successor guard aborts any other insert).
OneLiveAttempt ==
    \A a, b \in Apps :
        /\ RoleOf(a) = RoleOf(b)
        /\ AttemptOf(a) < AttemptOf(b)
        /\ Present(b)
        => app[a].state \in Terminal /\ ~Leased(app[a])

\* What an intent leaves behind: a row that may have been sent is nowhere but
\* in doubt, received, or refused by the applicant, and none of these is
\* reached without an intent.
IntentDecides ==
    \A a \in Apps :
        /\ app[a].intent # NoIntent <=>
             \/ app[a].state \in Ambiguous \union {"submitted"}
             \/ app[a].state = "failed" /\ app[a].reason = "confirmed_not_submitted"
        /\ app[a].receipt => app[a].state = "submitted"

\* A revoked worker runs nothing and holds nothing, and a submission it was
\* making is in doubt rather than under way.
RevokedHoldsNothing ==
    /\ \A r \in Runs : run[r].worker \in revoked => run[r].state # "running"
    /\ \A a \in Apps : WorkerOf(app[a]) \in revoked =>
         ~Leased(app[a]) /\ app[a].state # "submitting"

\* While a policy is enabled, every run that may still lease is bound to it:
\* no handler finds a row of such a run under a policy that changed.
EnabledBindsRuns ==
    policy.enabled => \A r \in Runs : Live(r) => run[r].bound

\* A worker has one running run: a second would stage every role again.
OneRunningRun ==
    \A r, s \in Runs :
        /\ run[r].state = "running"
        /\ run[s].state = "running"
        /\ run[r].worker = run[s].worker
        => r = s

\* Nothing goes on under a run that stopped, except that a submission in
\* doubt stays to be reconciled; the same for a role applied to by hand.
EndedWorkIsOver ==
    \A a \in Apps :
        \/ ~Present(a)
        \/ run[app[a].run].state # "stopped" /\ RoleOf(a) \notin manual
        \/ app[a].state \in Terminal \union {"submission_unknown"}

\* What still goes on under a run is what the run's snapshot points at: the
\* worker's context, the run's counts and a further attempt all start there.
\* Staging, and a new attempt made by another run, move the pointers.
TargetsFollowWork ==
    \A a \in Apps : Unfinished(app[a]) =>
        run[app[a].run].targets[RoleOf(a)] = AttemptOf(a)

\* An approved form is one the enabled policy lets the worker submit, and one
\* filled under it: a policy that stops submitting, or fills another form,
\* withdraws the approval before any worker can lease the row.
ReadyIsPermitted ==
    \A a \in Apps : app[a].state = "ready" /\ LiveRun(a) =>
        /\ "submit" \in policy.body.actions
        /\ reviewed[a].approved
        /\ reviewed[a].form = policy.body.form

\* What the policy, the runs and the pairings are at any moment binds the work
\* at hand: a revoked worker holds no lease, an enabled policy's runs are its
\* own, ended work is over, and what is ready to be sent may be submitted.
WorkIsBound ==
    /\ RevokedHoldsNothing /\ EnabledBindsRuns /\ EndedWorkIsOver /\ ReadyIsPermitted

\* stores.ts:323 says an approval covers the form the applicant reviewed, and
\* a change to what fills it needs a new fill and review.  The profile fills
\* it too: an approved form was filled from the profile that stands.
ApprovalCoversProfile ==
    \A a \in Apps : app[a].state = "ready" /\ LiveRun(a) =>
        reviewed[a].profile = profile

-----------------------------------------------------------------------------
(***************************************************************************)
(* Action properties.                                                      *)
(***************************************************************************)

Intends(a) == app[a].intent = NoIntent /\ app'[a].intent # NoIntent

\* What goes to the employer is what the applicant approved: the form was
\* shown, approved after it was last filled, and neither the policy's form
\* nor the answers it was filled with changed in between.
SubmitsWhatWasApproved ==
    [][\A a \in Apps : Intends(a) =>
          /\ reviewed[a].approved
          /\ reviewed[a].form = policy.body.form
          /\ reviewed[a].asked = app[a].asked]_vars

\* A submission leaves doubt only by a receipt, by the applicant's word, or,
\* for "not submitted", after the employer's window closed (0009's trigger
\* and refuseOpenSubmission), and an attempt that is over stays over.
LeavesDoubtForGood ==
    [][\A a \in Apps :
          /\ app[a].state \in Terminal => app'[a].state = app[a].state
          /\ app[a].state \in Ambiguous => app'[a].state \in Ambiguous \/
               \/ app'[a].state = "submitted" /\ (app'[a].receipt \/
                     app'[a].reason = "confirmed_submitted")
               \/ /\ app'[a].state = "failed"
                  /\ app'[a].reason = "confirmed_not_submitted"
                  /\ app[a].intent >= Window]_vars

\* An earlier attempt at a's role was received.
Resent(a) == \E b \in Apps : /\ RoleOf(b) = RoleOf(a)
                             /\ AttemptOf(b) < AttemptOf(a)
                             /\ app[b].state = "submitted"

\* stores.ts:302 says a role the employer already received needs the policy's
\* permission to go on, not only to start.
ReapplyNeedsPermission ==
    [][\A a \in Apps : Intends(a) /\ Resent(a) => policy.body.reapply]_vars

\* worker-store.ts:40 says an unknown submission keeps the reason the worker
\* gave, because the applicant decides from it.
UnknownKeepsReason ==
    [][\A a \in Apps :
          /\ app[a].state = "submission_unknown" /\ app[a].reason = "worker"
          /\ app'[a].state = "submission_unknown"
          => app'[a].reason = "worker"]_vars

-----------------------------------------------------------------------------
(***************************************************************************)
(* The promise to the employer, and liveness.                              *)
(***************************************************************************)

OutcomeOf(a) ==
    IF app[a].intent = NoIntent THEN "unsent"
    ELSE IF app[a].state \in Ambiguous THEN "open"
    ELSE IF app[a].state = "submitted" THEN "received"
    ELSE "refuted"

Ledger == INSTANCE SubmissionLedger WITH
    outcome <- [a \in Apps |-> OutcomeOf(a)],
    window <- [a \in Apps |-> app[a].intent \in 0..(Window - 1)]

\* The control plane keeps SubmissionLedger's promise: for one role, one
\* submission at a time, and refuted only once the window closed.
KeepsLedger == Ledger!LedgerSpec

\* No submission stays under way: it ends received or in doubt, whatever
\* happens to its worker's lease, run, policy or token.
SubmittingEnds ==
    \A a \in Apps : app[a].state = "submitting" ~> app[a].state # "submitting"

\* A submission in doubt is given back to its worker to read, as long as the
\* worker is not revoked and the applicant has not decided.
DoubtIsReconciled ==
    \A a \in Apps : app[a].state = "submission_unknown" ~>
        \/ Leased(app[a])
        \/ app[a].state # "submission_unknown"
        \/ WorkerOf(app[a]) \in revoked
=============================================================================
