-------------------------- MODULE DiscoveryStaging --------------------------
(***************************************************************************)
(* How postings become queued applications (discovery.ts).  A poll of a    *)
(* worker claims a run's capture lease in one transaction, reads the       *)
(* collected postings outside any, commits what it read as a manifest in a *)
(* second, and stages one chunk of it in a third; only the transaction     *)
(* that stages the last chunk queues applications.  Several polls may be   *)
(* under way, each may die between its transactions, and the applicant     *)
(* stops runs, reports roles and restarts attempts in between.             *)
(*                                                                         *)
(* ControlPlane has leases, caps and what happens to an attempt once it is *)
(* queued; here an attempt is live, at the employer, over, or released by  *)
(* the command that stopped or restarted it.  A chunk is one role.  Time is*)
(* the capture lease alone: captureUntil is in the future ("held") or not, *)
(* which also says when a ready run scans again.                           *)
(***************************************************************************)
EXTENDS Naturals, Sequences, FiniteSetsExt

CONSTANTS
    Roles,          \* employer roles with a resolved identity
    Runs,           \* application runs, each of a worker of its own
    Polls,          \* polls the server may be serving at once
    Versions,       \* contents of a posting
    First,          \* the content of every posting when the runs start
    Refused,        \* contents the policy's screen holds back
    MaxManifests, MaxAttempts, MaxChanges, MaxCommands, MaxFaults

NoPoll == "none"
Gone == "gone"
Manifests == 1..MaxManifests
Contents == Versions \cup {Gone}
Absent == [manifest |-> 0, version |-> Gone, disposition |-> "absent", app |-> 0]
NoManifest == [run |-> NoPoll, content |-> [x \in Roles |-> Gone], left |-> {},
               state |-> "none", reported |-> {}]
Idle == [step |-> "idle", run |-> NoPoll, manifest |-> 0, content |-> <<>>]

VARIABLES
    corpus,         \* the content of each role's posting, or that it is gone
    run,            \* [state, discovery state, token, held, manifest]
    manifest,       \* the snapshots, staged role by role
    target,         \* of a run and a role: snapshot, disposition, application
    app,            \* the attempts of a role, oldest first
    marks,          \* roles reported as applied by hand, identity resolved
    loose,          \* roles whose posting was reported, identity unresolved
    poll,           \* what each poll has in hand between its transactions
    changes, commands, faults

vars == <<corpus, run, manifest, target, app, marks, loose, poll, changes, commands, faults>>

Init ==
    /\ corpus = [x \in Roles |-> First]
    /\ run = [r \in Runs |-> [state |-> "running", discovery |-> "idle",
                              token |-> NoPoll, held |-> FALSE, manifest |-> 0]]
    /\ manifest = [m \in Manifests |-> NoManifest]
    /\ target = [r \in Runs |-> [x \in Roles |-> Absent]]
    /\ app = [x \in Roles |-> <<>>]
    /\ marks = {} /\ loose = {}
    /\ poll = [p \in Polls |-> Idle]
    /\ changes = 0 /\ commands = 0 /\ faults = 0

\* currentDiscoveryPolicy: a paused run stands for one whose policy moved on.
Current(r) == run[r].state = "running"
Owns(p) == run[poll[p].run].token = p
Listed(content) == {x \in Roles : content[x] # Gone}
Newest(rows, x) == rows[x][Len(rows[x])]
Ready(m) == m # 0 /\ manifest[m].state = "ready"

\* An attempt a stop or a restart released, with nothing submitted: its role
\* may be queued afresh.
Released(a) == a.state \in {"stopped", "restarted"} /\ ~a.intent

-----------------------------------------------------------------------------
\* A poll.

\* The first transaction: claim the run, or resume the snapshot it stages.
Select(p, r) ==
    LET resumed == run[r].discovery = "staging" /\ run[r].manifest # 0
    IN /\ poll[p].step = "idle" /\ Current(r) /\ ~run[r].held
       /\ IF resumed
          THEN /\ UNCHANGED run
               /\ poll' = [poll EXCEPT ![p] =
                    [Idle EXCEPT !.step = "stage", !.run = r, !.manifest = run[r].manifest]]
          ELSE /\ run' = [run EXCEPT ![r].discovery = "capturing", ![r].token = p, ![r].held = TRUE]
               /\ poll' = [poll EXCEPT ![p] = [Idle EXCEPT !.step = "capture", !.run = r]]
       /\ UNCHANGED <<corpus, manifest, target, app, marks, loose, changes, commands, faults>>

\* The authorization is checked once more, then the corpus is read.
Capture(p) ==
    /\ poll[p].step = "capture" /\ Owns(p) /\ Current(poll[p].run)
    /\ poll' = [poll EXCEPT ![p].step = "commit", ![p].content = corpus]
    /\ UNCHANGED <<corpus, run, manifest, target, app, marks, loose, changes, commands, faults>>

MayCommit(p) == Owns(p) /\ Current(poll[p].run) /\ run[poll[p].run].held

Scanned(r, m, state, held) ==
    run' = [run EXCEPT ![r].discovery = state, ![r].token = NoPoll,
                       ![r].held = held, ![r].manifest = m]

\* The second transaction: an unchanged corpus keeps the snapshot there is.
Commit(p) ==
    LET r == poll[p].run
        old == run[r].manifest
        new == {m \in Manifests : manifest[m].state = "none"}
    IN /\ poll[p].step = "commit" /\ MayCommit(p)
       /\ IF Ready(old) /\ manifest[old].content = poll[p].content
          THEN /\ Scanned(r, old, "ready", TRUE)
               /\ poll' = [poll EXCEPT ![p] = Idle]
               /\ UNCHANGED manifest
          ELSE /\ new # {}
               /\ Scanned(r, Min(new), "staging", FALSE)
               /\ manifest' = [manifest EXCEPT ![Min(new)] =
                    [run |-> r, content |-> poll[p].content, left |-> Listed(poll[p].content),
                     state |-> "staging", reported |-> marks \cup loose]]
               /\ poll' = [poll EXCEPT ![p] =
                    [Idle EXCEPT !.step = "stage", !.run = r, !.manifest = Min(new)]]
       /\ UNCHANGED <<corpus, target, app, marks, loose, changes, commands, faults>>

Fault == faults < MaxFaults /\ faults' = faults + 1

MayGoOn(p) ==
    IF poll[p].step = "commit" THEN MayCommit(p) ELSE Owns(p) /\ Current(poll[p].run)

\* A refused or failed capture gives the run back only if it still holds it.
CaptureFails(p) ==
    /\ poll[p].step \in {"capture", "commit"}
    /\ IF MayGoOn(p) THEN Fault ELSE UNCHANGED faults
    /\ run' = IF Owns(p)
              THEN [run EXCEPT ![poll[p].run].discovery = "failed",
                               ![poll[p].run].token = NoPoll, ![poll[p].run].held = TRUE]
              ELSE run
    /\ poll' = [poll EXCEPT ![p] = Idle]
    /\ UNCHANGED <<corpus, manifest, target, app, marks, loose, changes, commands>>

-----------------------------------------------------------------------------
\* The third transaction.

\* A duplicate whose application another run released is looked at afresh.
Freed(t, x) ==
    IF /\ t.disposition = "duplicate" /\ t.app # 0
       /\ app[x][t.app].state = "stopped" /\ ~app[x][t.app].intent
    THEN [t EXCEPT !.app = 0] ELSE t

\* Mutant of Upserted: the target always follows the newest snapshot.
UpsertedAlways(t, x, m) ==
    [manifest |-> m, version |-> manifest[m].content[x], app |-> t.app,
     disposition |-> IF x \in loose THEN "manual_reported"
                     ELSE IF manifest[m].content[x] \in Refused THEN "held_policy"
                     ELSE "eligible"]

\* The row of a chunk's role: evidence is not moved while an application or
\* a report holds it.
Upserted(t, x, m) ==
    IF t.app # 0 \/ t.disposition = "manual_reported" THEN t
    ELSE [manifest |-> m, version |-> manifest[m].content[x], app |-> 0,
          disposition |-> IF x \in loose THEN "manual_reported"
                          ELSE IF manifest[m].content[x] \in Refused THEN "held_policy"
                          ELSE "eligible"]

\* Mutant of Suppressed: only what was known when the chunk was staged.
SuppressedBefore(t, x, m) == t

\* The last chunk looks again for roles reported while it was staged.
Suppressed(t, x, m) ==
    IF t.manifest = m /\ x \in marks THEN [t EXCEPT !.disposition = "manual_reported"] ELSE t

Blocked(x) == \E i \in DOMAIN app[x] : ~Released(app[x][i])

NewAttempt(r, m, version) ==
    [run |-> r, manifest |-> m, version |-> version, state |-> "live", intent |-> FALSE]

\* Superseded snapshots of the run that nothing points at are pruned.
Unused(r, m, targets, rows) ==
    {n \in Manifests \ {m} :
        /\ manifest[n].run = r
        /\ \A s \in Runs : run[s].manifest # n
        /\ \A s \in Runs, x \in Roles : targets[s][x].manifest # n
        /\ \A x \in Roles : \A i \in DOMAIN rows[x] : rows[x][i].manifest # n}

\* What the applications and targets are once the last chunk is staged.
Queued(r, m, staged) ==
    [x \in Roles |->
        IF staged[x].manifest = m /\ staged[x].disposition = "eligible" /\ ~Blocked(x)
        THEN Append(app[x], NewAttempt(r, m, staged[x].version)) ELSE app[x]]
Pointed(r, m, staged, rows) ==
    [x \in Roles |->
        IF staged[x].manifest = m /\ staged[x].disposition = "eligible"
        THEN [staged[x] EXCEPT
                !.app = Len(rows[x]),
                !.disposition = IF Newest(rows, x).run = r THEN "eligible" ELSE "duplicate"]
        ELSE staged[x]]

Finish(r, m, staged) ==
    LET checked == [x \in Roles |-> Suppressed(staged[x], x, m)]
        rows == Queued(r, m, checked)
        targets == [target EXCEPT ![r] = Pointed(r, m, checked, rows)]
    IN /\ \A x \in Roles : Len(rows[x]) <= MaxAttempts
       /\ app' = rows
       /\ target' = targets
       /\ manifest' = [n \in Manifests |->
            IF n = m THEN [manifest[n] EXCEPT !.state = "ready", !.left = {}]
            ELSE IF n \in Unused(r, m, targets, rows)
                 THEN [NoManifest EXCEPT !.state = "pruned"] ELSE manifest[n]]
       /\ run' = [run EXCEPT ![r].discovery = "ready", ![r].held = TRUE]

Stage(p) ==
    LET m == poll[p].manifest
        r == poll[p].run
    IN /\ poll[p].step = "stage"
       /\ poll' = [poll EXCEPT ![p] = Idle]
       /\ IF manifest[m].state = "staging" /\ Current(r) /\ run[r].manifest = m
          THEN \E chunk \in IF manifest[m].left = {} THEN {{}}
                            ELSE {{x} : x \in manifest[m].left} :
                 LET staged == [x \in Roles |->
                        IF x \in chunk THEN Upserted(Freed(target[r][x], x), x, m)
                        ELSE target[r][x]]
                 IN IF manifest[m].left # chunk
                    THEN /\ target' = [target EXCEPT ![r] = staged]
                         /\ manifest' = [manifest EXCEPT ![m].left = @ \ chunk]
                         /\ UNCHANGED <<run, app>>
                    ELSE Finish(r, m, staged)
          ELSE UNCHANGED <<run, manifest, target, app>>
       /\ UNCHANGED <<corpus, marks, loose, changes, commands, faults>>

\* The server stops serving the poll, or a transaction of it fails.
Dies(p) ==
    /\ Fault /\ poll[p].step # "idle"
    /\ poll' = [poll EXCEPT ![p] = Idle]
    /\ UNCHANGED <<corpus, run, manifest, target, app, marks, loose, changes, commands>>

\* The capture lease, or the wait for the next scan, is over.
Expire(r) ==
    /\ run[r].held
    /\ run' = [run EXCEPT ![r].held = FALSE]
    /\ UNCHANGED <<corpus, manifest, target, app, marks, loose, poll, changes, commands, faults>>

-----------------------------------------------------------------------------
\* The applicant, the worker and the collected postings.

Commanded == commands < MaxCommands /\ commands' = commands + 1

Pause(r) ==
    /\ Commanded /\ run[r].state = "running"
    /\ run' = [run EXCEPT ![r].state = "paused"]
    /\ UNCHANGED <<corpus, manifest, target, app, marks, loose, poll, changes, faults>>

Resume(r) ==
    /\ Commanded /\ run[r].state = "paused"
    /\ run' = [run EXCEPT ![r].state = "running"]
    /\ UNCHANGED <<corpus, manifest, target, app, marks, loose, poll, changes, faults>>

AfterStop(r) ==
    [run[r] EXCEPT !.state = "stopped", !.token = NoPoll, !.held = FALSE,
        !.discovery = IF @ \in {"capturing", "staging"} THEN "abandoned" ELSE @]

\* Stopping a run, and abandoning its discovery, which stops it too.
Stop(r) ==
    /\ Commanded /\ run[r].state # "stopped"
    /\ run' = [run EXCEPT ![r] = AfterStop(r)]
    /\ manifest' = [m \in Manifests |->
         IF m = run[r].manifest /\ run[r].discovery = "staging"
         THEN [manifest[m] EXCEPT !.state = "abandoned"] ELSE manifest[m]]
    /\ app' = [x \in Roles |-> [i \in DOMAIN app[x] |->
         IF app[x][i].run = r /\ app[x][i].state = "live"
         THEN [app[x][i] EXCEPT !.state = "stopped"] ELSE app[x][i]]]
    /\ UNCHANGED <<corpus, target, marks, loose, poll, changes, faults>>

\* The newest attempt goes on: its intent is recorded, or it ends.
Advance(x, state) ==
    /\ Commanded /\ app[x] # <<>>
    /\ \/ /\ Newest(app, x).state = "live"
          /\ state = "employer" => Current(Newest(app, x).run)
       \/ Newest(app, x).state = "employer" /\ state = "over"
    /\ app' = [app EXCEPT ![x][Len(app[x])].state = state,
                          ![x][Len(app[x])].intent = @ \/ state = "employer"]
    /\ UNCHANGED <<corpus, run, manifest, target, marks, loose, poll, changes, faults>>

\* Mutant of Refrozen: a snapshot that is still being staged serves too.
RefrozenEarly(r, x) ==
    LET latest == run[r].manifest
    IN IF /\ latest # 0 /\ latest # target[r][x].manifest
          /\ manifest[latest].content[x] # Gone /\ ~Newest(app, x).intent
       THEN [target[r][x] EXCEPT !.manifest = latest,
                                 !.version = manifest[latest].content[x]]
       ELSE target[r][x]

\* The applicant's next attempt of a role in run r: a restart, a retry or a
\* reapplication, with the snapshot its target holds or the run's latest.
Refrozen(r, x) ==
    LET latest == run[r].manifest
    IN IF /\ Ready(latest) /\ latest # target[r][x].manifest
          /\ manifest[latest].content[x] # Gone /\ ~Newest(app, x).intent
       THEN [target[r][x] EXCEPT !.manifest = latest,
                                 !.version = manifest[latest].content[x]]
       ELSE target[r][x]

NextAttempt(r, x) ==
    LET frozen == Refrozen(r, x)
        last == Len(app[x])
        ended == IF Newest(app, x).state = "live"
                 THEN [app[x] EXCEPT ![last].state = "restarted"] ELSE app[x]
    IN /\ Commanded /\ Current(r) /\ x \notin marks
       /\ last \in 1..(MaxAttempts - 1) /\ Newest(app, x).state # "employer"
       /\ target[r][x].disposition \in {"duplicate", "eligible"}
       /\ Ready(target[r][x].manifest) /\ frozen.version \notin Refused
       /\ app' = [app EXCEPT ![x] =
                    Append(ended, NewAttempt(r, frozen.manifest, frozen.version))]
       /\ target' = [target EXCEPT ![r][x] =
                    [frozen EXCEPT !.app = last + 1, !.disposition = "eligible"]]
       /\ UNCHANGED <<corpus, run, manifest, marks, loose, poll, changes, faults>>

\* An import of applications made by hand, of a posting that names its role
\* (its live attempt is skipped and its targets say so) or does not.
Report(x) ==
    /\ Commanded /\ x \notin marks
    /\ marks' = marks \cup {x}
    /\ app' = [app EXCEPT ![x] = [i \in DOMAIN @ |->
                 IF @[i].state = "live" THEN [@[i] EXCEPT !.state = "over"] ELSE @[i]]]
    /\ target' = [r \in Runs |-> [target[r] EXCEPT ![x] =
                 IF @.manifest = 0 THEN @ ELSE [@ EXCEPT !.disposition = "manual_reported"]]]
    /\ UNCHANGED <<corpus, run, manifest, loose, poll, changes, faults>>

ReportUnresolved(x) ==
    /\ Commanded /\ x \notin loose
    /\ loose' = loose \cup {x}
    /\ UNCHANGED <<corpus, run, manifest, target, app, marks, poll, changes, faults>>

\* The pipeline collects, edits or delists a posting.
Change(x, content) ==
    /\ changes < MaxChanges /\ content # corpus[x]
    /\ corpus' = [corpus EXCEPT ![x] = content]
    /\ changes' = changes + 1
    /\ UNCHANGED <<run, manifest, target, app, marks, loose, poll, commands, faults>>

-----------------------------------------------------------------------------
PollStep(p) ==
    \/ \E r \in Runs : Select(p, r)
    \/ Capture(p) \/ Commit(p) \/ CaptureFails(p) \/ Stage(p)

Next ==
    \/ \E p \in Polls : PollStep(p) \/ Dies(p)
    \/ \E r \in Runs : Expire(r) \/ Pause(r) \/ Resume(r) \/ Stop(r)
    \/ \E x \in Roles : \/ \E state \in {"employer", "over"} : Advance(x, state)
                        \/ \E r \in Runs : NextAttempt(r, x)
                        \/ Report(x) \/ ReportUnresolved(x)
                        \/ \E content \in Contents : Change(x, content)

Spec == Init /\ [][Next]_vars

-----------------------------------------------------------------------------
\* Every variable keeps its type, and only the last chunk's transaction
\* makes a member claimable: an attempt's snapshot was staged whole.
TypeOK ==
    /\ corpus \in [Roles -> Contents]
    /\ \A r \in Runs :
         /\ run[r].state \in {"running", "paused", "stopped"}
         /\ run[r].discovery \in {"idle", "capturing", "staging", "ready", "failed", "abandoned"}
         /\ run[r].token \in Polls \cup {NoPoll}
    /\ \A m \in Manifests :
         /\ manifest[m].state \in {"none", "staging", "ready", "abandoned", "pruned"}
         /\ manifest[m].left \subseteq Roles
    /\ \A x \in Roles : Len(app[x]) <= MaxAttempts

\* A live attempt can be worked: its snapshot is kept and complete, and the
\* target of its run names that snapshot, with the content it was queued
\* with, so the worker's context finds it (application-context.ts:169).
WorkerFindsItsTarget ==
    \A x \in Roles : app[x] # <<>> =>
        LET a == Newest(app, x)
            t == target[a.run][x]
        IN a.state \in {"live", "employer"} =>
            /\ Ready(a.manifest)
            /\ t.manifest = a.manifest /\ t.version = a.version /\ t.app = Len(app[x])

\* A snapshot any attempt was made from is never pruned, so that attempt's
\* evidence and its next attempt's stay readable.
EvidenceIsKept ==
    \A x \in Roles : \A i \in DOMAIN app[x] : manifest[app[x][i].manifest].state # "pruned"

\* What is staged belongs to the run that is staging it: no poll that lost
\* its capture lease or whose run stopped leaves a snapshot behind that
\* nobody completes.
StagingIsResumed ==
    \A m \in Manifests : manifest[m].state = "staging" =>
        LET r == manifest[m].run
        IN run[r].manifest = m /\ run[r].discovery = "staging" /\ run[r].state # "stopped"

\* The snapshots discovery keeps serve the attempts made from them and the
\* runs that stage them, whatever poll, stop or restart came in between.
SnapshotsServe == WorkerFindsItsTarget /\ EvidenceIsKept /\ StagingIsResumed

\* Discovery never queues a role that was reported as applied by hand: by
\* its identity, at any time, or by its posting, before the snapshot was
\* committed.
QueuesNoReported ==
    \A r \in Runs, x \in Roles :
        /\ run'[r].discovery = "ready" /\ run[r].discovery = "staging"
        /\ Len(app'[x]) > Len(app[x])
        => x \notin marks' \cup manifest[run[r].manifest].reported

\* The comment in stageDiscoveryManifest: a role another run held is
\* evaluated afresh once that run stopped and released it unsubmitted.
ReleasedIsEvaluated ==
    \A r \in Runs : run'[r].discovery = "ready" /\ run[r].discovery = "staging" =>
        \A x \in Listed(manifest[run[r].manifest].content) :
            (/\ app'[x] # <<>> /\ Newest(app', x).state = "stopped" /\ ~Newest(app', x).intent
             /\ Newest(app', x).run # r)
            => manifest[run[r].manifest].content[x] \in Refused \/ x \in marks \cup loose
=============================================================================
