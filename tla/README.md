# A job dashboard, in TLA+

This directory specifies and checks the repository, a job dashboard with two
halves. One collects public postings: connectors read employers' boards, a
pipeline groups and stores what they list, and a copy is mirrored to a hosted
database that a page shows. The other, *Auto Apply*, sends a person's job
applications: a server keeps one row per application, and a worker program on
the person's own computer fills the employer's form, shows it, and submits it
once it was approved. Most of what can go wrong is in between: a worker that is
slow, dead or repeated, an applicant who pauses, stops, restarts, edits and
decides at any moment, pages whose requests are lost, boards that change while
they are read, and batch runs that are killed.

The core, what decides *whether something reaches an employer*, is modelled
whole, transaction by transaction (`ControlPlane`) and, from the other end,
request by request (`WorkerSession`). Around it every part that keeps state has
a module of its own.

## Inventory

| Part | State it keeps | Operations | What is hard about it | Module |
| --- | --- | --- | --- | --- |
| Leases (`lib/applications/leases.ts`, `worker-store.ts`, `events.ts`) | per row: state, lease, fence, revision, checkpoint, wait | poll, heartbeat, event, release, revocation | two workers and the applicant on one row; old fences; a clock set back | `ControlPlane` |
| Runs and commands (`runs.ts`) | runs, the policy they are bound to | create, pause, resume, stop; skip, cancel, delete, emergency stop, retry, approve, confirm | a command between intent and receipt | `ControlPlane` |
| Submissions (`submissions.ts`) | intent and receipt of a row | begin, receipt | duplicated and late requests, doubt | `ControlPlane`, `SubmissionLedger` |
| Policy, profile (`stores.ts`) | versions and heads | save, enable, disable, expiry, carry-forward | one command rewrites every run, row and question, in order | `ControlPlane` |
| Discovery (`discovery.ts`, `discovery-source.ts`) | capture leases, manifests, targets, attempts, what was started when | capture, commit, stage in chunks, prune, restart; hold by caps | work outside a transaction; overlapping polls; rival runs; counts over rows that go on changing | `DiscoveryStaging`, `ClaimCaps` |
| Questions (`questions.ts`, `application-context.ts`) | questions, answers, facts | register, answer, reuse, reopen, carry | one answer moves rows; loops of fill and ask | `FormAnswers` |
| Focus requests (`questions.ts`, `worker/question-client.ts`) | interventions, a journal | ask, page, acknowledge, replay | revisions of two rows; at-least-once delivery | `FocusRelay` |
| Worker program (`worker/`) | lease, guard, journal, kept receipt | loop, heartbeat, stages, shutdown | crashes between press and receipt; a heartbeat racing a stage | `WorkerSession` |
| Materials (`main.ts`, `materials.ts`, `artifacts.ts`) | artifacts, letters | tailor, upload, fill, review, send | four choices of the same thing from data that changes | `Materials` |
| Employer forms (`worker/ats/`) | the page | fill, settle, submit | a page that acts by itself | `FormFill` |
| Documents (`documents.ts`, `documents-storage.ts`) | rows and bytes | grant, receive, complete, validate, clean up | two stores, no common transaction | `DocumentStore` |
| Provider usage (`worker/providers.ts`) | a ledger of reserved and used calls | reserve, settle, expire | a lock that is not waited for, crashes, midnight | `ProviderBudget` |
| Pairing (`pairing.ts`, `worker/pairing.ts`) | grants, registration, a file and a keychain | create, pair, revoke | lost answers; two stores on the program's side | `Pairing` |
| Live review (`live.ts`, `worker/live.ts`, `applications.tsx`) | newest frame | publish, read, approve | frames in flight, requests read apart | `LiveReview` |
| Inbox page (`inbox/control.ts`) | drafts, a vault, an answer under way | type, send, retry, recover; load pages | late answers, reloads, other accounts; a feed that grows | `InboxControl`, `InboxWalk` |
| Workers page (`workers/control.ts`) | a pending command, superseded ones | send, retry, take over | lost answers over three revisions | `RunConsole` |
| Profile editor (`profile-drafts.ts`, `profile-editor.tsx`) | drafts, encrypted slots | save, retry, review, recover, retire | two sessions, key renewal, reloads | `ProfileDraft` |
| Notes (`talkie/`, `notes.ts`) | drafts, edits in lanes, rows | autosave, attach, acknowledge, recover | late first saves, duplicate keys, several browsers | `NoteDraft`, `NoteLane` |
| Imports and checks (`imports.ts`, `import/control.ts`, `applied-sync.tsx`) | marks on roles | preview, confirm; tick, report | permanent marks from undoable ticks; accounts | `ImportReview`, `AppliedChecks` |
| Filter form (`auto-apply.tsx`, `filter-defaults.tsx`) | held changes, the saved filter | tick, choose, navigate | navigations that land late | `FilterForm` |
| Refresh (`refresh-queue.ts`, `claim-refresh.ts`, `refresh.sh`, `refresh-button.tsx`) | requests, claims, a lock directory, a watch | ask, claim, run, finish; take over; press, watch | runners given up too early; killed processes; late answers | `RefreshQueue`, `RefreshLock`, `RefreshButton` |
| Pipeline (`scripts/ingest.ts`, `dedupe.ts`, `ghost.ts`, `linkcheck.ts`, `merge-duplicates.ts`) | postings, their sources | group, store, retire, age, check, merge | regrouping over what earlier runs stored | `PostingPipeline` |
| Mirror (`push-remote.ts`, `pull-remote.ts`) | hashes of what was sent | pull, push, strays | old caches, partial pushes, unique keys | `Mirror` |
| Connectors (`connectors/`, `lib/runtime.ts`) | cursors, slots, robots.txt | scan, resume, fetch | boards that change while read | `OffsetScan`, `CatalogScan`, `PoliteFetch` |
| Company registry (`resolve-companies.ts`, `ats-probe.js`) | the registry, a report | probe, confirm, write | guesses, partial runs | `Registry` |
| Search, text (`query.ts`, `extract.ts`, `normalize.ts`, `geo.ts`) | none | pure functions | text | none |

The parts of Auto Apply meet in one place: an application's row. The worker's
requests, the applicant's commands, the policy's carry-forward, a new snapshot,
an answer, an import and a revocation all read and write it, and each ends or
respects the lease in its own way. `ControlPlane` has that row with all of
them. The modules around it take the row's effect on them (a lease is held or
lost, an attempt ended) as a step of its own and look at the state they keep
themselves. The parts of the pipeline run one after the other and meet in the
database and its files.

What makes the parts correct, in the order of their weight: one decision of the
applicant reaches an employer at most once; what may have reached an employer is
never forgotten; what is sent is what was approved and meant; a worker acts only
on a row as it last saw it; ended work stays ended; nothing stays in limbo; what
an applicant typed is kept; what a page says is true; a posting stays the job it
was and is shown while its sources list it.

## Modules

**The core**

- **`ApplicationStates`** - `state.ts`: the states, their classes, and which
  transitions an event may ask for.
- **`ControlPlane`** - the server's side for one applicant. One action is one
  committed transaction.
- **`SubmissionLedger`** - the abstract promise to one employer: per attempt,
  *unsent*, *open*, *received* or *refuted*; one open attempt of a role at a
  time; refuted only when the form's window closed. `ControlPlane` implements it
  (`KeepsLedger`), with intent, receipt and window as the refinement mapping.
- **`WorkerSession`** - the program on the applicant's computer against one row:
  `runtime.ts`, `guard.ts`, `transport.ts`, `application-runner.ts` and the
  submit of `ats/protocol.ts`. Its loop and its heartbeat share a mutexed channel
  (`call`), a stage talks beside them (`ask`), and a request nobody waits for any
  more is `late` and may still be handled.
- **`DiscoveryStaging`**, **`ClaimCaps`**, **`FormAnswers`**, **`Materials`**, **`FormFill`**,
  **`DocumentStore`**, **`ProviderBudget`**, **`Pairing`** - what an application
  goes through beside its row. Each names in its header what it abstracts.

**Pages** - **`InboxControl`**, **`InboxWalk`**, **`FocusRelay`**,
**`RunConsole`**, **`LiveReview`**, **`ProfileDraft`**, **`NoteDraft`**,
**`NoteLane`**, **`ImportReview`**, **`AppliedChecks`**, **`FilterForm`**,
**`RefreshButton`**: each a page's state machine against the server behind it,
with requests that are lost, late or repeated, reloads, other pages and another
account where the code has them.

**Postings** - **`PostingPipeline`**, **`Mirror`**, **`OffsetScan`**,
**`CatalogScan`**, **`PoliteFetch`**, **`Registry`**, and for when a cycle
runs, **`RefreshQueue`** and **`RefreshLock`**.

**Instances** - `MCControlPlane` gives `ControlPlane` its constants, `MCOrders`
joins four instances of it, `MCRefresh` the queue and the lock, `MCPostings`,
`MCApplications` and `MCPages` the modules of their group. The modules joined
share no state with one another: a variable (`part`, `stage`, `screen`), chosen at
the start and never changed, names the one a behaviour is of. This checks each of them exactly as a
run of its own would, with one question per group.

**Proofs** - `ControlPlane_proofs`, `WorkerSession_proofs`,
`DiscoveryStaging_proofs`; `MCRefresh` itself, of the queue, the lock and both;
`Stores_proofs`, of `DocumentStore`, `ProviderBudget`, `Pairing` and `ClaimCaps`;
`Forms_proofs`, of `FormAnswers`, `FormFill` and `Materials`; `Components_proofs`,
of `AppliedChecks`, `ImportReview`, `Mirror`, `OffsetScan`, `CatalogScan`,
`PoliteFetch` and `Registry`. `MCControlPlane` extends the
proofs of `ControlPlane`, `MCPages` and `MCPostings` extend `Components_proofs`,
and `MCApplications` instantiates those of its parts: an instance then has the
theorems. `Parts_proofs` extends the four `MC` modules of joined parts and shows
that the constants of their parts are what the theorems ask for, and that a
behaviour of a part is one of the instance.

### State of `ControlPlane`

| Variable | In the code |
| --- | --- |
| `app` | `applications` rows by role and attempt, with the submission (`intent`, `receipt`) and what the row's questions and last event say (`asked`, `batch`) |
| `run` | `application_runs`, with the targets of their snapshots and the policy body they were last bound to |
| `policy` | the policy head: body, enabled, whether its expiry passed |
| `profile` | the revision of the profile head |
| `revoked` | workers whose token, pairing or credential binding no longer stands |
| `manual` | `manual_application_marks` |
| `reviewed` | history, not in the code: which form, from which profile and answers, was last shown for approval |

### Actions of `ControlPlane`

| Action | Transaction |
| --- | --- |
| `Poll` | `pollWorker`: releases ended leases of every worker, may start the day's run, leases one row or none |
| `Heartbeat`, `LoseLease` | `heartbeatWorker`, `checkedLease` with and without a lease that stands |
| `RecordEvent` | `recordWorkerEvent` |
| `BeginSubmission`, `RecordReceipt` | `beginSubmission`, `recordReceipt` |
| `RegisterQuestions`, `AnswerQuestion` | `registerQuestionBatch`, `answerIn` with `reschedule` |
| `CreateRun`, `PauseRun`, `StopRun`, `ResumeRun` | `createRun`, `commandRun` |
| `StageRoles` | the last chunk of `stageDiscoveryManifest` |
| `Reapply`, `RetryUnsubmitted`, `Restart` | the three callers of `nextAttempt` |
| `Delete`, `Drop`, `EmergencyStop`, `RetrySafe`, `ApproveSubmit`, `ConfirmSubmitted`, `ConfirmNotSubmitted` | `commandApplication` |
| `MarkManual` | `confirmLegacyImport` |
| `SaveProfile`, `SavePolicy`, `DisablePolicy`, `EnablePolicy`, `ExpirePolicy` | `saveProfile`, `mutatePolicy` with `carryRunsForward`; the expiry is the clock's |
| `RevokeWorker` | `invalidateWorker`, by the applicant or on the first request after the credentials changed |
| `Tick`, `ClockBack` | the server's clock |

### What `ControlPlane` abstracts

- *Time* is relative: a lease is the ticks it has left, an intent its age, a
  wait the ticks until the row is available; each is held at its bound.
- *Fence and revision* only grow and are only compared for equality, so a row
  keeps `known`: the state the worker was told together with the pair that still
  matches, or `"none"` once either number moved. A request with another pair is
  refused before it changes anything and is not an action. In the same way a run
  keeps whether it is `bound` to the head's policy revision, version and hash.
- *Reason codes* are kept where a handler reads them.
- *A policy* is the class of what it selects with, the class of what fills a
  form under it, whether it permits reapplication, and the two actions a handler
  asks for. A saved profile is taken as complete.
- *Caps and order* of the poll's candidates: a poll may pass by any row that was
  not started; `ClaimCaps` has what the caps count. The cooldown of a reapplication is taken as over.
- *Staging* is its last chunk, which alone makes rows; `DiscoveryStaging` has the
  rest. Abandoning a snapshot stops its run the way `StopRun` does.
- *The worker* is any program that holds a token: it may send what its pair
  permits, at any time, or nothing ever again. `WorkerSession` is the program
  the repository has.

### `WorkerSession`

| Variable | In the code |
| --- | --- |
| `row`, `seen` | the row, its lease and intent at the server; whether the journal's report was recorded |
| `net`, `standing` | the request and answer on each channel; which holders' fence is the row's |
| `proc`, `held` | the process and its abort signal; the lease it believes in, with the guard's deadline |
| `stage`, `form` | how far the stage and its submit are; the employer's form and who pressed it |
| `disk` | the journal's pending report, the kept receipt, the count of failed starts |

Its actions are the server's answers (`Serve`), the network (`Lose`, `Delay`,
`Resend`), the loop (`Start`, `Recovered`, `Poll`, `Polled`, `SendKept`,
`Reconciled`, ...), the beat (`Heartbeat`, `Renewed`, `BeatMissed`,
`BeatRefused`, `Watchdog`, `StageTimeout`), the stage (`FillEnds`, `Begin`,
`Advance`, `Press`, `Confirmed`, `Unconfirmed`, `SendReceipt`, `KeepReceipt`,
`Journal`, `Acknowledged`, ...), and `Exit`, `Crash`, `Tick`. A fence is only
compared for equality, so `standing` keeps which holder's still matches.

### State and actions of the other modules

| Module | Its variables stand for | Its actions |
| --- | --- | --- |
| `DiscoveryStaging` | postings; per run its capture lease and snapshot; manifests with what is left to stage; targets; attempts; marks; the polls being served | a poll's three transactions and its read between them, its death; the capture lease running out; pause, resume, stop; an attempt's end, restart; a report by hand; a posting's change |
| `ClaimCaps` | the clock, per row its state, start and whether it was sent; marks made by hand | a claim under the caps; each end of a row; a mark; the clock |
| `FormAnswers` | kinds of fields, facts, the policy, the row, its questions by attempt, saved answers, what was refused | lease and loss, screening and form questions, fill, refusal, approval, send; answers, saved profile, enabled policy, retry, next attempt |
| `Materials` | profile, policy, posting, form; the row; artifacts and the kept letter; the worker's context; what was seen and sent | each stage with its fetch of the context, tailoring, upload, holding the letter, parking, submit; edits; loss, death, retry |
| `FormFill` | the vendor, what the form asks, what is saved, what the page shows and holds, the server's saves | the page's own steps and the adapter's |
| `DocumentStore` | rows, bytes, requests under way step by step | create, receive, complete, validate, download, clean up, artifact; time; death |
| `ProviderBudget` | the ledger file, its lock, requests, what was billed | reserve, send, answer, settle, crash, tick, midnight |
| `Pairing` | grants, the registration, the binding; the program's file and keychain; requests in flight | both sides' steps, expiry, revocation, change of credentials, loss |
| `LiveReview` | the row, the worker's fill, frames in flight, the newest kept, the page's copies | the worker's frames and park, server, the page's reads, Apply, a policy change |
| `FocusRelay` | the application's revisions, questions, requests, the worker's journal | ask, poll, crash, restart, deliver, settle |
| `InboxWalk` | the feed, what is open, what the page has loaded | load, refresh, need, mark read; a notification, an answer elsewhere |
| `InboxControl`, `ProfileDraft` | the page, its vault's slots, storing and retiring, requests in flight, the server | type, save, store, retire, retry, recover, reload, sign in as another |
| `NoteDraft`, `NoteLane` | the draft or lanes, storage, requests (those a page or lane left too), rows | type, timer, save, answer, reload, other browsers |
| `RunConsole` | run, worker and rival revisions, copies of requests, the view | send, overtake, retry, refuse, read |
| `ImportReview`, `AppliedChecks` | marks, previews or ticks, requests, accounts | preview, select, vouch, import; tick, untick, report |
| `FilterForm` | address, navigation, controls, held change, saved filter | tick, choose, leave, land, follow, save, clear |
| `RefreshButton` | the cycle, requests, rows, presses and polls in flight, the view | press, answers, interval, cycle |
| `PostingPipeline` | what sites list; postings, source rows, the run, the check | list, retitle, ingest, ghost pass, die, read pages, write verdicts, merge |
| `Mirror` | the database, the cache, the mirror, the job's step | begin, cycle, push row by row, save, lose |
| `OffsetScan`, `CatalogScan` | the board or catalog, the scan, what was committed | change, read a page, fail, keep, save the cursor, die |
| `PoliteFetch` | callers and where fetch followed them, slots, robots loads | begin, robots, send at the slot or later, answer, redirect, follow, busy, tick |
| `Registry` | boards, registry, report, a run's steps | start, probe, fail, close a group, write, leave |
| `RefreshQueue` | requests with the age and number of their claim, runners, faults | ask, claim, run, finish, fail, tick |
| `RefreshLock` | the lock directory and its pid, processes step by step; history: whether starts overlapped, which cycle began undisturbed | launch at any time, go, crash |

## Runs

| Run | Question | Instances | Distinct states |
| --- | --- | --- | --- |
| `Whole` | Is one application consistent with its worker, intent, run and policy after every sequence of all actions? | 1 worker, 1 role, 1 run, 3 policies that differ in form and in permitting submission | 224,968 |
| `Orders` | One run, one attempt and one lease at a time, and the ledger kept? | *selection*: 2 runs, 2 policies; *attempts*: 2 attempts in 2 runs under a policy that permits reapplication; *board*: 2 symmetric workers, 2 roles of one board, 2 runs; *boards*: 1 worker, 3 roles of 2 boards | 667,217 |
| `Progress` | Do submissions and doubts end up somewhere, and is doubt left for good? | lease and window of 2 ticks, 2 retries, one policy, with fairness | 111,796 |
| `Worker` | Does the program press one form once, within its lease, and keep what it did? | lease 2, window 1, 2 faults, 1 command | about 1,000,000 |
| `WorkerGoesOn` | Does a kept receipt arrive and does the program poll again? | 1 fault, no command, with fairness | about 179,000 |
| `Refresh` | Do requests keep their claims and end; does the lock leave alone a cycle that runs, and not wedge? | 1 visitor, 2 requests, a job and a runner by hand, 1 fault; 2 shells, 2 mirrors, 2 crashes, starts that overlap; with fairness | 484,047 |
| `Postings` | Are postings told apart, shown, mirrored and fetched as their sources say? | six modules, each with 1 to 3 changes, runs and failures | 1,725,968 |
| `Applications` | Does each part an application goes through keep what it holds true? | eight modules, discovery twice; 2 symmetric polls, or requests of a store | 2,031,484 |
| `Pages` | Is what is typed kept, what waits shown, what a page says true? | twelve modules: a note, its edits and the board's checks twice, the profile and the inbox four times | 1,567,495 |
| `ReapplyPermission`, `MirrorLands`, `ApprovedIsReviewed` | the findings below | 3 attempts; 2 rows; 2 fills | stop at the counterexample |

What the properties say:

- `KnownMeansUnchanged` - a row the worker may still act on is leased and in the
  state it was told. Every handler has to move the fence or the revision for it.
- `IntentDecides` - intent and state tell one story: nothing that may have been
  sent is queued, filling, waiting or cancelled.
- `WorkIsBound` - what revocations, policies, imports and withdrawn permissions
  leave behind: no lease of a revoked worker, runs bound to the enabled policy,
  ended work that is over, approvals only under the permission to submit.
- `SubmitsWhatWasApproved` - an intent is recorded only for a row that was
  approved after it was last shown, under a policy that fills that class of form,
  with the questions it was reviewed with. A profile saved after the approval is
  not compared: it goes through (see "Other disagreements").
- `OneAtATime`, `LeaseRules` - one running run, one live attempt of a role with
  its run's target on it, one lease of a worker and of an employer's board.
- `KeepsLedger` - refinement of `SubmissionLedger`.
- `LeavesDoubtForGood`, `SubmittingEnds`, `DoubtIsReconciled` - doubt ends by a
  receipt, by the applicant's word, or as "not submitted" after the window, and
  it ends.
- `OneSender`, `NothingSentAfterRefuted` - whatever died, one process sends the
  form, and none once the applicant could say it was not sent.
- `GuardWithinLease` - the worker never believes in its lease for longer than
  the server does. `DeadlineFromAnswer` counts from the answer instead of from
  the request, and breaks it.
- `WorkIsNotDropped` - a journalled report is let go only when it was recorded
  or its lease is over, and a stop leaves a form its window.
- `ReceiptArrives`, `KeepsPolling` - liveness of the program.
- `CloudKeepsItsClaim`, `OutcomeIsOfTheClaim`, `AnswerIsFresh`, `RequestsEnd` -
  the queue: the claim of a job stands, what is shown is of the claim that
  stands, nobody is given a request that was over, requests end.
- `OneCycle` - whoever starts beside it, however many at once and wherever they
  are killed: a cycle that began while nobody else was about to take or to remove
  the lock is the only one to its end, and the lock names it; and every cycle is
  such a one while no start met another under way. `CyclesGoOn` - once starts no
  longer overlap, no lock that crashes or overlapping starts left behind, with or
  without a pid, wedges the cycles after it. That two starts at once may both
  run a cycle is `NeverTwoCycles`, which fails (below).
- `BoardIsSound` - two requisitions of one answer are two postings; what is on
  the board has a source; a dead page stays hidden. `PostingsAreKept` - a posting
  keeps its requisition, becomes a ghost only when every source left it out of
  two whole answers in a row, and is lost from the mirror only by a merge.
- `MirrorIsComplete` - no source is on the mirror without its posting; a push
  that ended well left exactly the database's postings, and every row as it is
  here when no answer and no runner was lost before.
- `FetchesAreSound` - an answer that passes for whole is, of a board that stood
  still and told how many it has; the kept cursor never passes uncommitted rows;
  no request is *sent* by the harness but where the rules of its host allow it,
  guarded ones only to public hosts, no two in slots closer than their host asked,
  in whatever order timers fire, and each so many times; the registry holds only
  boards it confirmed and loses none. What `fetch` follows by itself is outside
  all this, and the module says so (`FollowedIsAsked`, below).
- `FormsAreMeant` - no loop of filling and asking, no application left with its
  questions answered, open questions hold their form; what goes out is the
  reviewed answer, resume and letter, allowed by the policy of that moment, and
  neither a script of the page nor a late parse nor a dropped save replaces it.
- `SnapshotsServe`, `QueuesNoReported` - attempts keep a snapshot that is whole;
  a role reported by hand is never queued.
- `StoresAgree` - rows agree with bytes, the ledger with what was billed, the
  registration with the token the program holds, and what was started with the
  caps: on no day more than the policy's, of all and of one employer, and in no
  span of an employer's more than it takes, although rows go on changing after
  a poll counted them.
- `TypedIsKept` - what was typed last is in the database or in the browser's
  storage, and is lost only to a request that a page left on its way when it was
  loaded again, or an older lane when it was discarded (`late`): those may be
  served at any later moment. A lane that was told of all its writes ends with
  what was typed last; one draft is one note. In the inbox, where an edit is taken
  whatever is under way: a draft that counts as sent was sent or came up while a
  batch was under way, and a command whose outcome no page was told is pending,
  unless it was sent before it was stored.
- `QuestionsReach` - a walk over a growing feed shows each open question in its
  reach and marks read only what was shown; a focus request is carried out once.
- `ScreenIsTrue` - a command the page forgot is over, a stop it reports is in
  force; a form awaiting approval has its own picture and answers stored beside
  it; the last filter asked for wins; a busy refresh button will be answered.
- `MarksAreMeant` - a mark is one its applicant ticked or vouched for.

**Bounds.** One tick of lease tells "before" from "after" its end; two, in
`Progress` and `Worker`, tell the window of `WindowClosed` from the wait without
the lease, and a renewal from an advance. Two attempts exercise each way one
attempt follows another; three are needed for a command after a reapplication.
Two runs are what a replacement, a second run and a duplicate target take. In
`WorkerSession` two faults are a lost request and a crash, the pair each of its
safety properties is about; one command is one that ends the lease under the
worker. In the other modules every bound is a constant named `Max...` and guards
the action that would pass it; each counts faults, edits, retries, runs or
requests, and two of a kind, plus one fault, is what the hazards take: a second
request late for the first, a second page or account, one change during a scan.
Where a constant is larger, an action or a mutant of that module needed it to be
reached. `PerRun`, `Quota`, `Page`, `Cap`, `RetryLimit` and the like are the
code's limits made small; `ContainedLimit` is the code's 3 made 1.

**Assumptions that are constants.** Some modules say of the world that an
answer comes before a wait of the code ends. Each is a constant, so that what
rests on it can be seen by setting it to the other value:

| Constant | What it says | Without it |
| --- | --- | --- |
| `Steady` (`FormAnswers`) | a refused dropdown lists the options it listed | a question asked with other options is another question and is asked again |
| `Patient` (`FormFill`) | the page is ready, a resume parsed and a save landed before the adapter's wait ends (`greenhouse.ts:150`, `lever.ts:112`, `ashby.ts:30`) | an answer may be replaced |
| `Patient` (`FilterForm`) | a link or the back button waits until the form has settled | a held tick navigates over it 450 ms later |
| `Prompt` (`RefreshButton`) | an answer comes before the next tick of the interval | an old answer ends a newer watch; the button may stay disabled or say "refreshed" early |
| `Reloads = FALSE` (*two checks*) | the board is not opened within the grace of a tick | the sync on load reports it at once (`applied-sync.tsx:61` promises the grace) |

**Fairness.** `ControlPlane`: the worker's program polls in an endless loop and
gives up a stage after `STAGE_TIMEOUT_MS`, therefore `Poll` is weakly fair for
each worker; the clock goes on, and is set back only finitely often. Nothing is
assumed of the applicant or of any other request. A revoked worker polls no
more, which is why `DoubtIsReconciled` excepts it. `WorkerSession`: the program's
own steps and timers (`LoopStep`, `SubmitStep`, watchdog, stage timeout, what a
beat does with its answer), answers of the server to requests that are waited
for, and the clock. Nothing is assumed of the employer's page, of the stage
before its submit, or of late requests. `WorkerGoesOn` takes no command of the
applicant, only for its size. `RefreshQueue`: a job of the workflow goes on by
itself and the schedule starts jobs again and again; only `MaxFaults` jobs, writes and answers
fail; nothing is assumed of runners started by hand, or of visitors.
`RefreshLock`: a process may be started at any moment, beside any other; once
started it goes on by itself, and launchd starts a cycle again and again, also at
moments at which nobody else is starting one (`SF` of a launch while all is
`Calm`). While starts overlap for ever, a mirror that throws where a shell goes on
can be met by a shell at every turn, which is why `CyclesGoOn` speaks of what
comes after the last overlap.

**Deadlock** is checked in every run but `Postings`, `Applications`, `Pages` and
the two findings on modules of theirs: the parts joined there come to rest, at
the end of a form, a submission or a scan, or at a bound.

## Findings

1. `ReapplyNeedsPermission` - a restart makes an attempt at a role the employer
   has received after the permission to reapply was taken back.
2. `MirrorLands` - rows are upserted by id; one that takes the `dedupe_key` a row
   with a higher id gave up in the same cycle is refused by the UNIQUE index, and
   so is every push after it. `push-remote.ts` describes the case of a *deleted*
   twin and solves that one.
3. `ApprovedIsReviewed` - the page reads rows and pictures apart and approves by
   the row's revision, so the fill that is approved may be one the page has not
   shown, where `stores.ts` says that an approval covers the form the applicant
   reviewed.

### Other disagreements, seen in the models

These came up while the modules were written. Each is a definition in its
module, or a setting of a constant, and no run lists it; the comment or document
it disagrees with is named.

- *Core.* Enabling a policy or an emergency stop writes its own reason over the
  one a worker gave for a submission in doubt (`UnknownKeepsReason`;
  `worker-store.ts:40`). A profile saved after an approval fills the form that is
  sent (`ApprovalCoversProfile`; `stores.ts:323`). A policy without `fill_forms`
  leaves questions that nobody can answer (`questions.ts:102`).
- *Lock.* "One cycle at a time" (`refresh.sh:48`) is not so of two starts at once
  (`NeverTwoCycles`): a lock has no pid between `mkdir` and `echo`, which
  `refresh.sh` takes for stale and removes (`:60`), and of two that read the pid
  of a dead cycle the second removes the lock the first has just made. Both then
  run, the lock names one of them, and the first to end removes it for both. The
  refresh button and launchd may start so (`push-remote.ts:264`).
- *Discovery.* A role another run released is not always evaluated afresh
  (`ReleasedIsEvaluated`). A mark without an identity that arrives after the
  snapshot does not hold the role back.
- *Worker.* A beat can end the work of a worker whose lease stands
  (`BeatsKeepAlive`; `runtime.ts:64`): its renewal was handled late under the
  revision before an advance. A stop may close a form's window early
  (`StopIsIgnored`; `runtime.ts:335`) by way of the stage's own time limit.
- *Money.* What a provider charges in a day may pass the limit by what could not
  be settled (`BilledWithin`); a settlement after midnight finds no reservation,
  and the limit per run starts anew; an abandoned `.recovery` directory locks the
  ledger for good (`storage.ts:90`).
- *Forms.* An optional field without an answer may go out with what the page put
  there (`LeftBlankIsBlank`; `main.ts:361`). What the page lists as sent may be
  another letter after the master resume was switched twice (`ShownIsSent`;
  `materials.ts:11`); switching it once under `tailored_artifact_required` leaves
  no way on but a new attempt (`main.ts:279`).
- *Pairing.* A grant that is refused after its first answer was lost did register
  a worker (`RefusedNeverRegistered`; `worker/pairing.ts:58`); the server revokes
  it, which is why `NoOrphan` holds.
- *Documents.* A file torn by a crash of the local store stays; artifacts count
  in the quota and never expire.
- *Pages.* A lost verification code is dropped without a word. An aborted
  emergency stop keeps a stale revision, and one 403 ends a pending command. A
  focus request stays pending once its question's revision moved, and a newer one
  may not be current (`NewestIsCurrent`). A deleted note comes back by its late
  first save (`DeletedStaysDeleted`). A save of a new note that a page left on its
  way when it was loaded again lands over what was typed since
  (`NothingLostAnyway`); so does a write of a discarded lane of a kept note, or of
  one whose page was loaded again (`EditKeptAnyway`), and an edit kept in
  storage overwrites another browser's newer one. "Returning to A must queue A"
  (`autosave.ts:28`) is not so when the answer to B was lost: the text typed back
  to A is what the lane believes the server has, and B stays (`LaneLandsAnyway`).
  In the inbox an edit is taken while answers are on their way: a batch then
  marks it clean, although it was not sent (`CleanIsSentAnyway`;
  `inbox/control.ts:314`); and its save overtakes the one `execute` waits for, so
  that a page that dies may have sent a command nobody keeps as pending
  (`PendingIsKeptAnyway`). Recovering
  a profile draft over unsaved edits drops them. A failed report of ticks is
  silent.
- *Network.* "Everything that touches the network goes through here"
  (`runtime.ts:4`), but whoever is not `publicOnly`, as only the link check and one
  feed are (`linkcheck.ts:254`, `rss.ts:180`), is redirected by `fetch` itself
  (`:421`): to whatever host, whose robots.txt nobody read and whose slots nobody
  booked (`FollowedIsAsked`). The loads of robots.txt take no slot, as `:339` says
  of itself, and the gap "between requests to one
  host" (`:57`) is one of the slots: requests whose timers fire late leave closer
  together.
- *Postings.* A board that tells no total passes for whole when it is cut short
  at the cap (`WholeAnyway`; `amazon.ts:141`, `ats.ts:643`); Workday's, whose later
  pages tell 0, after its second page (`ats.ts:640`). A job that never left a board may be missing from two answers
  read while the board moved, and is hidden (`LiveStaysListed`); a posting listed
  again in an incomplete answer stays hidden (`ListedIsRestored`). A
  source may be missing from the mirror for good (`NoneIsSkipped`;
  `push-remote.ts:177`): it moves to another posting, the mirror carries that
  out and the answer is lost; before the next push the two postings are merged and
  the source is back, so what is noted of it is what it is again; that push
  deletes the merged posting and, by its cascade, the source with it, and sends it
  no more. The proof of `MirrorIsComplete` led to it: "every row as it is here" is
  not inductive once an answer may be lost. A failed directory blanks its section of the
  registry's report (`resolve-companies.ts:598`), the voice section of a limited
  run is not complete (`VoiceIsComplete`; `:770`), and two runs at once lose
  entries.

## Proofs

All of `PlaneTypeOK`, `KnownMeansUnchanged`, `IntentDecides`, `WorkIsBound`,
`SubmitsWhatWasApproved` and `LeavesDoubtForGood` (runs `Whole` and `Progress`),
the five properties of `Worker`, the five safety properties of `Refresh`, what
`Orders` checks of its instances, all that `Applications` checks, `MarksAreMeant`
of `Pages`, and `MirrorIsComplete` and `FetchesAreSound` of `Postings` are proved
with TLAPS, for every value of the constants.

### The server

For every value that satisfies `ControlAssumption`: any workers, roles, runs,
policies and reports, any number of attempts, any lease, window and retry limit.

First (`ControlPlane_proofs`):

- `TypeCorrect`: `Spec => []PlaneTypeOK`. Beside the types it is where the retry
  limit and the attempt bound are shown to be kept by every handler.
- `FencesHold`: `Spec => []KnownMeansUnchanged`. The invariant is inductive
  together with `PlaneTypeOK`: a row is *fenced* when a pair that still matches
  belongs to a leased row in the state it was given with; `Released`, `Settled`,
  `Rescreened` and the carry-forward make a row unfenced (its pair matches no
  more), `HandedOut` and the events hand out a new pair with the new state, and
  the clock touches neither. One lemma per action group says so, and the
  carry-forward is shown step by step, because its later steps act on the rows
  its earlier steps left.

- `IntentsDecide`: `Spec => []IntentDecides`. Alone the invariant is not
  inductive: a poll, a revocation or a policy writes its reason on every leased
  row, and "failed" with the applicant's own reason is one of the states that
  need an intent. What carries the proof (`AllSound`) adds the part of
  `LeaseRules` that says a leased row is in a state work can go on from, so no
  leased row is over. Rows are split into those of which nothing was sent and
  nobody holds (`Unsent`), which every handler keeps apart from the rest, and
  those that are in doubt or over, which every handler passes by or moves to
  doubt.

In the second half of the module:

- `WorkBound`: `Spec => []WorkIsBound`; `SubmissionsApproved`: `Spec =>
  SubmitsWhatWasApproved`; `DoubtLeftForGood`: `Spec => LeavesDoubtForGood`;
  `LeasesObeyRules` and `OneOfEach`: the database's lease rules, one running run
  of a worker, one live attempt of a role, targets that follow the work;
  `LedgerKept`: `Spec => KeepsLedger`, the refinement of `SubmissionLedger`.
- They rest on one invariant, `Bind`. Each part is there because one of the
  properties is not inductive without it. An approved form is the enabled
  policy's (`ApprovalStands`) because the form last shown is that of the *row's
  run* also while no policy is enabled (`ReviewStands`), because a bound run has
  the head's body (`BoundToHead`) and because an enable keeps only rows whose
  form stays. A stopped run's rows are over because a row is placed in a run
  that exists (`Placed`). One lease per board and worker is kept because a poll
  looks at all of them and a row's worker is its run's, which an enable may bind
  anew but not move.
- Each handler is looked at once, for what it does to *one row*: it keeps it
  (`Kept`), or it is one of the few that lease, start, park, approve, begin,
  resolve or age it (`Changes`). The action properties and the refinement are
  read off these cases. A step of the ledger takes an attempt from unsent to
  open (`Beginning`), to received or refuted (`Resolving`), or closes a window
  (`Aging`); that two attempts of a role are never open at once is
  `OneLiveAttempt` together with `IntentDecides`.

The proofs assume of the constants only `ControlAssumption`, which the runs
evaluate. Its part on `Reports` says what `worker/main.ts` sends: an event has a
state of the enumeration, none of the reasons the server writes when the
applicant confirms an outcome, asks for approval only from `filling`, and never
reports `ready`, which only the applicant's command sets. Of a policy it says
only which fields it has and what its actions are; the classes may be any values.

`Parts_proofs` carries them to the four instances of run `Orders`:
`WorkIsOneAtATime` (`OneAtATime`), `LeasesKeepRules` (`LeaseRules`),
`AttemptsKeepLedger` (`KeepsLedger`). The constants of each instance are shown to
meet `ControlAssumption`, which TLC does not evaluate of an instance, and the part
of the next-state relation it takes to be part of `Next`.

### The worker program

`WorkerSession_proofs`, for any lease, window, wait, faults and commands:
`TypeCorrect`, `SentOnce` (`OneSender`), `RefutedForGood`
(`NothingSentAfterRefuted`), `GuardsAreShort` (`GuardWithinLease`) and
`NothingIsDropped` (`WorkIsNotDropped`, an action property). The invariant:

- `Sequenced` - the loop's phase says which request is under way, which lease is
  held and what is on disk. Without it a reply could meet a phase that does not
  wait for it.
- `Leased` - whoever has the row's fence has its lease, and what is left of it
  counts from the *request* that granted or renewed it. That is `GuardWithinLease`
  with the requests under way: a renewal is stamped when it is sent, so a reply
  that waits ages as the lease does.
- `Unbegun` - before its intent, a stage's row waits for one and no late
  request can begin it under the same fence.
- `FirstSender` - a row that has been submitted is never filled again, and a
  stage that may press is the one whose intent was recorded: from it `OneSender`.
- `Windows`, `Reported` - the applicant may say "not submitted" only when every
  window that began before is over; a report on disk was made under the lease
  that holds it.

### The refresh queue and the lock

`MCRefresh`, of the queue, for any runners, visitors, rows, faults, and
any `Limit <= ClaimTimeout`:

- `CloudKeeps` is the one that needs time. The invariant (`Claims`) says that the
  claim of a job is no older than the job (`InTime`), that a row somebody is about
  to claim is still pending or has changed since (`StillPending`: a claim only
  gets older), and that no two runners hold one claim (`Owned`). A claim that
  matches is therefore a claim of a row no job holds (`TakesPending`).
- `OutcomesBelong`, `AnswersAreFresh`, `CompletedForGood` (no step changes a
  request that is over: an action property, proved and not run) and
  `RequestTypes` rest on `DoneStays`.

Of the lock: `OneCycleAtATime`, `Lock!Spec => []Lock!OneCycle`, for starts that
overlap as they like, under `LockAssumption` (shells and mirrors are different
processes; the runs evaluate it as `LockValues`). The invariant `LockInv` has two
parts. While a cycle that began undisturbed runs, everybody else is where the lock
is still to be met, or has read its pid and will find it alive (`Undisturbed`):
so nobody gets to remove it. While no start met another under way (`Serial`), one
process at most is on its way, what it read is the pid of the running cycle if
there is one, and no cycle runs once it takes the lock for stale; every cycle
therefore begins undisturbed. Nothing is assumed of who is launched when.

Then the two invariants are put side by side for the composition the run checks,
whose constants are those of the parts: `BothTyped`, `OneCycleNamed`.

### Discovery

`DiscoveryStaging_proofs`, for any roles, runs, polls and versions and any number
of snapshots and attempts (`StagingAssumption`: a first version, numbers for the
bounds, and no poll named as nobody is): `TypeCorrect`, `SnapshotsAlwaysServe`
(`SnapshotsServe`) and `NothingReportedIsQueued` (`QueuesNoReported`, an action
property). A poll works through several transactions and trusts what its earlier
ones wrote. The invariant says what it may trust:

- `Owned` - a poll holds a run's capture lease only while that run is captured; a
  run's snapshot was committed for that run, and while the run stages it is the
  one being staged; every snapshot being staged is that of a run that points at
  it, stages and was not stopped (`StagingIsResumed`).
- `Pointing` - what a target points at was committed; who was reported when a
  snapshot was committed still is; and while a snapshot is staged, no target of
  it calls a role eligible that was reported before (`StagedAfresh`): from it
  `QueuesNoReported`.
- `Served` - of each role: its newest attempt, while it goes on, has a complete
  snapshot and the target that names it, and no attempt's snapshot is pruned.

The last chunk of a snapshot does the most in one transaction: it stages, rules
out duplicates, creates attempts and points the targets at them. It is looked at
row by row (`StagedRow`, `CheckedRow`, `LastRows`), and the theorems cite those.

`Parts_proofs` carries the last two to the instances the run checks,
beside the parts they are composed with: `SnapshotsKeepServing`,
`ReportedStaysOut`.

### The stores

`Stores_proofs`. The first three have in common a file or a store that no
transaction of the database spans, and a program that may die between the two.

- `RowsAlwaysMatch` (`RowsMatchBytes`), for any documents, requests and quota.
  The invariant is what each request under way may count on while others work on
  the same row (`Counts`): an upload that its grant stands, a validation that
  what it read is still there, a cleanup that the grant is over. A file is torn
  by one writer at a time (`OneWrites`).
- `BudgetAlwaysKept` (`BudgetKept`), for any requests, runs, costs and limits
  that are numbers (`BudgetAssumption`: finitely many runs, a reservation lasts at
  least a tick). The ledger is read under the lock and written as it was read, so
  what a holder of the lock has *seen* is as good as the file (`LedgersAreGood`)
  and, while its day is on, the file itself (`ReadIsCurrent`). A request under
  way has a reservation that has not expired, since it is over long before
  (`ActiveIsHeld`), and is charged once, no more than it reserved or settles
  (`BilledOnce`, `OverIsSpent`). Sums are counted unit by unit (`Units`), as the
  size of a set, which is what lets a prover add to them: a sum by recursion
  would need induction over data.
- `PairingAlwaysSound` (`PairingIsSound`), for any grants. Inductive with it: a
  request that may still register a worker is of the bundle the machine keeps
  (`LateIsHarmless`), and a refusal is answered only by a grant that will register
  nobody any more (`CommandIsWhole`, `Closed`). That is what lets the program throw
  its bundle away.

### The forms

`Forms_proofs`.

- `AnswersAlwaysHold`: `NoStrandedApplication`, `OpenQuestionHolds`,
  `SentAsReviewed`, and `NoFillLoop` where the form is `Steady`, for any keys,
  values and bounds, one attempt at least. A row waits exactly while a question of
  it is open (`Waits`), a question that is asked is asked under the policy in
  force (`AskedNow`), an answer is one of its own key, offer and an attempt no
  later (`Rows`), and a stage fills in what the context would give it now
  (`WorkHolds`). `NoFillLoop` needs its own reason: every filling that was refused
  holds a typed answer to a dropdown that has been asked again with its list
  since (`RefusedOnce`), so the same answers cannot come back.
- `FormAlwaysMeant` (`FormIsMeant`), assuming `Patient`. By the time something is
  typed the page's scripts have run and the resume is parsed (`PageIsDone`), one
  save is under way, of the field typed last (`OneSave`), and what was typed and
  taken stands (`Stays`).
- `MaterialsAlwaysStand` (`MaterialsStand`), for any numbers of rewrites, retries,
  edits and faults. While its lease holds, a stage's context is what the server
  would give it now (`LeaseHolds`); an upload of a row is under way only while it
  is tailored, so none follows the approval, and what was shown is the newest there
  is (`ReviewHolds`). That the newest of all and the newest of one master are the
  same when their masters are (`SameMaster`) is why a switch of the resume is the
  only way to another.

`StoresAlwaysAgree`, `FormsAlwaysMeant` and `AppsTyped` of `Parts_proofs`
put these, the caps and discovery together: `StoresAgree`, `FormsAreMeant` and `TypeOK`
of the composition that run `Applications` checks.

### The caps

In `Stores_proofs` too: `CapsHold` (`CapsKept` of `ClaimCaps`), types included,
for any number of rows, employers, days and marks and any caps (`CapsAssumption`:
finitely many rows, caps that are numbers). A poll counts its own day and the span
that ends with it. The invariant says the same of *every* day and span, and that a
row which was sent is none that screening ruled out; then what a claim adds to is
what the poll counted (`ClaimKeeps`), and no other step adds to any of the sets
(`NothingIsAdded`).

### The pages

`Components_proofs`. The components proved there are instances with a parameter, the
record of their constants, so that one theorem is about the two instances of the
board's checks that run `Pages` has and about every other.

- `ChecksAlwaysSound` (`ChecksAreSound` of `AppliedChecks`), for any pages,
  postings and bounds. A report is a copy of checks made some time ago: what it
  holds was once ticked by the applicant it is for, and what it takes for
  reported is marked (`ReportsAreMeant`). That nothing is reported within its grace
  holds only where the board is not opened again in it, and with one page at a
  time, the timer of which waits for the youngest tick (`OnePageWaits`).
- `ImportAlwaysMeant` (`ImportIsMeant` of `ImportReview`), for any postings and
  bounds. Of a request the server may know nothing, its preview, or its
  acknowledgement, and a late copy of it may still be served: the invariant
  follows each request from the screen it was told of (`RequestsAreTold`) over the
  preview (`PreviewsAreOfRequests`) to what it imported
  (`ImportsArePreviewed`), and says that what was refused is never served
  (`RefusedIsOver`), that an answer is of the operation that waits
  (`AnswersAreOfOp`) and that the screen is of the account it shows
  (`ScreenIsOfOwner`).

`MarksAlwaysMeant` of `Parts_proofs` is `MarksAreMeant` of the composition.

### The mirror

In `Components_proofs` too: `MirrorAlwaysComplete` (`MirrorIsComplete` of `Mirror`,
types and the uniqueness of keys included), for any keys, values, ids and bounds
(`MirrorAssumption`). The invariant has two parts.

- `MirrorInv` is of every job, whatever is lost. An id is given once, so what a
  database sent and still has is in the mirror, unless it was merged away by the
  same database (`Accounted`, of the database of the job and of the cache it came
  from); the job's database has all that the cache sent and still has; and each
  phase of a push adds one inclusion between the two sides that the later phases
  keep (`Pushed`). Postings go before sources and stray sources before stray
  postings, which is why the mirror's sources always have their posting
  (`Parented`).
- `AsSent` is of the jobs before any answer is lost (`Undisturbed`): what a
  database holds as sent *is* so in the mirror (`Answered`), but for a source that
  went with its posting, which has then moved to another posting here, so that it
  will be sent again. Each phase then turns an inclusion into an equality.

`MirrorAlwaysWhole` of `Parts_proofs` is `MirrorIsComplete` of run `Postings`.

### The fetches

In `Components_proofs` as well, each an instance over the record of its constants,
with the invariant at the end of its own module.

- `AlwaysWholeIfSteady` (`WholeIfSteady` of `OffsetScan`, `OffsetAssumption`: jobs
  are `1..n`, pages and caps are not 0). Of a board that did not change and told its total, the scan has
  every job up to where it is, and the total it compares with is the board's; once
  the first search ended it has the whole board, to which the second only adds
  (`ReadSoFar`). The step that takes work is the page that comes next: the positions
  on it are those between two multiples of the page's size. That a job that stayed
  on its board is never hidden (`LiveStaysListed`) is *not* so, see above.
- `CursorAlwaysBehindRows` (`CursorBehindRows` of `CatalogScan`,
  `CatalogAssumption`). A cursor is five numbers, and what they are past is
  nested: all companies before its place in the directory, of its company all
  categories before its own, of its category all levels before its own, and of
  those all pages before its own (`Behind`). A category with more pages than the
  API answers is past only with the last level, which is why the split must not be
  left early. What the cursor is past was read in this run or committed
  (`Accounted`), and it is saved only after the commit.
- `AlwaysPolite` (`Polite` of `PoliteFetch`, `PoliteAssumption`), for any callers,
  hosts, gaps, retries and hops. That nobody asks where the rules do not allow it,
  that rules are read once and that tries are counted needs only that a request
  carries the rules of the host it is at (`LooksAt`), over every redirect. The gap
  is one of slots: what is *booked* at a host is apart from all else booked or used
  there, pair by pair (`Apart`), and no later than the last, with no wider a gap than
  the host has (`Spacing`, `SlotOf`). It needs nothing of the timers, which may fire
  late and out of order; and it says nothing of the hosts `fetch` follows to.
- `RegistryAlwaysSound` (`RegistryIsSound` of `Registry`, `RegistryAssumption`), for
  any companies, lists, orders and exclusions. What the file, a run and the world
  say of a company was true of it once (`Seen`), a run asks in the order there is,
  of nobody twice (`InTurn`), it holds all the file held until it writes (`Holds`),
  and in an undisturbed run a board that the company's name leads to is found or
  its probe is still to come (`WillFind`).

`FetchesAlwaysSound` of `Parts_proofs` is `FetchesAreSound` of run `Postings`.

### What is model-checked only

- Liveness, which is out of the prover's reach.
- Of `Postings`, `BoardIsSound` and `PostingsAreKept`: `PostingPipeline` folds its
  store over a sequence of groups, an induction over data. `PostingsTypeOK` speaks
  of all the parts, of that one too; the types of the other five are in their
  invariants.
- Of `Pages`, all but `MarksAreMeant`: `PagesTypeOK`, `TypedIsKept`,
  `QuestionsReach` and `ScreenIsTrue` are of ten more modules, each with its own
  invariant over requests under way. Their bounds were raised one at a time beyond
  those of the run, which is how two errors of the models were found: a vault
  writes to a slot of its own (`InboxControl`), and a revocation is final
  (`RunConsole`). Both models now say so.

## Plan

1. The other parts of `Pages`, from `LiveReview` and `RunConsole` on: each needs its
   invariant over requests under way.
2. That `DiscoveryStaging` implements `StageRoles`, and `WorkerSession`'s row the
   row of `ControlPlane`, by refinement mappings.

## Not modelled

- *Search, extraction, normalisation, geography* (`query.ts`, `extract.ts`,
  `normalize.ts`, `geo.ts`): pure functions of text. They hold no state, and
  what could be wrong with them is which words they match.
- *The other connectors* (`rss.ts`, `repo.ts`, `keyed.ts`, `hn-company.ts`, most
  of `ats.ts`): one answer each, parsed; a failed answer is in `PostingPipeline`.
- *`schedule.ts`*: its arithmetic rests on the time zone database. `ControlPlane`
  lets the day's start be due at any poll.
- *Of the caps*: two workers in different time zones count different days for
  one applicant, and the policy's numbers may change; `ClaimCaps` has one zone and
  fixed numbers. An employer's span counts from the *start* of an attempt
  (`discovery.ts:285`): one that waits for longer than the span is counted no
  more, although it may still be sent, and a mark made after a claim stops
  nothing that was claimed.
- *Steps beside the ones a module has*, which change nothing its properties look
  at: the repair of clones that older ingests wrote (`ingest.ts:508`), the letter
  the worker posts to its server after the receipt (`worker/main.ts:385`), the
  Inbox's "load more" (`refresh(cursor)` of `inbox/control.ts`, which adds to a
  list what the walk of `InboxWalk` reads too), a 403 given once to an account
  that did not change (`workers/control.ts:276`), and a failed read of pictures or
  materials by the applications page, which leaves what it shows. In `LiveReview`
  those reads end in any order, in the code the rows come first
  (`applications.tsx:384`): a few more behaviours than there are. A request for an
  import is refused for good only when its preview expired (`import/control.ts:115`);
  after any other refusal the page asks who is signed in and keeps it pending, as
  `ImportReview` has it.
- *Selectors, widgets and page detection* of `worker/ats/` and `browser.ts`,
  prompts, credentials, sign-in, recruiters' rows, routes, layout: I/O, or one
  statement each.

`PROJECT.json` lists every part with what is left out. Its map names the lines
of every action, and of every helper whose lines no other entry of the map has.
