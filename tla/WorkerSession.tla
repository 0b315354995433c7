---------------------------- MODULE WorkerSession ----------------------------
(***************************************************************************)
(* The program a person runs on their own computer, src/worker/: one loop  *)
(* that polls for a lease and works on it, a heartbeat beside it, the      *)
(* guard both share, the journal and the receipt it keeps on disk, and the *)
(* employer's form it submits.  It talks to one application's row of the   *)
(* server (ControlPlane has the whole of that) through requests that may   *)
(* be lost, answered late, or handled after the worker gave up on them.    *)
(*                                                                         *)
(* The loop and the heartbeat take turns at the network through a mutex    *)
(* ("call"); a stage talks to the server beside them ("ask"); a request    *)
(* nobody waits for any more is "late".  A pair of fence and revision is   *)
(* only compared for equality, so `standing` is the set of holders whose   *)
(* fence is still the row's, and a revision counts from the lease.         *)
(***************************************************************************)
EXTENDS Naturals, FiniteSets

CONSTANTS
    Lease,          \* ticks of a lease, LEASE_MS
    SubmitWait,     \* ticks an adapter keeps the form open, SUBMIT_WAIT_MS
    ContainedLimit, \* CONTAINED_LIMIT
    MaxFaults,      \* bound: requests lost or delayed, and crashes
    MaxCommands     \* bound: commands that end a lease

ASSUME SessionAssumption ==
    /\ Lease \in Nat \ {0, 1}
    /\ SubmitWait \in Nat \ {0}
    /\ ContainedLimit \in Nat \ {0}
    /\ MaxFaults \in Nat
    /\ MaxCommands \in Nat

\* The click and the page's first answer; with the tick an intent's answer may
\* take, they fit in the lease the server's window is longer by.
PromptWait == Lease - 1
WindowTicks == SubmitWait + Lease

Working == {"work", "ready"}
Ambiguous == {"submitting", "submission_unknown"}
Decided == {"submitted", "confirmed", "refuted"}
RowStates == Working \union Ambiguous \union Decided \union {"hold"}
Channels == {"call", "ask", "late"}
Holders == Channels \union {"held", "pending"}
Kinds == {"poll", "heartbeat", "event", "questions", "doubt", "receipt", "begin"}
\* Requests with a key of their own, which the transport sends again.
Checkpoints == {"event", "questions", "doubt", "receipt", "begin"}
Replies == {"none", "gone", "leased", "idle", "ok", "lost", "refused"}

VARIABLES
    row,       \* the application at the server, with its lease and intent
    seen,      \* the server has recorded the report the journal holds
    net,       \* the request on each channel and its answer
    standing,  \* holders whose fence is the row's
    proc,      \* the process: its phase, whether it was told to stop
    held,      \* the lease it believes in and its guard
    stage,     \* the stage under way
    form,      \* the employer's form
    disk,      \* the journal, the kept receipt, the count of failures
    spent      \* faults and commands so far, and failures in a row

vars == <<row, seen, net, standing, proc, held, stage, form, disk, spent>>

Quiet == [kind |-> "none", rev |-> 0, to |-> "none", reply |-> "none",
          state |-> "none", age |-> 0]
Request(kind, rev, to) == [Quiet EXCEPT !.kind = kind, !.rev = rev, !.to = to]
NoStage == [at |-> "none", submitting |-> FALSE, wait |-> 0, result |-> "none"]
NoLease == [active |-> FALSE, state |-> "none", rev |-> 0, left |-> 0, revoked |-> FALSE]
NoReport == [kind |-> "none", to |-> "none"]
ClosedForm == [open |-> FALSE, asks |-> FALSE, sent |-> FALSE, shown |-> FALSE, senders |-> 0]

Rows == [state : RowStates, leased : BOOLEAN, left : 0..Lease, rev : 0..1,
         age : 0..WindowTicks, wait : 0..Lease]
Requests == [kind : Kinds \union {"none"}, rev : 0..1, to : {"none", "work", "hold"},
             reply : Replies, state : RowStates \union {"none"}, age : 0..1]
Processes == [phase : {"down", "recover", "idle", "poll", "reconcile", "stage",
                       "report", "journaled", "acknowledge", "closing"},
              aborted : BOOLEAN, linger : 0..SubmitWait]
Guards == [active : BOOLEAN, state : RowStates \union {"none"}, rev : 0..1,
           left : 0..Lease, revoked : BOOLEAN]
Stages == [at : {"none", "fill", "begin", "armed", "pressed", "confirmed", "sending", "ended"},
           submitting : BOOLEAN, wait : 0..(SubmitWait + PromptWait),
           result : {"none", "work", "hold", "questions", "contained", "submitted",
                     "unknown", "thrown"}]
Forms == [open : BOOLEAN, asks : BOOLEAN, sent : BOOLEAN, shown : BOOLEAN, senders : 0..2]
Disks == [pending : {NoReport} \union [kind : {"event", "questions"}, to : {"work", "hold"}],
          receipt : BOOLEAN, streak : 0..ContainedLimit]

TypeOK ==
    /\ row \in Rows
    /\ seen \in BOOLEAN
    /\ net \in [Channels -> Requests]
    /\ standing \subseteq Holders
    /\ proc \in Processes
    /\ held \in Guards
    /\ stage \in Stages
    /\ form \in Forms
    /\ disk \in Disks
    /\ spent \in [faults : 0..MaxFaults, commands : 0..MaxCommands]

Init ==
    /\ row = [state |-> "work", leased |-> FALSE, left |-> 0, rev |-> 0, age |-> 0, wait |-> 0]
    /\ seen = FALSE
    /\ net = [c \in Channels |-> Quiet]
    /\ standing = {}
    /\ proc = [phase |-> "down", aborted |-> FALSE, linger |-> 0]
    /\ held = NoLease
    /\ stage = NoStage
    /\ form = ClosedForm
    /\ disk = [pending |-> NoReport, receipt |-> FALSE, streak |-> 0]
    /\ spent = [faults |-> 0, commands |-> 0]

-----------------------------------------------------------------------------
(* The server's handlers, on this row.                                     *)

\* Mutants of the handlers, for the checks of the properties.
ReleasedReady(r) ==
    [r EXCEPT !.leased = FALSE, !.left = 0, !.rev = 0,
              !.state = IF @ = "submitting" THEN "ready" ELSE @]

\* releaseApplication: the lease ends and the fence moves.
Released(r) ==
    [r EXCEPT !.leased = FALSE, !.left = 0, !.rev = 0,
              !.state = IF @ = "submitting" THEN "submission_unknown" ELSE @]

\* The answer goes to whoever still waits; when the fence moved, only the
\* answer that carries the new one still has the row's.
Answer(c, reply, state, rev) ==
    net' = [net EXCEPT ![c] = IF c = "late" THEN Quiet
                              ELSE [@ EXCEPT !.reply = reply, !.state = state, !.rev = rev]]
Moves(c, grants) == standing' = IF grants THEN {c} \ {"late"} ELSE {}
Stays(c) == standing' = standing \ ({c} \intersect {"late"})

Asked(c, kind) == net[c].kind = kind /\ net[c].reply = "none"
Matches(c) == c \in standing /\ net[c].rev = row.rev /\ row.leased

\* checkedLease on a request whose pair matches a lease that has run out.
Expires(c) ==
    /\ Matches(c)
    /\ row.left = 0
    /\ row' = Released(row)
    /\ Moves(c, FALSE)
    /\ Answer(c, "lost", "none", 0)
    /\ UNCHANGED seen

Refuses(c, reply) ==
    /\ Answer(c, reply, "none", 0)
    /\ Stays(c)
    /\ UNCHANGED <<row, seen>>

\* pollWorker: what is over is released, what is unknown is put off, and a
\* row that may be claimed is leased under a new fence.
Deferred(r) == [Released(r) EXCEPT !.wait = Lease]
Swept ==
    IF ~row.leased THEN row
    ELSE IF row.state = "submission_unknown" THEN Deferred(row)
    ELSE IF row.left = 0 THEN Released(row)
    ELSE row

Claimable(r) == r.state \in Working \union Ambiguous /\ r.wait = 0

Granted(r) ==
    [r EXCEPT !.leased = TRUE, !.left = Lease, !.rev = 0,
              !.state = IF @ = "submitting" THEN "submission_unknown" ELSE @]

ServePoll(c) ==
    /\ Asked(c, "poll")
    /\ IF Claimable(Swept)
       THEN /\ row' = Granted(Swept)
            /\ Moves(c, TRUE)
            /\ Answer(c, "leased", Granted(Swept).state, 0)
       ELSE /\ row' = Swept
            /\ IF Swept = row THEN Stays(c) ELSE Moves(c, FALSE)
            /\ Answer(c, "idle", "none", 0)
    /\ UNCHANGED seen

\* heartbeatWorker renews the lease and moves neither number.
ServeHeartbeat(c) ==
    /\ Asked(c, "heartbeat")
    /\ \/ Expires(c)
       \/ /\ Matches(c)
          /\ row.left > 0
          /\ row' = [row EXCEPT !.left = Lease]
          /\ Answer(c, "ok", row.state, row.rev)
          /\ Stays(c)
          /\ UNCHANGED seen
       \/ ~Matches(c) /\ Refuses(c, "lost")

\* recordWorkerEvent and registerQuestionBatch: the same report again is
\* answered as before; a new one needs the lease it was made under.
ServeReport(c) ==
    /\ Asked(c, "event") \/ Asked(c, "questions")
    /\ \/ /\ seen
          /\ Answer(c, "ok", "none", 0)
          /\ Stays(c)
          /\ UNCHANGED <<row, seen>>
       \/ ~seen /\ Expires(c)
       \/ ~seen /\ ~Matches(c) /\ Refuses(c, "lost")
       \/ ~seen /\ Matches(c) /\ row.left > 0 /\ row.state \notin Working /\ Refuses(c, "refused")
       \/ /\ ~seen
          /\ Matches(c)
          /\ row.left > 0
          /\ row.state \in Working
          /\ row' = IF net[c].to = "hold" THEN [Released(row) EXCEPT !.state = "hold"]
                    ELSE row
          /\ Moves(c, FALSE)
          /\ seen' = TRUE
          /\ Answer(c, "ok", "none", 0)

\* recordWorkerEvent for a submission the worker could not confirm.
ServeDoubt(c) ==
    /\ Asked(c, "doubt")
    /\ \/ Expires(c)
       \/ ~Matches(c) /\ Refuses(c, "lost")
       \/ /\ Matches(c)
          /\ row.left > 0
          /\ row' = Released(row)
          /\ Moves(c, FALSE)
          /\ Answer(c, "ok", "none", 0)
          /\ UNCHANGED seen

\* beginSubmission: one intent of a row, replayed while it is submitting.
ServeBegin(c) ==
    /\ Asked(c, "begin")
    /\ \/ /\ row.state = "submitting"
          /\ c \in standing
          /\ Answer(c, "ok", "submitting", row.rev)
          /\ Stays(c)
          /\ UNCHANGED <<row, seen>>
       \/ row.state \notin {"ready", "submitting"} /\ Refuses(c, "refused")
       \/ row.state = "submitting" /\ c \notin standing /\ Refuses(c, "refused")
       \/ row.state = "ready" /\ Expires(c)
       \/ row.state = "ready" /\ ~Matches(c) /\ Refuses(c, "lost")
       \/ /\ row.state = "ready"
          /\ Matches(c)
          /\ row.left > 0
          /\ row' = [row EXCEPT !.state = "submitting", !.rev = 1, !.age = 0]
          /\ Answer(c, "ok", "submitting", 1)
          /\ Stays(c)
          /\ UNCHANGED seen

\* recordReceipt goes by the row's own lease: whoever holds it.
ServeReceipt(c) ==
    /\ Asked(c, "receipt")
    /\ \/ row.state = "submitted" /\ Refuses(c, "ok")
       \/ row.state \notin Ambiguous \union {"submitted"} /\ Refuses(c, "refused")
       \/ row.state \in Ambiguous /\ ~row.leased /\ Refuses(c, "lost")
       \/ /\ row.state \in Ambiguous
          /\ row.leased
          /\ row.left = 0
          /\ row' = Released(row)
          /\ Moves(c, FALSE)
          /\ Answer(c, "lost", "none", 0)
          /\ UNCHANGED seen
       \/ /\ row.state \in Ambiguous
          /\ row.leased
          /\ row.left > 0
          /\ row' = [Released(row) EXCEPT !.state = "submitted", !.age = 0]
          /\ Moves(c, FALSE)
          /\ Answer(c, "ok", "none", 0)
          /\ UNCHANGED seen

Serve(c) ==
    /\ \/ ServePoll(c) \/ ServeHeartbeat(c) \/ ServeReport(c) \/ ServeDoubt(c)
       \/ ServeBegin(c) \/ ServeReceipt(c)
    /\ UNCHANGED <<proc, held, stage, form, disk, spent>>

-----------------------------------------------------------------------------
(* The applicant, through the server.                                      *)

ByApplicant == UNCHANGED <<seen, net, proc, held, stage, form, disk>>

\* An answer, a retry or an approval lets the row go on.
GoOn(state) ==
    /\ row.state = "hold"
    /\ row' = [row EXCEPT !.state = state]
    /\ UNCHANGED <<standing, spent>>
    /\ ByApplicant

\* A pause, a stop or a policy takes the lease away.
EndLease ==
    /\ row.leased
    /\ spent.commands < MaxCommands
    /\ spent' = [spent EXCEPT !.commands = @ + 1]
    /\ row' = IF row.state \in Working THEN [Released(row) EXCEPT !.state = "hold"]
              ELSE Released(row)
    /\ standing' = {}
    /\ ByApplicant

WindowClosedEarly == row.age >= SubmitWait
\* refuseOpenSubmission
WindowClosed == row.age = WindowTicks

Decide(state) ==
    /\ row.state = "submission_unknown"
    /\ state = "refuted" => WindowClosed
    /\ row' = [Released(row) EXCEPT !.state = state, !.age = 0]
    /\ standing' = {}
    /\ UNCHANGED spent
    /\ ByApplicant

-----------------------------------------------------------------------------
(* The network.  A request is lost with its answer, or handled later, when *)
(* the worker has given up waiting: its transport bounds every request.    *)

CanFault == spent.faults < MaxFaults
Fault == spent' = [spent EXCEPT !.faults = @ + 1]
Waiting(c) == net[c].kind # "none" /\ net[c].reply # "gone"
OnNetwork == UNCHANGED <<row, seen, proc, held, stage, form, disk>>

Lose(c) ==
    /\ CanFault
    /\ Waiting(c)
    /\ net' = [net EXCEPT ![c] = IF c = "late" THEN Quiet ELSE [@ EXCEPT !.reply = "gone"]]
    /\ Fault
    /\ Stays(c)
    /\ OnNetwork

Delay(c) ==
    /\ CanFault
    /\ c # "late"
    /\ net["late"].kind = "none"
    /\ Waiting(c)
    /\ net[c].reply = "none"
    /\ net' = [net EXCEPT !["late"] = [net[c] EXCEPT !.age = 0], ![c].reply = "gone"]
    /\ standing' = (standing \ {"late"}) \union (IF c \in standing THEN {"late"} ELSE {})
    /\ Fault
    /\ OnNetwork

\* A request with a key of its own is tried again while its time lasts.
Resend(c) ==
    /\ c # "late"
    /\ net[c].reply = "gone"
    /\ net[c].kind \in Checkpoints
    /\ ~proc.aborted
    /\ net' = [net EXCEPT ![c].reply = "none"]
    /\ UNCHANGED <<standing, spent>>
    /\ OnNetwork

-----------------------------------------------------------------------------
(* The process.                                                            *)

OnDisk == UNCHANGED <<row, seen, form>>
GuardHolds == held.active /\ ~held.revoked /\ held.left > 0
With(holder, source) ==
    (standing \ {holder}) \union (IF source \in standing THEN {holder} ELSE {})
CallIsFree == net["call"].kind = "none"
Sends(c, q) == net' = [net EXCEPT ![c] = q]
Answered(c, kind, replies) == net[c].kind = kind /\ net[c].reply \in replies
Hangs(c) == [net EXCEPT ![c] = Quiet]

\* A request that was cut off is lost, or still on its way to the server.
CutOff(channels) ==
    \/ /\ net' = [c \in Channels |-> IF c \in channels THEN Quiet ELSE net[c]]
       /\ standing' = standing \ channels
    \/ \E c \in channels :
          /\ net["late"].kind = "none"
          /\ net[c].kind # "none"
          /\ net[c].reply = "none"
          /\ net' = [d \in Channels |-> IF d = "late" THEN [net[c] EXCEPT !.age = 0]
                                        ELSE IF d \in channels THEN Quiet ELSE net[d]]
          /\ standing' = With("late", c) \ channels

\* fail: the guard is revoked and everything is told to stop.
Stopping ==
    /\ proc' = [phase |-> "closing", aborted |-> TRUE, linger |-> SubmitWait]
    /\ held' = [held EXCEPT !.revoked = held.active]
    /\ UNCHANGED <<stage, disk, spent>>
    /\ OnDisk
Fails == Stopping /\ CutOff({"call"})

\* Start-up: the lock, and the report the journal may still hold.
StartFresh ==
    /\ proc.phase = "down"
    /\ proc' = [phase |-> "idle", aborted |-> FALSE, linger |-> 0]
    /\ UNCHANGED <<net, standing, held, stage, disk, spent>>
    /\ OnDisk

Start ==
    /\ proc.phase = "down"
    /\ proc' = [phase |-> IF disk.pending = NoReport THEN "idle" ELSE "recover",
                aborted |-> FALSE, linger |-> 0]
    /\ IF disk.pending = NoReport THEN UNCHANGED <<net, standing>>
       ELSE /\ Sends("call", Request(disk.pending.kind, 0, disk.pending.to))
            /\ standing' = With("call", "pending")
    /\ UNCHANGED <<held, stage, disk, spent>>
    /\ OnDisk

\* A refused report is set aside; without an answer the program stops.
Recovered ==
    /\ proc.phase = "recover"
    /\ net["call"].reply \in {"ok", "lost", "refused"}
    /\ disk' = [disk EXCEPT !.pending = NoReport]
    /\ proc' = [proc EXCEPT !.phase = "idle"]
    /\ net' = Hangs("call")
    /\ standing' = standing \ {"call", "pending"}
    /\ seen' = FALSE
    /\ UNCHANGED <<row, held, stage, form, spent>>
RecoveryFails == proc.phase = "recover" /\ net["call"].reply = "gone" /\ Fails

Poll ==
    /\ proc.phase = "idle"
    /\ CallIsFree
    /\ Sends("call", Request("poll", 0, "none"))
    /\ proc' = [proc EXCEPT !.phase = "poll"]
    /\ UNCHANGED <<standing, held, stage, disk, spent>>
    /\ OnDisk

DeadlineFromAnswer(q) == Lease
\* The deadline counts from the start of the request.
Deadline(q) == Lease - q.age
Polled ==
    /\ proc.phase = "poll"
    /\ net["call"].reply \in {"leased", "idle", "gone"}
    /\ net' = Hangs("call")
    /\ IF net["call"].reply = "leased"
       THEN /\ held' = [active |-> TRUE, state |-> net["call"].state, rev |-> 0,
                        left |-> Deadline(net["call"]), revoked |-> FALSE]
            /\ standing' = With("held", "call") \ {"call"}
            /\ IF net["call"].state \in Ambiguous
               THEN proc' = [proc EXCEPT !.phase = "reconcile"] /\ UNCHANGED stage
               ELSE /\ proc' = [proc EXCEPT !.phase = "stage"]
                    /\ stage' = [NoStage EXCEPT !.at = "fill"]
       ELSE /\ proc' = [proc EXCEPT !.phase = "idle"]
            /\ UNCHANGED <<held, standing, stage>>
    /\ UNCHANGED <<disk, spent>>
    /\ OnDisk

LetsGo ==
    /\ held' = NoLease
    /\ standing' = standing \ {"held", "call"}
    /\ proc' = [proc EXCEPT !.phase = "idle"]

\* A read-only lease sends the receipt kept on disk, and nothing else.
SendKept ==
    /\ proc.phase = "reconcile"
    /\ CallIsFree
    /\ disk.receipt
    /\ GuardHolds
    /\ Sends("call", Request("receipt", 0, "none"))
    /\ UNCHANGED <<standing, proc, held, stage, disk, spent>>
    /\ OnDisk

ReconciledOnce ==
    /\ proc.phase = "reconcile"
    /\ \/ CallIsFree /\ (~disk.receipt \/ ~GuardHolds)
       \/ Answered("call", "receipt", {"ok", "refused", "lost", "gone"})
    /\ disk' = [disk EXCEPT !.receipt = FALSE]
    /\ net' = Hangs("call")
    /\ LetsGo
    /\ UNCHANGED <<stage, spent>>
    /\ OnDisk

Reconciled ==
    /\ proc.phase = "reconcile"
    /\ \/ CallIsFree /\ (~disk.receipt \/ ~GuardHolds) /\ UNCHANGED disk
       \/ /\ Answered("call", "receipt", {"ok", "refused", "lost", "gone"})
          /\ disk' = IF \/ net["call"].reply = "ok" /\ GuardHolds
                        \/ net["call"].reply = "refused"
                     THEN [disk EXCEPT !.receipt = FALSE] ELSE disk
    /\ net' = Hangs("call")
    /\ LetsGo
    /\ UNCHANGED <<stage, spent>>
    /\ OnDisk

-----------------------------------------------------------------------------
(* The heartbeat and the watchdog beside a stage.                          *)

Heartbeat ==
    /\ proc.phase = "stage"
    /\ CallIsFree
    /\ GuardHolds
    /\ Sends("call", Request("heartbeat", held.rev, "none"))
    /\ standing' = With("call", "held")
    /\ UNCHANGED <<proc, held, stage, disk, spent>>
    /\ OnDisk

\* renew: the same lease, in the same state and revision.
Renews == GuardHolds /\ net["call"].rev = held.rev /\ net["call"].state = held.state
Renewed ==
    /\ Answered("call", "heartbeat", {"ok"})
    /\ Renews
    /\ held' = [held EXCEPT !.left = Deadline(net["call"])]
    /\ net' = Hangs("call")
    /\ standing' = standing \ {"call"}
    /\ UNCHANGED <<proc, stage, disk, spent>>
    /\ OnDisk
BeatMissed ==
    /\ Answered("call", "heartbeat", {"gone"})
    /\ net' = Hangs("call")
    /\ standing' = standing \ {"call"}
    /\ UNCHANGED <<proc, held, stage, disk, spent>>
    /\ OnDisk
BeatRefused ==
    /\ proc.phase # "closing"
    /\ \/ Answered("call", "heartbeat", {"lost"})
       \/ Answered("call", "heartbeat", {"ok"}) /\ ~Renews
    /\ Fails

Expired == held.active /\ ~held.revoked /\ held.left = 0
Watchdog == proc.phase # "closing" /\ Expired /\ Fails

StageTimeoutSubmitting == proc.phase = "stage" /\ stage.submitting /\ Fails
\* STAGE_MS, and an error no other application would escape.
StageTimeout == proc.phase = "stage" /\ Fails

Stop ==
    /\ proc.phase \notin {"down", "closing"}
    /\ CanFault
    /\ Fault
    /\ proc' = [phase |-> "closing", aborted |-> TRUE, linger |-> SubmitWait]
    /\ held' = [held EXCEPT !.revoked = held.active]
    /\ CutOff({"call"})
    /\ UNCHANGED <<stage, disk>>
    /\ OnDisk

-----------------------------------------------------------------------------
(* A stage.  It runs on while the process stops.                           *)

InStage(at) == stage.at = at /\ proc.phase \in {"stage", "closing"}
Ends(result) == stage' = [stage EXCEPT !.at = "ended", !.wait = 0, !.result = result]
Closes == form' = [form EXCEPT !.open = FALSE, !.asks = FALSE]

\* What a stage reports without the form being sent.
FillEnds(result) ==
    /\ InStage("fill")
    /\ result = "work" => held.state = "work"
    /\ Ends(result)
    /\ UNCHANGED <<row, seen, net, standing, proc, held, form, disk, spent>>

\* runAtsApplication, from the filled form to the intent.
Begin ==
    /\ InStage("fill")
    /\ held.state = "ready"
    /\ ~proc.aborted
    /\ Sends("ask", Request("begin", 0, "none"))
    /\ standing' = With("ask", "held")
    /\ stage' = [stage EXCEPT !.at = "begin"]
    /\ UNCHANGED <<proc, held, disk, spent>>
    /\ OnDisk

\* advance: the guard goes on under the submission's own revision.
Advance ==
    /\ InStage("begin")
    /\ net["ask"].reply = "ok"
    /\ GuardHolds
    /\ held' = [held EXCEPT !.rev = net["ask"].rev, !.state = "submitting"]
    /\ stage' = [stage EXCEPT !.at = "armed", !.submitting = TRUE, !.wait = SubmitWait + PromptWait]
    /\ net' = Hangs("ask")
    /\ standing' = standing \ {"ask"}
    /\ UNCHANGED <<proc, disk, spent>>
    /\ OnDisk

BeginFails ==
    /\ InStage("begin")
    /\ \/ proc.aborted
       \/ net["ask"].reply \in {"lost", "refused", "gone"}
       \/ net["ask"].reply = "ok" /\ ~GuardHolds
    /\ Ends(IF proc.aborted THEN "thrown" ELSE "unknown")
    /\ CutOff({"ask"})
    /\ UNCHANGED <<proc, held, disk, spent>>
    /\ OnDisk

\* The adapter looks for a stop only before it looks for the button.
Press ==
    /\ InStage("armed")
    /\ form' = [form EXCEPT !.open = TRUE, !.senders = @ + 1]
    /\ stage' = [stage EXCEPT !.at = "pressed"]
    /\ UNCHANGED <<row, seen, net, standing, proc, held, disk, spent>>
PressStopped ==
    /\ InStage("armed")
    /\ proc.aborted
    /\ Ends("thrown")
    /\ UNCHANGED <<row, seen, net, standing, proc, held, form, disk, spent>>

\* The page asks the applicant for a code or a captcha.
Ask ==
    /\ form.open
    /\ ~form.sent
    /\ ~form.asks
    /\ stage.wait > SubmitWait
    /\ form' = [form EXCEPT !.asks = TRUE]
    /\ UNCHANGED <<row, seen, net, standing, proc, held, stage, disk, spent>>

\* The employer takes the form, at once or once the applicant passed its check.
Accept(shown) ==
    /\ form.open
    /\ ~form.sent
    /\ stage.wait > 0
    /\ form' = [form EXCEPT !.sent = TRUE, !.shown = shown]
    /\ UNCHANGED <<row, seen, net, standing, proc, held, stage, disk, spent>>

\* The confirmation is read even after a stop.
Confirmed ==
    /\ InStage("pressed")
    /\ form.shown
    /\ Closes
    /\ stage' = [stage EXCEPT !.at = "confirmed", !.wait = 0]
    /\ UNCHANGED <<row, seen, net, standing, proc, held, disk, spent>>

\* Nothing came back, the employer refused the form, the applicant's time is
\* over, or Greenhouse's wait for the code met a stop.
Unconfirmed ==
    /\ InStage("pressed")
    /\ ~form.shown
    /\ form.asks => stage.wait = 0 \/ proc.aborted
    /\ Closes
    /\ Ends(IF proc.aborted THEN "thrown" ELSE "unknown")
    /\ UNCHANGED <<row, seen, net, standing, proc, held, disk, spent>>

SendReceipt ==
    /\ InStage("confirmed")
    /\ ~proc.aborted
    /\ Sends("ask", Request("receipt", 0, "none"))
    /\ stage' = [stage EXCEPT !.at = "sending"]
    /\ UNCHANGED <<standing, proc, held, disk, spent>>
    /\ OnDisk
ReceiptTaken ==
    /\ InStage("sending")
    /\ net["ask"].reply = "ok"
    /\ ~proc.aborted
    /\ Ends("submitted")
    /\ net' = Hangs("ask")
    /\ UNCHANGED <<standing, proc, held, disk, spent>>
    /\ OnDisk
\* keepReceipt
KeepReceipt ==
    /\ \/ InStage("confirmed") /\ proc.aborted
       \/ InStage("sending") /\ (proc.aborted \/ net["ask"].reply \in {"lost", "refused", "gone"})
    /\ disk' = [disk EXCEPT !.receipt = TRUE]
    /\ Ends("unknown")
    /\ CutOff({"ask"})
    /\ UNCHANGED <<proc, held, spent>>
    /\ OnDisk

-----------------------------------------------------------------------------
(* What the loop makes of a stage's result.                                *)

Reports == {"work", "hold", "questions", "contained"}

ResultContained ==
    /\ proc.phase = "stage"
    /\ stage.at = "ended"
    /\ CallIsFree
    /\ IF GuardHolds
       THEN /\ proc' = [proc EXCEPT !.phase = "report"]
            /\ UNCHANGED <<row, seen, net, standing, held, stage, form, disk, spent>>
       ELSE Fails

Result ==
    /\ proc.phase = "stage"
    /\ stage.at = "ended"
    /\ CallIsFree
    /\ IF GuardHolds /\ ~(stage.result = "contained" /\ disk.streak = ContainedLimit)
       THEN /\ proc' = [proc EXCEPT !.phase = "report"]
            /\ disk' = IF stage.result = "contained" THEN disk ELSE [disk EXCEPT !.streak = 0]
            /\ UNCHANGED <<row, seen, net, standing, held, stage, form, spent>>
       ELSE Fails

\* A submission ends its lease without a report of its own; one nobody
\* could confirm is named in an event, once.
Durable ==
    /\ proc.phase = "report"
    /\ \/ CallIsFree /\ (stage.result = "submitted" \/ ~GuardHolds)
       \/ net["call"].kind = "doubt" /\ net["call"].reply # "none"
    /\ stage.result \in {"submitted", "unknown"}
    /\ net' = Hangs("call")
    /\ LetsGo
    /\ stage' = NoStage
    /\ UNCHANGED <<disk, spent>>
    /\ OnDisk
SendDoubt ==
    /\ proc.phase = "report"
    /\ stage.result = "unknown"
    /\ CallIsFree
    /\ GuardHolds
    /\ Sends("call", Request("doubt", held.rev, "hold"))
    /\ standing' = With("call", "held")
    /\ UNCHANGED <<proc, held, stage, disk, spent>>
    /\ OnDisk

\* The report is written to disk before it is sent.
Journal ==
    /\ proc.phase = "report"
    /\ stage.result \in Reports
    /\ GuardHolds
    /\ disk' = [disk EXCEPT !.pending =
                   [kind |-> IF stage.result = "questions" THEN "questions" ELSE "event",
                    to |-> IF stage.result = "work" THEN "work" ELSE "hold"]]
    /\ seen' = FALSE
    /\ standing' = With("pending", "held")
    /\ proc' = [proc EXCEPT !.phase = "journaled"]
    /\ UNCHANGED <<row, net, held, stage, form, spent>>
SendReport ==
    /\ proc.phase = "journaled"
    /\ GuardHolds
    /\ Sends("call", Request(disk.pending.kind, 0, disk.pending.to))
    /\ standing' = With("call", "pending")
    /\ proc' = [proc EXCEPT !.phase = "acknowledge"]
    /\ UNCHANGED <<held, stage, disk, spent>>
    /\ OnDisk
Acknowledged ==
    /\ proc.phase = "acknowledge"
    /\ net["call"].reply = "ok"
    /\ disk' = [disk EXCEPT !.pending = NoReport,
                            !.streak = IF stage.result = "contained" THEN @ + 1 ELSE @]
    /\ net' = Hangs("call")
    /\ held' = NoLease
    /\ standing' = standing \ {"held", "call", "pending"}
    /\ proc' = [proc EXCEPT !.phase = "idle"]
    /\ stage' = NoStage
    /\ seen' = FALSE
    /\ UNCHANGED <<row, form, spent>>
ReportFails ==
    /\ \/ proc.phase = "acknowledge" /\ net["call"].reply \in {"lost", "refused", "gone"}
       \/ proc.phase \in {"report", "journaled"} /\ ~GuardHolds /\ stage.result \in Reports
    /\ Fails

-----------------------------------------------------------------------------
(* The end of the process.                                                 *)

Gone ==
    /\ proc' = [phase |-> "down", aborted |-> FALSE, linger |-> 0]
    /\ held' = NoLease
    /\ stage' = NoStage
    /\ Closes
    /\ \E ch \in {Channels \ {"late"}} :
          \/ /\ net' = [c \in Channels |-> IF c \in ch THEN Quiet ELSE net[c]]
             /\ standing' = standing \ (ch \union {"held"})
          \/ \E c \in ch :
                /\ net["late"].kind = "none"
                /\ net[c].kind # "none"
                /\ net[c].reply = "none"
                /\ net' = [d \in Channels |-> IF d = "late" THEN [net[c] EXCEPT !.age = 0] ELSE Quiet]
                /\ standing' = With("late", c) \ (ch \union {"held"})
    /\ UNCHANGED <<row, seen, disk>>

\* A stop waits for the stage that submits, and lets any other go.
StageIsOver == stage.at \in {"none", "ended"}
ExitAtOnce ==
    /\ proc.phase = "closing"
    /\ Gone
    /\ UNCHANGED spent
Exit ==
    /\ proc.phase = "closing"
    /\ ~stage.submitting \/ StageIsOver \/ proc.linger = 0
    /\ Gone
    /\ UNCHANGED spent

Crash ==
    /\ proc.phase # "down"
    /\ CanFault
    /\ Fault
    /\ Gone

-----------------------------------------------------------------------------
Down(n) == IF n = 0 THEN 0 ELSE n - 1

\* Timers fire, requests end and the disk answers well within a tick; so do
\* a poll and the receipt sent under its lease together.
Due ==
    \/ proc.phase = "reconcile" /\ (CallIsFree \/ held.left < Lease)
    \/ \E c \in {"call", "ask"} : net[c].kind # "none" /\ net[c].age = 1
    \/ proc.phase # "closing" /\ Expired
    \/ stage.at = "armed" /\ stage.wait = SubmitWait
    \/ stage.at = "pressed" /\ stage.wait = 0
    \/ proc.phase = "closing" /\ proc.linger = 0

Tick ==
    /\ ~Due
    /\ row' = [row EXCEPT !.left = Down(@), !.wait = Down(@),
                          !.age = IF row.state \in Ambiguous /\ @ < WindowTicks THEN @ + 1 ELSE @]
    /\ net' = [c \in Channels |-> IF c # "late" /\ net[c].kind # "none"
                                  THEN [net[c] EXCEPT !.age = 1] ELSE net[c]]
    /\ held' = [held EXCEPT !.left = Down(@)]
    /\ stage' = [stage EXCEPT !.wait = Down(@)]
    /\ proc' = [proc EXCEPT !.linger = Down(@)]
    /\ UNCHANGED <<seen, standing, form, disk, spent>>

-----------------------------------------------------------------------------
ServerStep == (\E c \in Channels : Serve(c)) \/ (\E s \in Working : GoOn(s)) \/ EndLease
                \/ (\E s \in {"confirmed", "refuted"} : Decide(s))
NetworkStep == \E c \in Channels : Lose(c) \/ Delay(c) \/ Resend(c)
LoopStep == Start \/ Recovered \/ RecoveryFails \/ Poll \/ Polled \/ SendKept \/ Reconciled
              \/ Result \/ Durable \/ SendDoubt \/ Journal \/ SendReport \/ Acknowledged
              \/ ReportFails \/ Exit
BeatStep == Heartbeat \/ Renewed \/ BeatMissed \/ BeatRefused \/ Watchdog \/ StageTimeout
SubmitStep == Advance \/ BeginFails \/ Press \/ PressStopped \/ Confirmed \/ Unconfirmed
                \/ SendReceipt \/ ReceiptTaken \/ KeepReceipt
StageStep == (\E r \in Reports : FillEnds(r)) \/ Begin \/ SubmitStep
Next == ServerStep \/ NetworkStep \/ LoopStep \/ BeatStep \/ StageStep
          \/ Ask \/ (\E shown \in BOOLEAN : Accept(shown)) \/ Stop \/ Crash \/ Tick

Spec == Init /\ [][Next]_vars

\* The program's own steps and timers, the server's answers, the clock.
Fairness ==
    /\ WF_vars(LoopStep)
    /\ WF_vars(BeatMissed \/ BeatRefused \/ Renewed)
    /\ WF_vars(Watchdog)
    /\ WF_vars(StageTimeout)
    /\ WF_vars(SubmitStep)
    /\ \A c \in {"call", "ask"} : WF_vars(Serve(c))
    /\ WF_vars(Tick)
LiveSpec == Spec /\ Fairness

-----------------------------------------------------------------------------
(* Properties.                                                             *)

\* The employer's form is sent by one process at most: whatever died between
\* the intent and the receipt, no later process fills and sends it again.
OneSender == form.senders <= 1

\* Once the applicant could say "not submitted", no window is left in which
\* the form might still go out, although windows outlive leases and stops.
NothingSentAfterRefuted ==
    row.state = "refuted" => ~(form.open /\ ~form.sent /\ stage.wait > 0)

\* A guard that still holds stands for a lease the server still has, for at
\* least as long, unless the server took it back.
GuardWithinLease ==
    GuardHolds /\ "held" \in standing => row.leased /\ row.left >= held.left

\* The journal lets go of a report only when the server has it or the lease
\* it was made under is over; it is never written over.
ReportIsSettled ==
    [][disk.pending # NoReport /\ disk'.pending # disk.pending =>
         disk'.pending = NoReport /\ (seen \/ "pending" \notin standing)]_vars

\* A stop never closes a window the applicant may be finishing the form in,
\* short of the time the adapters give it.
WindowOutlivesStop ==
    [][form.open /\ Exit => stage.wait <= PromptWait]_vars

\* The program drops neither what it has to report nor a form at work.
WorkIsNotDropped == ReportIsSettled /\ WindowOutlivesStop

\* A receipt the server did not take reaches it in the end, or the applicant
\* decides first: restarts, lost answers and lost leases only put it off.
ReceiptArrives == disk.receipt ~> row.state \in Decided

\* The worker polls again and again: no lost answer, wedged stage or refused
\* report stops it for good.
KeepsPolling == []<>(proc.phase = "poll")

\* runtime.ts:64, "so heartbeats keep it alive": a beat never ends the work
\* of a worker whose lease stands.
BeatsKeepAlive == [][BeatRefused /\ GuardHolds => ~("held" \in standing /\ row.leased)]_vars

\* runtime.ts:335, "That wait ignores the signal": a form that asks something
\* of the applicant is given up only when their time is over.
StopIsIgnored == [][Unconfirmed /\ form.asks => stage.wait = 0]_vars
=============================================================================
