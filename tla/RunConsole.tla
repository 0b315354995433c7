------------------------------- MODULE RunConsole -------------------------------
(***************************************************************************)
(* The page that pairs workers and commands runs (workers/control.ts,      *)
(* workers.tsx) against the commands of the server (runs.ts, pairing.ts):  *)
(* one run, its worker, and one tab of a browser whose account may change. *)
(* A new operation of the tab aborts the one under way, not the request    *)
(* that has left; an emergency stop overtakes a command whose outcome is   *)
(* not known yet, and the overtaken command is kept.                       *)
(***************************************************************************)
EXTENDS Naturals, Sequences, SequencesExt, FiniteSets

CONSTANTS MaxCommands, MaxSends, MaxMoves, MaxFaults

None == "none"
Me == "me"
Other == "other"
RunActions == {"pause", "resume", "stop", "emergency-stop"}
Actions == RunActions \cup {"revoke", "pair"}

VARIABLES
    run,        \* revision and state
    worker,     \* revision, revoked or not
    rival,      \* another run of this worker is running
    done,       \* commands carried out: id -> the revision acknowledged
    net,        \* copies of commands sent and not yet served
    account,    \* who is signed in
    cmd,        \* the commands issued in this tab; left: its account was left
    view,       \* what the tab shows and keeps
    op,         \* its operation under way
    halted,     \* history: the tab said an emergency stop had stopped the run
    refused,    \* history: resumes refused because of the rival
    bounds

vars == <<run, worker, rival, done, net, account, cmd, view, op, halted, refused, bounds>>
server == <<run, worker, rival, done>>

NoRow == [rev |-> 0, state |-> None]
NoRead == [run |-> NoRow, worker |-> NoRow]
NoOp == [kind |-> None, step |-> None, id |-> 0, retry |-> FALSE, read |-> NoRead]
InitialView ==
    [owner |-> None, locked |-> TRUE, busy |-> FALSE, shown |-> NoRead,
     pending |-> 0, superseded |-> <<>>, grant |-> 0]

Init ==
    /\ run = [rev |-> 1, state |-> "running"]
    /\ worker = [rev |-> 1, state |-> "paired"]
    /\ rival = FALSE /\ done = <<>> /\ net = {} /\ account = Me /\ cmd = <<>>
    /\ view = InitialView /\ op = NoOp /\ halted = FALSE /\ refused = {}
    /\ bounds = [sends |-> 0, moves |-> 0, faults |-> 0]

Ids == DOMAIN cmd
Done(c) == \E d \in ToSet(done) : d.id = c
Target(c) == IF cmd[c].action \in RunActions THEN "run" ELSE cmd[c].action

-----------------------------------------------------------------------------
(* The server. *)

Carried(c, rev) == done' = Append(done, [id |-> c, rev |-> rev])
State(action) ==
    CASE action = "resume" -> "running" [] action = "pause" -> "paused" [] OTHER -> "stopped"
\* A revision that moved, or a stopped run, refuses.
Accepts(c) ==
    CASE Target(c) = "pair" -> TRUE
      [] Target(c) = "revoke" -> worker.rev = cmd[c].rev
      [] OTHER ->
           /\ run.rev = cmd[c].rev /\ run.state # "stopped"
           /\ cmd[c].action = "resume" =>
                run.state = "paused" /\ worker.state = "paired" /\ ~rival

CommandRun(c) ==
    /\ Target(c) = "run"
    /\ run' = [rev |-> run.rev + 1, state |-> State(cmd[c].action)]
    /\ Carried(c, run.rev + 1) /\ UNCHANGED worker
\* revokeWorker: its running run is paused.
RevokeWorker(c) ==
    /\ Target(c) = "revoke"
    /\ worker' = [rev |-> worker.rev + 1, state |-> "revoked"]
    /\ run' = IF run.state = "running" THEN [rev |-> run.rev + 1, state |-> "paused"] ELSE run
    /\ Carried(c, worker.rev + 1)
CreatePairing(c) ==
    Target(c) = "pair" /\ Carried(c, 1) /\ UNCHANGED <<run, worker>>
Answered(c, step) ==
    op' = IF op.id = c.id /\ op.step = "wait" /\ bounds.sends = c.n
          THEN [op EXCEPT !.step = step] ELSE op
\* A command is carried out once; a grant cannot be shown again.
Serve(c) ==
    /\ c \in net /\ net' = net \ {c}
    /\ \/ /\ ~Done(c.id) /\ Accepts(c.id)
          /\ CommandRun(c.id) \/ RevokeWorker(c.id) \/ CreatePairing(c.id)
          /\ Answered(c, "told") /\ UNCHANGED refused
       \/ /\ Done(c.id) /\ Answered(c, IF cmd[c.id].action = "pair" THEN "refused" ELSE "told")
          /\ UNCHANGED <<run, worker, done, refused>>
       \/ /\ ~Done(c.id) /\ ~Accepts(c.id) /\ Answered(c, "refused")
          /\ refused' = IF rival /\ cmd[c.id].action = "resume" THEN refused \cup {c.id} ELSE refused
          /\ UNCHANGED <<run, worker, done>>
    /\ UNCHANGED <<rival, account, cmd, view, halted, bounds>>

\* Another page, or the start of the next day, moves the run or the worker.
Moves ==
    /\ bounds.moves < MaxMoves /\ bounds' = [bounds EXCEPT !.moves = @ + 1]
    /\ \/ /\ run.state \in {"running", "paused"} /\ UNCHANGED <<worker, rival, account>>
          /\ run' \in {[rev |-> run.rev + 1, state |-> s] : s \in {"paused", "stopped"}}
       \/ rival' = ~rival /\ run.state # "running" /\ UNCHANGED <<run, worker, account>>
       \/ account' \in {Me, Other} \ {account} /\ UNCHANGED <<run, worker, rival>>
    /\ UNCHANGED <<done, net, cmd, view, op, halted, refused>>

-----------------------------------------------------------------------------
(* The tab. *)

\* Mutant of Cleared: what an emergency stop overtook is kept for the next account.
ClearedButOvertaken(owner, next) ==
    /\ view' = [InitialView EXCEPT !.owner = owner, !.superseded = view.superseded]
    /\ op' = next /\ halted' = FALSE /\ UNCHANGED cmd
\* clearOwner, with the operation aborted, or going on for the next account.
Cleared(owner, next) ==
    /\ view' = [InitialView EXCEPT !.owner = owner] /\ op' = next /\ halted' = FALSE
    /\ cmd' = [c \in Ids |-> [cmd[c] EXCEPT !.left = TRUE]]

\* refresh begins: by hand, on focus, every heartbeat; it aborts what is under way.
Refresh(quiet) ==
    /\ (op = NoOp \/ bounds.faults < MaxFaults) /\ op.kind # "refresh"
    /\ view' = [view EXCEPT !.locked = @ \/ ~quiet, !.busy = FALSE]
    /\ op' = [NoOp EXCEPT !.kind = "refresh", !.step = "owner"]
    /\ bounds' = IF op = NoOp THEN bounds ELSE [bounds EXCEPT !.faults = @ + 1]
    /\ UNCHANGED <<server, net, account, cmd, halted, refused>>

\* A refresh takes the account that is signed in now.
TakeOwner ==
    LET next == [op EXCEPT !.step = "read"]
    IN /\ op.step = "owner" /\ op.kind = "refresh"
       /\ IF view.owner \notin {None, account} THEN Cleared(account, next)
          ELSE /\ view' = [view EXCEPT !.owner = account] /\ op' = next
               /\ UNCHANGED <<cmd, halted>>
       /\ UNCHANGED <<server, net, account, refused, bounds>>

\* suspend: the page is hidden.
Suspend ==
    /\ op # NoOp /\ bounds.faults < MaxFaults
    /\ view' = [view EXCEPT !.busy = FALSE] /\ op' = NoOp
    /\ bounds' = [bounds EXCEPT !.faults = @ + 1]
    /\ UNCHANGED <<server, net, account, cmd, halted, refused>>

\* A request fails, or no answer comes in time; the pending command stays.
Fails ==
    /\ op # NoOp /\ bounds.faults < MaxFaults
    /\ \E signedOut \in BOOLEAN : view' = [view EXCEPT !.busy = FALSE, !.locked = @ \/ signedOut]
    /\ op' = NoOp /\ bounds' = [bounds EXCEPT !.faults = @ + 1]
    /\ UNCHANGED <<server, net, account, cmd, halted, refused>>

\* execute begins; only an emergency stop does with another command pending.
Execute(c, retry) ==
    /\ view.owner # None /\ ~view.locked
    /\ view' = [view EXCEPT !.pending = c, !.busy = TRUE,
                            !.superseded = IF view.pending \in {0, c} THEN @ ELSE Append(@, view.pending)]
    /\ op' = [NoOp EXCEPT !.kind = "execute", !.step = "owner", !.id = c, !.retry = retry]

Offered(action) ==
    LET s == view.shown.run.state
    IN CASE action = "pause" -> s = "running"
         [] action = "resume" -> s = "paused" /\ view.shown.worker.state = "paired"
         [] action = "revoke" -> view.shown.worker.state = "paired"
         [] action = "pair" -> view.owner # None /\ view.grant = 0
         [] OTHER -> s \notin {None, "stopped"}
Overtaking ==
    ~(view.busy /\ view.pending # 0 /\ cmd[view.pending].action = "emergency-stop")
Command(action) ==
    /\ Len(cmd) < MaxCommands /\ Offered(action)
    /\ IF action = "emergency-stop" THEN Overtaking ELSE ~view.busy /\ view.pending = 0
    /\ cmd' = Append(cmd, [action |-> action, owner |-> view.owner, ack |-> 0, left |-> FALSE,
                           rev |-> IF action = "revoke" THEN view.shown.worker.rev
                                   ELSE IF action = "pair" THEN 0 ELSE view.shown.run.rev])
    /\ Execute(Len(cmd) + 1, FALSE)
    /\ UNCHANGED <<server, net, account, halted, refused, bounds>>
Retry ==
    /\ view.pending # 0 /\ ~view.busy /\ Execute(view.pending, TRUE)
    /\ UNCHANGED <<server, net, account, cmd, halted, refused, bounds>>

Looks == cmd[op.id].action = "emergency-stop" /\ ~op.retry
AssertOwner ==
    /\ op.step = "owner" /\ op.kind = "execute"
    /\ IF account # view.owner THEN Cleared(None, NoOp)
       ELSE /\ op' = [op EXCEPT !.step = IF Looks \/ cmd[op.id].ack # 0 THEN "read" ELSE "send"]
            /\ UNCHANGED <<cmd, view, halted>>
    /\ UNCHANGED <<server, net, account, refused, bounds>>

Send ==
    /\ op.step = "send" /\ bounds.sends < MaxSends
    /\ IF account # view.owner THEN Cleared(None, NoOp) /\ UNCHANGED <<net, bounds>>
       ELSE /\ net' = net \cup {[id |-> op.id, n |-> bounds.sends + 1]}
            /\ bounds' = [bounds EXCEPT !.sends = @ + 1]
            /\ op' = [op EXCEPT !.step = "wait"] /\ UNCHANGED <<cmd, view, halted>>
    /\ UNCHANGED <<server, account, refused>>

\* The answer to the command; then what is current is read.
Told ==
    /\ op.step = "told"
    /\ IF account # view.owner THEN Cleared(None, NoOp)
       ELSE /\ cmd' = [cmd EXCEPT ![op.id].ack = (CHOOSE d \in ToSet(done) : d.id = op.id).rev]
            /\ view' = IF cmd[op.id].action = "pair" THEN [view EXCEPT !.grant = op.id] ELSE view
            /\ op' = [op EXCEPT !.step = "read", !.retry = TRUE] /\ UNCHANGED halted
    /\ UNCHANGED <<server, net, account, refused, bounds>>

\* head, up to its last request; each names the account it is for.
Read ==
    /\ op.step \in {"read", "refused"}
    /\ IF account # view.owner THEN Cleared(None, NoOp)
       ELSE /\ op' = [op EXCEPT !.step = IF @ = "read" THEN "show" ELSE "showRefused",
                               !.read = IF account = Me THEN [run |-> run, worker |-> worker] ELSE NoRead]
            /\ UNCHANGED <<cmd, view, halted>>
    /\ UNCHANGED <<server, net, account, refused, bounds>>

\* Mutant of Fenced: any older command counts as overtaken for good.
FencedAnywhere(c, rev) == SelectSeq(view.superseded, LAMBDA s : cmd[s].rev >= rev)
\* Older commands on what an emergency stop has stopped have had their day.
Fenced(c, rev) ==
    IF cmd[c].action # "emergency-stop" THEN view.superseded
    ELSE SelectSeq(view.superseded, LAMBDA s : Target(s) # Target(c) \/ cmd[s].rev >= rev)
\* Mutant of Finish: the rows on screen stay until the next refresh.
FinishUnread(c, rev, shown) ==
    LET left == Fenced(c, rev)
    IN /\ view' = [view EXCEPT !.busy = FALSE, !.pending = IF left = <<>> THEN 0 ELSE Last(left),
                               !.superseded = IF left = <<>> THEN <<>> ELSE Front(left)]
       /\ op' = NoOp
\* finish: the command overtaken last is pending again.
Finish(c, rev, shown) ==
    LET left == Fenced(c, rev)
    IN /\ view' = [view EXCEPT !.busy = FALSE, !.shown = shown,
                               !.pending = IF left = <<>> THEN 0 ELSE Last(left),
                               !.superseded = IF left = <<>> THEN <<>> ELSE Front(left)]
       /\ op' = NoOp

Current(c) == IF Target(c) = "run" THEN op.read.run ELSE op.read.worker
\* head's last request: the account.  Then the view is renewed and the
\* operation goes on: an emergency stop goes by the revision just read.
Show ==
    /\ op.step \in {"show", "showRefused"}
    /\ IF account # view.owner THEN Cleared(None, NoOp)
       ELSE \/ /\ op.kind = "refresh" /\ op' = NoOp
               /\ view' = [view EXCEPT !.locked = FALSE, !.shown = op.read]
               /\ UNCHANGED <<cmd, halted>>
            \/ /\ op.step = "showRefused" /\ Finish(op.id, 0, op.read) /\ UNCHANGED <<cmd, halted>>
            \/ /\ op.kind = "execute" /\ op.step = "show" /\ Looks /\ op.read.run.state # "stopped"
               /\ cmd' = [cmd EXCEPT ![op.id].rev = op.read.run.rev]
               /\ view' = [view EXCEPT !.shown = op.read]
               /\ op' = [op EXCEPT !.step = "send"] /\ UNCHANGED halted
            \/ /\ op.kind = "execute" /\ op.step = "show" /\ (Looks => op.read.run.state = "stopped")
               /\ Finish(op.id, IF cmd[op.id].action = "pair" THEN 1 ELSE Current(op.id).rev, op.read)
               /\ halted' = (halted \/ cmd[op.id].action = "emergency-stop") /\ UNCHANGED cmd
    /\ UNCHANGED <<server, net, account, refused, bounds>>

\* clearSecret, or the grant has run out.
Dismiss ==
    /\ view.grant # 0 /\ view' = [view EXCEPT !.grant = 0]
    /\ UNCHANGED <<server, net, account, cmd, op, halted, refused, bounds>>

Next ==
    \/ \E c \in net : Serve(c)
    \/ Moves \/ Suspend \/ Fails \/ Retry \/ Dismiss
    \/ \E quiet \in BOOLEAN : Refresh(quiet)
    \/ \E a \in Actions : Command(a)
    \/ TakeOwner \/ AssertOwner \/ Send \/ Told \/ Read \/ Show
Spec == Init /\ [][Next]_vars

-----------------------------------------------------------------------------
TypeOK ==
    /\ run.rev \in Nat /\ run.state \in {"running", "paused", "stopped"}
    /\ worker.state \in {"paired", "revoked"}
    /\ \A c \in Ids : cmd[c].action \in Actions /\ cmd[c].owner \in {Me, Other}
    /\ view.pending \in Ids \cup {0} /\ ToSet(view.superseded) \subseteq Ids
    /\ op.id \in Ids \cup {0} /\ \A c \in net : c.id \in Ids

Kept == ({view.pending} \cup ToSet(view.superseded)) \ {0}
\* A command that nothing still under way can carry out.  A worker that was
\* revoked stays so, and none of its runs can be resumed.
Over(c) ==
    \/ Done(c) \/ c \in refused
    \/ cmd[c].action = "resume" /\ worker.state = "revoked"
    \/ Target(c) = "run" /\ (run.state = "stopped" \/ run.rev > cmd[c].rev)
    \/ Target(c) = "revoke" /\ worker.rev > cmd[c].rev

\* While the account stays, every command is on screen as pending, or waits
\* behind an emergency stop, until its outcome is settled: a command the tab
\* forgot can no longer be carried out by a request still on its way.
ForgottenIsOver ==
    \A c \in Ids : cmd[c].left \/ c \in Kept \/ Over(c)

\* What the tab keeps to send again, and the grant it shows, are of the
\* account on screen.
OwnCommands ==
    \A c \in Kept \cup ({view.grant} \ {0}) : cmd[c].owner = view.owner

\* After the tab said an emergency stop took effect, the run is stopped and
\* is shown so, whatever was overtaken, repeated or answered late.
StopIsShown == halted => run.state = "stopped" /\ view.shown.run.state = "stopped"

ConsoleIsSound == ForgottenIsOver /\ OwnCommands /\ StopIsShown
=============================================================================
