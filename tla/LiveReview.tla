------------------------------ MODULE LiveReview ------------------------------
(***************************************************************************)
(* What the applicant sees of a form before approving it.  The worker      *)
(* posts pictures of its tab while it fills the form and, as it parks the  *)
(* form, the answers it typed (src/worker/live.ts); the server keeps the   *)
(* newest of each (src/lib/applications/live.ts); the page reads them and  *)
(* the application's row in requests of their own, and the Apply button    *)
(* names the row's revision (src/app/applications/applications.tsx).       *)
(*                                                                         *)
(* Fills are numbered: answers are the number of the fill they were typed  *)
(* in, and picture 2n - 1 is of fill n under way, 2n of fill n done.  0 is *)
(* nothing.                                                                *)
(***************************************************************************)
EXTENDS Naturals, FiniteSets

CONSTANTS
    MaxFills,   \* bound: fills of the form
    MaxLost,    \* bound: frames lost or handled after the worker gave up
    MaxReads    \* bound: times the page reads the lists

Fills == 0..MaxFills
Pictures == 0..(2 * MaxFills)
\* A frame's picture is left out, put in, or taken away.
Kept == 2 * MaxFills + 1

VARIABLES
    row,      \* the application: its state, its revision, its current fill
    worker,   \* the pass under way and what its view is doing
    frame,    \* the frame a view waits on
    late,     \* frames the server may still handle
    store,    \* the newest picture and answers the server has
    page,     \* the row and the frame the page shows
    reads,    \* what the page has asked for and not shown yet
    poll,     \* what the Live tab has, and the move it last fetched rows for
    reviewed, \* the answers on the page as Apply was pressed
    spent     \* frames lost and reads so far

vars == <<row, worker, frame, late, store, page, reads, poll, reviewed, spent>>

NoFrame == [picture |-> Kept, fields |-> 0, going |-> FALSE, served |-> FALSE]
Idle == [at |-> "off", fill |-> 0, rev |-> 0, typed |-> FALSE, busy |-> FALSE,
         again |-> FALSE, parks |-> FALSE, last |-> 0]
NoRead == [on |-> FALSE, row |-> FALSE, live |-> FALSE, state |-> "none", rev |-> 0, fields |-> 0]
NoPoll == [on |-> FALSE, fields |-> 0, behind |-> "none", tried |-> "none"]
NothingShown == [state |-> "none", rev |-> 0, fields |-> 0]

States == {"filling", "approval", "ready", "sent"}
Stages == {"off", "open", "drain", "last", "fields", "report"}

TypeOK ==
    /\ row \in [state : States, rev : 0..(4 * MaxFills), fill : 1..MaxFills]
    /\ worker \in [at : Stages, fill : Fills, rev : 0..(4 * MaxFills), typed : BOOLEAN,
                   busy : BOOLEAN, again : BOOLEAN, parks : BOOLEAN, last : Pictures]
    /\ frame \in [picture : Pictures \union {Kept}, fields : Fills, going : BOOLEAN, served : BOOLEAN]
    /\ late \subseteq [picture : Pictures \union {Kept}, fields : Fills]
    /\ store \in [picture : Pictures, fields : Fills]
    /\ page \in [state : States \union {"none"}, rev : 0..(4 * MaxFills), fields : Fills]
    /\ reads \in [on : BOOLEAN, row : BOOLEAN, live : BOOLEAN,
                  state : States \union {"none"}, rev : 0..(4 * MaxFills), fields : Fills]
    /\ poll \in [on : BOOLEAN, fields : Fills, behind : States \union {"none"},
                 tried : States \union {"none"}]
    /\ reviewed \in Fills
    /\ spent \in [lost : 0..MaxLost, reads : 0..MaxReads]

Init ==
    /\ row = [state |-> "filling", rev |-> 0, fill |-> 1]
    /\ worker = Idle /\ frame = NoFrame /\ late = {}
    /\ store = [picture |-> 0, fields |-> 0]
    /\ page = NothingShown
    /\ reads = NoRead /\ poll = NoPoll
    /\ reviewed = 0
    /\ spent = [lost |-> 0, reads |-> 0]

-----------------------------------------------------------------------------
\* Mutant of Stored: a frame replaces the whole row.
StoredWhole(f) ==
    [picture |-> IF f.picture = Kept THEN store.picture ELSE f.picture, fields |-> f.fields]

\* A frame replaces what it carries and leaves the rest.
Stored(f) ==
    [picture |-> IF f.picture = Kept THEN store.picture ELSE f.picture,
     fields |-> IF f.fields = 0 THEN store.fields ELSE f.fields]

Serve ==
    /\ frame.going /\ ~frame.served
    /\ store' = Stored(frame)
    /\ frame' = [frame EXCEPT !.served = TRUE]
    /\ UNCHANGED <<row, worker, late, page, reads, poll, reviewed, spent>>

ServeLate(f) ==
    /\ f \in late
    /\ store' = Stored(f) /\ late' = late \ {f}
    /\ UNCHANGED <<row, worker, frame, page, reads, poll, reviewed, spent>>

\* The worker stops waiting for a frame the server has not handled.
GivesUp ==
    /\ frame.going /\ ~frame.served /\ spent.lost < MaxLost
    /\ spent' = [spent EXCEPT !.lost = @ + 1]
    /\ late' = late \union {[picture |-> frame.picture, fields |-> frame.fields]}
    /\ frame' = [frame EXCEPT !.served = TRUE]
    /\ UNCHANGED <<row, worker, store, page, reads, poll, reviewed>>

Posts(picture, fields) ==
    frame' = [picture |-> picture, fields |-> fields, going |-> TRUE, served |-> FALSE]

-----------------------------------------------------------------------------
\* The picture of the tab as it is.
Seen == IF worker.typed THEN 2 * worker.fill ELSE 2 * worker.fill - 1

OpenForm ==
    /\ worker.at = "off" /\ row.state \in {"filling", "ready"}
    /\ worker' = [Idle EXCEPT !.at = "open", !.fill = row.fill, !.rev = row.rev]
    /\ UNCHANGED <<row, frame, late, store, page, reads, poll, reviewed, spent>>

TypeIn ==
    /\ worker.at = "open" /\ ~worker.typed
    /\ worker' = [worker EXCEPT !.typed = TRUE]
    /\ UNCHANGED <<row, frame, late, store, page, reads, poll, reviewed, spent>>

\* The timer sends a frame unless one is under way; a step that finds one under
\* way asks for another after it.
Send ==
    /\ worker.at = "open" /\ ~worker.busy
    /\ worker' = [worker EXCEPT !.busy = TRUE]
    /\ \E picture \in {Seen, Kept} : Posts(picture, 0)
    /\ UNCHANGED <<row, late, store, page, reads, poll, reviewed, spent>>

NextStep ==
    /\ worker.at = "open" /\ worker.busy /\ ~worker.again
    /\ worker' = [worker EXCEPT !.again = TRUE]
    /\ UNCHANGED <<row, frame, late, store, page, reads, poll, reviewed, spent>>

Sent ==
    /\ worker.busy /\ frame.served
    /\ worker' = [worker EXCEPT !.busy = worker.again, !.again = FALSE]
    /\ IF worker.again THEN \E picture \in {Seen, Kept} : Posts(picture, 0)
                       ELSE frame' = NoFrame
    /\ UNCHANGED <<row, late, store, page, reads, poll, reviewed, spent>>

\* The form is filled, and a fill parks it for review; or the pass ends before.
Finish ==
    /\ worker.at = "open"
    /\ \E parks \in {FALSE, worker.typed /\ row.state = "filling"} :
           worker' = [worker EXCEPT !.at = "drain", !.parks = parks]
    /\ UNCHANGED <<row, frame, late, store, page, reads, poll, reviewed, spent>>

\* Mutant of Stop: the frames under way are not waited for.
StopAnyway ==
    /\ worker.at = "drain"
    /\ late' = IF worker.busy /\ ~frame.served
               THEN late \union {[picture |-> frame.picture, fields |-> frame.fields]} ELSE late
    /\ \E picture \in IF worker.parks THEN {Seen, Kept} ELSE {0} :
           /\ Posts(picture, 0)
           /\ worker' = [worker EXCEPT !.at = "last", !.busy = FALSE,
                                       !.last = IF picture = Kept THEN 0 ELSE picture]
    /\ UNCHANGED <<row, store, page, reads, poll, reviewed, spent>>

\* The last frame waits for the ones under way; only a parked form keeps its
\* picture.
Drained == ~worker.busy

Stop ==
    /\ worker.at = "drain" /\ Drained
    /\ \E picture \in IF worker.parks THEN {Seen, Kept} ELSE {0} :
           /\ Posts(picture, 0)
           /\ worker' = [worker EXCEPT !.at = "last", !.busy = FALSE,
                                       !.last = IF picture = Kept THEN 0 ELSE picture]
    /\ UNCHANGED <<row, late, store, page, reads, poll, reviewed, spent>>

\* The answers follow in a frame of their own.
PostFields ==
    /\ worker.at = "last" /\ frame.served
    /\ IF worker.parks
       THEN Posts(Kept, worker.fill) /\ worker' = [worker EXCEPT !.at = "fields"]
       ELSE frame' = NoFrame /\ worker' = [worker EXCEPT !.at = "report"]
    /\ UNCHANGED <<row, late, store, page, reads, poll, reviewed, spent>>

FieldsPosted ==
    /\ worker.at = "fields" /\ frame.served
    /\ frame' = NoFrame /\ worker' = [worker EXCEPT !.at = "report"]
    /\ UNCHANGED <<row, late, store, page, reads, poll, reviewed, spent>>

\* Only then the server hears of the result, under the revision it was leased.
Report ==
    /\ worker.at = "report"
    /\ worker' = [Idle EXCEPT !.last = worker.last]
    /\ IF row.rev # worker.rev THEN UNCHANGED row
       ELSE \/ /\ worker.parks
               /\ row' = [row EXCEPT !.state = "approval", !.rev = @ + 1]
            \/ /\ ~worker.parks /\ row.state = "ready" /\ worker.typed
               /\ row' = [row EXCEPT !.state = "sent", !.rev = @ + 1]
            \/ ~worker.parks /\ UNCHANGED row
    /\ UNCHANGED <<frame, late, store, page, reads, poll, reviewed, spent>>

WorkerStep ==
    OpenForm \/ TypeIn \/ Send \/ NextStep \/ Sent \/ Finish \/ Stop \/ PostFields
        \/ FieldsPosted \/ Report

-----------------------------------------------------------------------------
\* A change to what fills the form needs a new fill and review.
PolicyChanges ==
    /\ row.state \in {"approval", "ready"} /\ row.fill < MaxFills
    /\ row' = [state |-> "filling", rev |-> row.rev + 1, fill |-> row.fill + 1]
    /\ UNCHANGED <<worker, frame, late, store, page, reads, poll, reviewed, spent>>

\* The page asks for the rows and the frames at once, and shows both when both
\* are there.
Load ==
    /\ ~reads.on /\ spent.reads < MaxReads
    /\ reads' = [reads EXCEPT !.on = TRUE]
    /\ spent' = [spent EXCEPT !.reads = @ + 1]
    /\ UNCHANGED <<row, worker, frame, late, store, page, poll, reviewed>>

ReadRow ==
    /\ reads.on /\ ~reads.row
    /\ reads' = [reads EXCEPT !.row = TRUE, !.state = row.state, !.rev = row.rev]
    /\ UNCHANGED <<row, worker, frame, late, store, page, poll, reviewed, spent>>

ReadLive ==
    /\ reads.on /\ ~reads.live
    /\ reads' = [reads EXCEPT !.live = TRUE, !.fields = store.fields]
    /\ UNCHANGED <<row, worker, frame, late, store, page, poll, reviewed, spent>>

Show ==
    /\ reads.on /\ reads.row /\ reads.live
    /\ page' = [state |-> reads.state, rev |-> reads.rev, fields |-> reads.fields]
    /\ reads' = NoRead
    /\ UNCHANGED <<row, worker, frame, late, store, poll, reviewed, spent>>

\* The Live tab reads the frames; a row that moved since it was read, as its
\* frame shows, is read again, once for each move.
Behind == IF page.state = row.state THEN "none" ELSE row.state

PollLive ==
    /\ ~poll.on /\ spent.reads < MaxReads
    /\ spent' = [spent EXCEPT !.reads = @ + 1]
    /\ IF Behind \notin {"none", poll.tried}
       THEN /\ poll' = [poll EXCEPT !.on = TRUE, !.fields = store.fields, !.behind = Behind]
            /\ UNCHANGED page
       ELSE /\ poll' = [poll EXCEPT !.tried = Behind]
            /\ page' = [page EXCEPT !.fields = store.fields]
    /\ UNCHANGED <<row, worker, frame, late, store, reads, reviewed>>

PollRows ==
    /\ poll.on
    /\ page' = [state |-> row.state, rev |-> row.rev, fields |-> poll.fields]
    /\ poll' = [NoPoll EXCEPT !.tried = poll.behind]
    /\ UNCHANGED <<row, worker, frame, late, store, reads, reviewed, spent>>

\* The server takes an approval of the revision the page showed.
Current == page.rev = row.rev

Approve ==
    /\ page.state = "approval" /\ row.state = "approval" /\ Current
    /\ row' = [row EXCEPT !.state = "ready", !.rev = @ + 1]
    /\ reviewed' = page.fields
    /\ UNCHANGED <<worker, frame, late, store, page, reads, poll, spent>>

PageStep == Load \/ ReadRow \/ ReadLive \/ Show \/ PollLive \/ PollRows \/ Approve

Next ==
    \/ WorkerStep \/ PageStep \/ PolicyChanges
    \/ Serve \/ GivesUp \/ \E f \in late : ServeLate(f)

Spec == Init /\ [][Next]_vars

-----------------------------------------------------------------------------
\* A form that waits for its approval has its own answers and its own last
\* picture beside it at the server: the frames still on their way as it was
\* parked are stored before, and none of an earlier fill comes back
\* (live.ts 39-48).
AnswersStand == spent.lost = 0 /\ row.state \in {"approval", "ready"} => store.fields = row.fill

PictureStands ==
    spent.lost = 0 /\ row.state = "approval" /\ worker.at = "off" /\ worker.last # 0 =>
        store.picture = worker.last

ReviewStands == AnswersStand /\ PictureStands

\* An approval covers the form the applicant reviewed (stores.ts 323).
ApprovedIsReviewed == row.state \in {"ready", "sent"} => reviewed = row.fill
=============================================================================
