---------------------------- MODULE RefreshButton ----------------------------
(* The refresh button (app/refresh-button.tsx), the route it talks to        *)
(* (app/api/refresh/route.ts, lib/refresh-status.ts, app/api/cron/refresh)   *)
(* and what it watches: on the machine with the pipeline a cycle read off    *)
(* its lock and its log, on the hosted copy the request that was recorded.   *)
(* A press is not guarded until its first answer, an interval goes on asking *)
(* while earlier answers are under way, and an answer may land after its     *)
(* watch was over.                                                           *)
(*                                                                           *)
(* rows counts the cycles that put new rows where the board reads them, and  *)
(* table how many of them the page shows. Not modelled: the blind second     *)
(* re-render, the wording of the notes, panels off the board, leaving the    *)
(* page, a log that midnight or a refused start made the newest.             *)
EXTENDS Naturals, Sequences

CONSTANTS Prompt,     \* answers and scripts are faster than the intervals
          MaxRuns, MaxPresses, MaxFaults

VARIABLES hosted,     \* which of the two servers this is
          cycle,      \* how far the cycle is, or the cloud's run of the request
          requests,   \* the status of each refresh requests, in the order they were recorded
          rows,
          press,      \* the handlers of presses under way: "post", or an answer to it
          watch,      \* the interval: whether it runs, and the request it is about
          polls,      \* questions under way: open, or answered
          view,       \* phase, waiting, whether the table was re-rendered, releases due
          table,
          aim,        \* the cycle the last press was told about (history)
          spent       \* runs, presses and faults so far

vars == <<hosted, cycle, requests, rows, press, watch, polls, view, table, aim, spent>>

Stages == <<"none", "spawned", "locked", "ingesting", "enriching", "syncing", "ended">>
NoWatch == [on |-> FALSE, about |-> 0, old |-> FALSE]
Open == [kind |-> "open", id |-> 0]

Init == /\ hosted \in BOOLEAN
        /\ cycle = "none" /\ requests = <<>> /\ rows = 0
        /\ press = <<>> /\ watch = NoWatch /\ polls = <<>>
        /\ view = [phase |-> "idle", waiting |-> FALSE, rendered |-> FALSE, release |-> FALSE]
        /\ table = 0 /\ aim = 0
        /\ spent = [runs |-> 0, presses |-> 0, faults |-> 0]

Fault == spent.faults < MaxFaults /\ spent' = [spent EXCEPT !.faults = @ + 1]
Without(s, k) == SubSeq(s, 1, k - 1) \o SubSeq(s, k + 1, Len(s))
Quick == Prompt => polls = <<>> /\ press = <<>>

-----------------------------------------------------------------------------
(* The cycle, as refresh.sh goes through it; the lock is there from "locked" *)
(* to "ended" and the log says how far it is. A second script finds the lock *)
(* and leaves.                                                               *)
Locked == cycle \in {"locked", "ingesting", "enriching", "syncing", "ended"}
Phase == IF cycle = "locked" THEN "idle" ELSE IF cycle = "ended" THEN "done" ELSE cycle

(* requestRefresh: the request that waits or runs is joined.                 *)
Waits == requests # <<>> /\ requests[Len(requests)] \in {"queued", "running"}
Asked == IF Waits THEN requests ELSE Append(requests, "queued")
Started == /\ spent.runs < MaxRuns
           /\ spent' = [spent EXCEPT !.runs = @ + 1]

(* launchd starts a cycle, and the scheduler of the hosted copy asks for one.*)
Scheduled ==
    /\ Started
    /\ IF hosted THEN ~Waits /\ requests' = Asked /\ UNCHANGED cycle
       ELSE cycle = "none" /\ cycle' = "spawned" /\ UNCHANGED requests
    /\ UNCHANGED <<hosted, rows, press, watch, polls, view, table, aim>>

Advance ==
    /\ ~hosted
    /\ \E k \in 2..6 : cycle = Stages[k] /\ cycle' = Stages[k + 1]
    /\ rows' = IF cycle = "enriching" THEN rows + 1 ELSE rows
    /\ UNCHANGED <<hosted, requests, press, watch, polls, view, table, aim, spent>>

Leaves == /\ ~hosted /\ cycle = "ended" /\ cycle' = "none"
          /\ UNCHANGED <<hosted, requests, rows, press, watch, polls, view, table, aim, spent>>

(* A cycle that stops: its pid is dead, so it is not running.                *)
Dies == /\ ~hosted /\ Locked /\ Fault /\ cycle' = "none"
        /\ aim' = IF aim > rows THEN 0 ELSE aim
        /\ UNCHANGED <<hosted, requests, rows, press, watch, polls, view, table>>

(* The cloud claims the requests, and completes it with its mirror or without.*)
Newest(status) == requests' = [requests EXCEPT ![Len(requests)] = status]
Claim == /\ Waits /\ requests[Len(requests)] = "queued"
         /\ Newest("running")
         /\ UNCHANGED <<hosted, cycle, rows, press, watch, polls, view, table, aim, spent>>
Complete == /\ Waits /\ requests[Len(requests)] = "running"
            /\ \/ Newest("succeeded") /\ rows' = rows + 1 /\ UNCHANGED <<aim, spent>>
               \/ /\ Newest("failed") /\ Fault
                  /\ aim' = (IF aim > rows THEN 0 ELSE aim) /\ UNCHANGED rows
            /\ UNCHANGED <<hosted, cycle, press, watch, polls, view, table>>

-----------------------------------------------------------------------------
(* busy: a press is possible only while nothing is shown to be under way,    *)
(* which the time a local press takes to be answered is not.                 *)
Busy == view.waiting \/ view.phase \notin {"idle", "done"}

Press == /\ ~Busy /\ (Prompt => polls = <<>>) /\ spent.presses < MaxPresses /\ Len(press) < 2
         /\ spent' = [spent EXCEPT !.presses = @ + 1]
         /\ press' = Append(press, Open)
         /\ view' = [view EXCEPT !.waiting = hosted]
         /\ UNCHANGED <<hosted, cycle, requests, rows, watch, polls, table, aim>>

(* POST: the request is recorded or joined to the one that waits; the local  *)
(* server starts a cycle unless one holds the lock.                          *)
Posted(k) ==
    /\ press[k] = Open
    /\ IF hosted
       THEN /\ IF Waits THEN UNCHANGED spent ELSE Started
            /\ requests' = Asked /\ aim' = rows + 1
            /\ UNCHANGED cycle
       ELSE /\ IF cycle = "none" THEN Started /\ cycle' = "spawned" ELSE UNCHANGED <<cycle, spent>>
            /\ aim' = rows + (IF cycle \in {"syncing", "ended"} THEN 0 ELSE 1)
            /\ UNCHANGED requests
    /\ press' = [press EXCEPT ![k] = [kind |-> "accepted", id |-> Len(requests')]]
    /\ UNCHANGED <<hosted, rows, watch, polls, view, table>>

PostFails(k) == /\ press[k] = Open /\ Fault
                /\ press' = [press EXCEPT ![k] = [kind |-> "failed", id |-> 0]]
                /\ UNCHANGED <<hosted, cycle, requests, rows, watch, polls, view, table, aim>>

(* poll, and askRunner: the interval before it is cleared, and the table is  *)
(* to be re-rendered once more.                                              *)
(* Mutant of Watched: the table counts as re-rendered by the watch before.   *)
WatchedOn == [view EXCEPT !.phase = IF hosted THEN @ ELSE "ingesting"]
Watched == [view EXCEPT !.rendered = FALSE, !.phase = IF hosted THEN @ ELSE "ingesting"]
Accepted(k) ==
    /\ press[k].kind = "accepted"
    /\ press' = Without(press, k)
    /\ watch' = [on |-> TRUE, about |-> press[k].id, old |-> FALSE]
    /\ view' = Watched
    /\ UNCHANGED <<hosted, cycle, requests, rows, polls, table, aim, spent>>
Refused(k) ==
    /\ press[k].kind = "failed"
    /\ press' = Without(press, k)
    /\ view' = IF hosted THEN [view EXCEPT !.waiting = FALSE] ELSE view
    /\ UNCHANGED <<hosted, cycle, requests, rows, watch, polls, table, aim, spent>>

-----------------------------------------------------------------------------
Tick == /\ watch.on /\ Len(polls) < 2 /\ Quick /\ (Prompt => cycle # "spawned")
        /\ polls' = Append(polls, [Open EXCEPT !.id = watch.about])
        /\ UNCHANGED <<hosted, cycle, requests, rows, press, watch, view, table, aim, spent>>

(* GET: the status of the request that was asked about, or the cycle's.      *)
Answer(k) ==
    /\ polls[k].kind = "open"
    /\ polls' = [polls EXCEPT ![k].kind =
          IF hosted THEN requests[polls[k].id] ELSE IF Locked THEN Phase ELSE "done"]
    /\ UNCHANGED <<hosted, cycle, requests, rows, press, watch, view, table, aim, spent>>
PollFails(k) == /\ polls[k].kind = "open" /\ Fault /\ polls' = Without(polls, k)
                /\ UNCHANGED <<hosted, cycle, requests, rows, press, watch, view, table, aim>>

(* The local watch: the phase is shown, the table is re-rendered once enrich *)
(* has run, and the watch is over when the cycle is.                         *)
Renders(next) == next \in {"syncing", "done"} /\ ~view.rendered
Shown(next) == [view EXCEPT !.phase = next, !.rendered = @ \/ next \in {"syncing", "done"},
                            !.release = @ \/ next = "done"]
ShowLocal(k) ==
    /\ ~hosted /\ polls[k].kind # "open"
    /\ polls' = Without(polls, k)
    /\ view' = Shown(polls[k].kind)
    /\ table' = IF Renders(polls[k].kind) THEN rows ELSE table
    /\ watch' = IF polls[k].kind = "done" THEN NoWatch ELSE watch
    /\ UNCHANGED <<hosted, cycle, requests, rows, press, aim, spent>>

(* The hosted watch: over when the request is, or when it got too old.       *)
Over(status) == status \in {"succeeded", "failed"}
ShowHosted(k) ==
    /\ hosted /\ polls[k].kind # "open"
    /\ polls' = Without(polls, k)
    /\ LET over == Over(polls[k].kind) \/ watch.old IN
       /\ view' = IF over THEN [view EXCEPT !.waiting = FALSE] ELSE view
       /\ watch' = IF over THEN NoWatch ELSE watch
    /\ table' = IF polls[k].kind = "succeeded" THEN rows ELSE table
    /\ UNCHANGED <<hosted, cycle, requests, rows, press, aim, spent>>

GrowsOld == /\ hosted /\ watch.on /\ ~watch.old /\ Fault
            /\ watch' = [watch EXCEPT !.old = TRUE] /\ aim' = 0
            /\ UNCHANGED <<hosted, cycle, requests, rows, press, polls, view, table>>

(* Four seconds after a watch was over the button says nothing again.        *)
Release == /\ view.release
           /\ view' = [view EXCEPT !.phase = "idle", !.release = FALSE]
           /\ UNCHANGED <<hosted, cycle, requests, rows, press, watch, polls, table, aim, spent>>

Next == \/ Scheduled \/ Advance \/ Leaves \/ Dies \/ Claim \/ Complete
        \/ Press \/ (\E k \in DOMAIN press : Posted(k) \/ PostFails(k) \/ Accepted(k) \/ Refused(k))
        \/ Tick \/ (\E k \in DOMAIN polls : Answer(k) \/ PollFails(k) \/ ShowLocal(k) \/ ShowHosted(k))
        \/ GrowsOld \/ Release

Spec == Init /\ [][Next]_vars

-----------------------------------------------------------------------------
(* The counters stay within their bounds and the watch is about a request    *)
(* that was recorded.                                                        *)
TypeOK ==
    /\ cycle \in {Stages[k] : k \in 1..7}
    /\ watch.about <= Len(requests) /\ table <= rows /\ rows <= MaxRuns
    /\ Len(press) <= 2 /\ Len(polls) <= 2

(* A button that shows work under way has something that will answer: it is  *)
(* never left disabled with nobody asking.                                   *)
NeverStuck == Busy => watch.on \/ view.release \/ press # <<>>

(* Once a watch is over, the table shows the rows of the cycle that the      *)
(* press was answered for, unless that cycle failed or took too long.        *)
TableCatchesUp == ~watch.on /\ press = <<>> => table >= aim

ButtonIsTrue == NeverStuck /\ TableCatchesUp
=============================================================================
