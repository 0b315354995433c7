----------------------------- MODULE AppliedChecks -----------------------------
(***************************************************************************)
(* The "applied" checks of the board (board-storage.ts,                    *)
(* applied-checkbox.tsx) and their report to the applicant's auto-apply    *)
(* (applied-sync.tsx) through the import of marks (imports.ts): one        *)
(* browser shared by two applicants, its pages, and the marks of the       *)
(* server.  Marks are permanent; a check may be undone.                    *)
(***************************************************************************)
EXTENDS Naturals, FiniteSets, Sequences

CONSTANTS
    Pages,      \* pages of the board open beside one another, or in turn
    Posts,
    Reloads,    \* the board may be opened while a check is younger than the grace
    MaxChecks, MaxMoves, MaxFaults

None == "none"
Applicants == {"dy", "may"}

VARIABLES
    session,    \* who is signed in
    scoped,     \* checks kept under their applicant
    legacy,     \* checks kept under no applicant
    synced,     \* the browser's list of what was reported, <<owner, posting>>
    page,       \* per page: its owner, its timer, its report under way
    net,        \* confirmations sent and not yet served
    marks,      \* the marks on the server
    young,      \* checks made less than the grace ago, oldest first
    meant,      \* history: the checks an applicant ever made
    hasty,      \* history: marks reported within their grace
    bounds

vars == <<session, scoped, legacy, synced, page, net, marks, young, meant, hasty, bounds>>

NoReport == [step |-> None, owner |-> None, checked |-> {}, old |-> {}, synced |-> {}]
Closed == [open |-> FALSE, ready |-> FALSE, owner |-> None, timer |-> None, report |-> NoReport]

\* Checks from before they were kept per applicant may be there, reported or not.
Init ==
    /\ session \in Applicants
    /\ scoped = {} /\ legacy \in SUBSET Posts
    /\ synced \in SUBSET ({session} \X legacy)
    /\ page = [p \in Pages |-> Closed]
    /\ net = {} /\ marks = synced /\ young = <<>> /\ meant = synced /\ hasty = {}
    /\ bounds = [checks |-> 0, moves |-> 0, faults |-> 0]

browser == <<scoped, legacy, synced>>
Young == {young[i] : i \in DOMAIN young}

-----------------------------------------------------------------------------
\* A page of the board is opened: it reports soon after.
Open(p) ==
    /\ ~page[p].open /\ (Reloads \/ young = <<>>)
    /\ Reloads \/ \A o \in Pages : ~page[o].open
    /\ page' = [page EXCEPT ![p] = [Closed EXCEPT !.open = TRUE, !.timer = "load"]]
    /\ UNCHANGED <<session, browser, net, marks, young, meant, hasty, bounds>>
\* activeOwner, asked once per page; a failed answer leaves the boxes disabled.
Ready(p) ==
    /\ page[p].open /\ ~page[p].ready
    /\ page' = [page EXCEPT ![p].ready = TRUE, ![p].owner = session]
    /\ UNCHANGED <<session, browser, net, marks, young, meant, hasty, bounds>>
Close(p) ==
    /\ page[p].open /\ bounds.faults < MaxFaults /\ (Reloads \/ young = <<>>)
    /\ page' = [page EXCEPT ![p] = Closed]
    /\ bounds' = [bounds EXCEPT !.faults = @ + 1]
    /\ UNCHANGED <<session, browser, net, marks, young, meant, hasty>>

\* Mutant of Scheduled: what was scheduled, or is under way, goes on.
ScheduledBeside(p) == page' = [page EXCEPT ![p].timer = IF @ = None THEN "change" ELSE @]
\* schedule after a change: the timer starts over, a report under way is aborted.
Scheduled(p) == page' = [page EXCEPT ![p].timer = "change", ![p].report = NoReport]

Checks(o, x) == IF o = None THEN x \in legacy ELSE <<o, x>> \in scoped
Check(p, x) ==
    LET o == page[p].owner
    IN /\ page[p].ready /\ ~Checks(o, x) /\ bounds.checks < MaxChecks
       /\ scoped' = IF o = None THEN scoped ELSE scoped \cup {<<o, x>>}
       /\ legacy' = IF o = None THEN legacy \cup {x} ELSE legacy
       /\ young' = Append(young, <<o, x>>)
       /\ meant' = meant \cup {<<o, x>>}
       /\ bounds' = [bounds EXCEPT !.checks = @ + 1]
       /\ Scheduled(p) /\ UNCHANGED <<session, synced, net, marks, hasty>>
Uncheck(p, x) ==
    LET o == page[p].owner
    IN /\ page[p].ready /\ Checks(o, x)
       /\ scoped' = scoped \ {<<o, x>>}
       /\ legacy' = IF o = None THEN legacy \ {x} ELSE legacy
       /\ young' = SelectSeq(young, LAMBDA c : c # <<o, x>>)
       /\ Scheduled(p) /\ UNCHANGED <<session, synced, net, marks, meant, hasty, bounds>>
\* Five seconds have passed since the oldest check.
Ripen ==
    /\ young # <<>> /\ young' = Tail(young)
    /\ UNCHANGED <<session, browser, page, net, marks, meant, hasty, bounds>>

\* syncApplied begins: it reads the checks and asks who is signed in.
Fire(p) ==
    /\ page[p].timer # None /\ (page[p].timer = "change" => young = <<>>)
    /\ page' = [page EXCEPT ![p].timer = None,
                    ![p].report = IF scoped = {} /\ legacy = {} THEN NoReport
                                  ELSE [NoReport EXCEPT !.step = "account",
                                                        !.checked = scoped, !.old = legacy]]
    /\ UNCHANGED <<session, browser, net, marks, young, meant, hasty, bounds>>

\* Mutant of Mine: an old check counts as the applicant's own.
MineAndOld(r, o) == {c \in r.checked : c[1] = o} \cup ({o} \X r.old)
\* The checks to report: the applicant's own, as they were when it began.
Mine(r, o) == {c \in r.checked : c[1] = o}
\* Then what was reported before is read, and an old check is moved to the
\* applicant it was reported to.
Account(p) ==
    LET r == page[p].report
        moved == {x \in r.old : <<session, x>> \in synced}
        pending == Mine(r, session) \ synced
    IN /\ r.step = "account"
       /\ scoped' = IF session = None THEN scoped ELSE scoped \cup ({session} \X moved)
       /\ legacy' = IF session = None THEN legacy ELSE legacy \ moved
       /\ page' = [page EXCEPT ![p].report =
                     IF session = None \/ pending = {} THEN NoReport
                     ELSE [r EXCEPT !.step = "confirm", !.owner = session, !.synced = synced,
                                    !.checked = pending]]
       /\ UNCHANGED <<session, synced, net, marks, young, meant, hasty, bounds>>

\* Preview and confirmation name the applicant they are for; the session of
\* another refuses them.
Confirm(p) ==
    LET r == page[p].report
    IN /\ r.step = "confirm"
       /\ IF session # r.owner THEN page' = [page EXCEPT ![p].report = NoReport] /\ UNCHANGED <<net, hasty>>
          ELSE /\ net' = net \cup {[page |-> p, checks |-> r.checked]}
               /\ page' = [page EXCEPT ![p].report.step = "wait"]
               /\ hasty' = hasty \cup ((r.checked \ marks) \cap Young)
       /\ UNCHANGED <<session, browser, marks, young, meant, bounds>>
\* confirmLegacyImport: a mark twice is harmless.
Serve(c) ==
    LET r == page[c.page].report
    IN /\ c \in net /\ net' = net \ {c} /\ marks' = marks \cup c.checks
       /\ page' = IF r.step = "wait" /\ r.checked = c.checks
                  THEN [page EXCEPT ![c.page].report.step = "told"] ELSE page
       /\ UNCHANGED <<session, browser, young, meant, hasty, bounds>>
\* The answer: the list is written as it was read, with what was reported.
Told(p) ==
    LET r == page[p].report
    IN /\ r.step = "told"
       /\ synced' = r.synced \cup r.checked
       /\ page' = [page EXCEPT ![p].report = NoReport]
       /\ UNCHANGED <<session, scoped, legacy, net, marks, young, meant, hasty, bounds>>
\* A request of the report fails; nothing is said, the next change or load reports.
Fails(p) ==
    /\ page[p].report # NoReport /\ bounds.faults < MaxFaults
    /\ page' = [page EXCEPT ![p].report = NoReport]
    /\ bounds' = [bounds EXCEPT !.faults = @ + 1]
    /\ UNCHANGED <<session, browser, net, marks, young, meant, hasty>>
\* A request that never arrives.
Lost(c) ==
    /\ c \in net /\ bounds.faults < MaxFaults /\ net' = net \ {c}
    /\ bounds' = [bounds EXCEPT !.faults = @ + 1]
    /\ UNCHANGED <<session, browser, page, marks, young, meant, hasty>>

\* select of the applicant menu, or unlock and lock: another is signed in.
Switch ==
    /\ bounds.moves < MaxMoves /\ bounds' = [bounds EXCEPT !.moves = @ + 1]
    /\ session' \in (Applicants \cup {None}) \ {session}
    /\ UNCHANGED <<browser, page, net, marks, young, meant, hasty>>

PageStep(p) ==
    \/ Open(p) \/ Ready(p) \/ Close(p) \/ Fire(p) \/ Account(p) \/ Confirm(p) \/ Told(p) \/ Fails(p)
    \/ \E x \in Posts : Check(p, x) \/ Uncheck(p, x)
Next ==
    \/ \E p \in Pages : PageStep(p)
    \/ \E c \in net : Serve(c) \/ Lost(c)
    \/ Ripen \/ Switch
Spec == Init /\ [][Next]_vars

-----------------------------------------------------------------------------
Pairs == Applicants \X Posts
ReportType ==
    [step : {None, "account", "confirm", "wait", "told"}, owner : Applicants \cup {None},
     checked : SUBSET Pairs, old : SUBSET Posts, synced : SUBSET Pairs]
PageType ==
    [open : BOOLEAN, ready : BOOLEAN, owner : Applicants \cup {None},
     timer : {None, "load", "change"}, report : ReportType]
TypeOK ==
    /\ session \in Applicants \cup {None} /\ legacy \subseteq Posts
    /\ scoped \subseteq Pairs /\ synced \subseteq Pairs /\ marks \subseteq Pairs
    /\ net \subseteq [page : Pages, checks : SUBSET Pairs]
    /\ page \in [Pages -> PageType]
    /\ bounds \in [checks : Nat, moves : Nat, faults : Nat]

\* A role is marked applied only for an applicant who checked it: a mark
\* keeps that applicant from ever applying to it.
MarkIsMeant == marks \subseteq meant
\* What the browser takes as reported, and so never reports again, is marked:
\* also when two pages write the list over one another.
SyncedIsMarked == synced \subseteq marks
\* A check on screen is one the applicant made.
CheckIsOwn == scoped \subseteq meant
ChecksAreKept == MarkIsMeant /\ SyncedIsMarked /\ CheckIsOwn

\* A check is reported only when it can no longer be taken for a misclick
\* (applied-sync.tsx: "5 seconds after a checkbox change so a misclick can be
\* undone first").
MisclickCanBeUndone == hasty = {}
ChecksAreSound == ChecksAreKept /\ (~Reloads => MisclickCanBeUndone)

-----------------------------------------------------------------------------
(* What ChecksAreSound rests on, step by step. *)

\* A report holds what the applicant checked, and what was marked before.
ReportIsMeant(r) ==
    /\ r.step = None => r = NoReport
    /\ r.checked \subseteq meant /\ r.synced \subseteq marks
    /\ r.step = "told" => r.checked \subseteq marks
ReportsAreMeant ==
    /\ \A p \in Pages : ReportIsMeant(page[p].report)
    /\ \A c \in net : c.checks \subseteq meant
\* One page of the board at a time: it reports once its checks have ripened.
OnePageWaits ==
    /\ \A p \in Pages : ~page[p].open => page[p] = Closed
    /\ \A p, q \in Pages : page[p].open /\ page[q].open => p = q
    /\ \A p \in Pages : page[p].timer = "load" \/ page[p].report.step # None => young = <<>>
ChecksInv == TypeOK /\ ChecksAreSound /\ ReportsAreMeant /\ (~Reloads => OnePageWaits)
=============================================================================
