------------------------------ MODULE ClaimCaps ------------------------------
(***************************************************************************)
(* The caps a poll keeps when it claims an application not yet started     *)
(* (discovery.ts, leases.ts): so many a day, so many a day of one employer, *)
(* and the limit an employer sets on what it takes in a longer span.  They *)
(* are counted over the applications' rows, whose states change between    *)
(* one claim and the next.                                                 *)
(*                                                                         *)
(* Every attempt at a role is a row of its own.  Two rows are of one       *)
(* employer when they carry one label of it or were found on one board.    *)
(* The time zone and the policy stay as they are, and a day is so many     *)
(* ticks.                                                                  *)
(***************************************************************************)
EXTENDS Integers, FiniteSets

CONSTANTS
    Rows, Label, Board,     \* the rows; the label and the board of each
    Limited,                \* the boards whose employer sets a limit
    DailyCap, EmployerCap,  \* the policy's
    Limit, Span,            \* the employer's: so many in so many ticks
    Day, MaxClock, MaxMarks \* ticks of a day; bounds

VARIABLES
    clock,
    row,        \* of each row: its state, when it was started, if it was sent
    marks       \* what the applicant reported as applied by hand, on limited boards

vars == <<clock, row, marks>>

Never == 0 - 1
Ended == {"skipped", "cancelled", "failed"}
Live == {"going", "submitting", "submitted"}

Init ==
    /\ clock = 0
    /\ row = [r \in Rows |-> [state |-> "queued", at |-> Never, sent |-> FALSE]]
    /\ marks = {}

-----------------------------------------------------------------------------
DayOf(t) == t \div Day
StartedOn(d) == {r \in Rows : row[r].at # Never /\ DayOf(row[r].at) = d}

\* The day's starts.  A skip by screening is of no employer's concern; one by
\* the applicant is.
Counted == {r \in StartedOn(DayOf(clock)) : row[r].state # "ineligible"}

\* An attempt that ended before it was sent never reached the employer.
Reached == {r \in Counted : row[r].state \in Ended => row[r].sent}

\* Mutant of SameEmployer: the board does not tell.
SameLabel(r, s) == Label[r] = Label[s]

SameEmployer(r, s) == Label[r] = Label[s] \/ Board[r] = Board[s]

\* What an employer with a limit has had, or may still get, of the applicant.
Taken(b) == {r \in Rows : /\ Board[r] = b /\ row[r].at # Never /\ row[r].at >= clock - Span
                          /\ row[r].state \notin Ended \cup {"ineligible"}}
Marked(b) == {m \in marks : m.board = b /\ m.at >= clock - Span}
LimitReached(b) == b \in Limited /\ Cardinality(Taken(b)) + Cardinality(Marked(b)) >= Limit

Held(r) ==
    \/ Cardinality(Counted) >= DailyCap
    \/ Cardinality({s \in Reached : SameEmployer(r, s)}) >= EmployerCap
    \/ LimitReached(Board[r])

-----------------------------------------------------------------------------
Becomes(r, from, state) ==
    /\ row[r].state \in from
    /\ row' = [row EXCEPT ![r].state = state]
    /\ UNCHANGED <<clock, marks>>

\* A poll starts a row.  One that was started before is claimed again whatever
\* the caps say, and stays started when it was.
Claim(r) ==
    /\ row[r].state = "queued" /\ ~Held(r)
    /\ row' = [row EXCEPT ![r] = [@ EXCEPT !.state = "going", !.at = clock]]
    /\ UNCHANGED <<clock, marks>>

\* Screening, or the form's own conditions, rule the applicant out.
Screen(r) == Becomes(r, {"going"}, "ineligible")

\* The applicant skips it, or stops, deletes or restarts it.
Skip(r) == Becomes(r, {"queued", "going"}, "skipped")
Cancel(r) == Becomes(r, {"queued", "going"}, "cancelled")
Fail(r) == Becomes(r, {"going"}, "failed")

\* The intent is recorded before the form is sent; nothing ends a row from
\* then on but a receipt or the applicant's word.
Press(r) ==
    /\ row[r].state = "going"
    /\ row' = [row EXCEPT ![r].state = "submitting", ![r].sent = TRUE]
    /\ UNCHANGED <<clock, marks>>
Arrive(r) == Becomes(r, {"submitting"}, "submitted")
Deny(r) == Becomes(r, {"submitting"}, "failed")

\* The applicant reports a role applied for by hand.
Mark(b) ==
    /\ Cardinality(marks) < MaxMarks
    /\ marks' = marks \cup {[board |-> b, at |-> clock, n |-> Cardinality(marks) + 1]}
    /\ UNCHANGED <<clock, row>>

Tick == clock < MaxClock /\ clock' = clock + 1 /\ UNCHANGED <<row, marks>>

Next ==
    \/ \E r \in Rows : \/ Claim(r) \/ Screen(r) \/ Skip(r) \/ Cancel(r) \/ Fail(r)
                       \/ Press(r) \/ Arrive(r) \/ Deny(r)
    \/ \E b \in Limited : Mark(b)
    \/ Tick

Spec == Init /\ [][Next]_vars

-----------------------------------------------------------------------------
RowType == [state : {"queued", "ineligible"} \cup Ended \cup Live,
            at : Nat \cup {Never}, sent : BOOLEAN]

\* Every variable keeps its type, and only what was started goes on.
TypeOK ==
    /\ clock \in Nat
    /\ row \in [Rows -> RowType]
    /\ \A r \in Rows : /\ row[r].at <= clock
                       /\ row[r].state \in Live \cup {"ineligible"} => row[r].at # Never

Days == {DayOf(t) : t \in 0..clock}
Starts(d) == {r \in StartedOn(d) : row[r].state # "ineligible"}
Open(d) == {r \in StartedOn(d) : row[r].state \in Live \/ row[r].sent}
Labelled(d, l) == {r \in Open(d) : Label[r] = l}
OnBoard(d, b) == {r \in Open(d) : Board[r] = b}
LiveIn(t, b) == {r \in Rows : /\ Board[r] = b /\ row[r].at # Never
                             /\ t - Span <= row[r].at /\ row[r].at <= t
                             /\ row[r].state \in Live}

\* On no day are more applications started than the policy allows, those that
\* screening ruled out aside.
DayIsKept == \A d \in Days : Cardinality(Starts(d)) <= DailyCap

\* Of those started on one day, no more than the policy allows have been sent
\* to one employer or still may be, whether it is told by its label or its board.
EmployerIsKept ==
    \A d \in Days, r \in Rows :
        /\ Cardinality(Labelled(d, Label[r])) <= EmployerCap
        /\ Cardinality(OnBoard(d, Board[r])) <= EmployerCap

\* In no span of the employer's were more applications started for it than it
\* takes, those given up before they were sent aside.
LimitIsKept == \A t \in 0..clock, b \in Limited : Cardinality(LiveIn(t, b)) <= Limit

CapsKept == DayIsKept /\ EmployerIsKept /\ LimitIsKept
=============================================================================
