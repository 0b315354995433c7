------------------------------ MODULE OffsetScan ------------------------------
(***************************************************************************)
(* A board that answers in pages, read by offset while it changes:         *)
(* Workday's (ats.ts) in one scan, Amazon's (amazon.ts) in two, of the     *)
(* whole search and of a category of it.  A job missing from an answer     *)
(* that passes for whole ages toward being hidden (ingest.ts, ghost.ts).   *)
(***************************************************************************)
EXTENDS Naturals, Sequences, FiniteSetsExt, Functions

CONSTANTS
    Jobs, Category,     \* 1..n; those the second search of Amazon's covers
    Page, Cap,          \* jobs in a page; the most pages of a scan
    MaxChanges, MaxScans, MaxFailures   \* bounds

Threshold == 2          \* GHOST_ABSENCE_THRESHOLD
Sites == {"workday", "amazon"}

VARIABLES
    site,
    board,              \* the jobs on the board, newest first
    scan,               \* the search under way
    answer,             \* what the connector has, whether it is degraded; whether the
                        \* first pages told a total and the board has not changed since
    absent,             \* whole answers in a row without each job
    left,               \* history: the jobs that were ever off the board
    bounds

vars == <<site, board, scan, answer, absent, left, bounds>>

NoScan == [part |-> 0, page |-> 0, total |-> 0, got |-> 0]
NoAnswer == [jobs |-> {}, degraded |-> FALSE, steady |-> TRUE, told |-> TRUE]

Init ==
    /\ site \in Sites
    /\ \E n \in Jobs : board = [i \in 1..n |-> n + 1 - i] /\ left = {j \in Jobs : j > n}
    /\ scan = NoScan
    /\ answer = NoAnswer
    /\ absent = [j \in Jobs |-> 0]
    /\ bounds = [changes |-> 0, scans |-> 0, failures |-> 0]

Parts == IF site = "amazon" THEN 2 ELSE 1
OnBoard == Range(board)
Searched(part) == IF part = 1 THEN board ELSE SelectSeq(board, LAMBDA j : j \in Category)
PageOf(part, page) ==
    LET all == Searched(part)
    IN SubSeq(all, page * Page + 1, Min({(page + 1) * Page, Len(all)}))

-----------------------------------------------------------------------------
\* A job closes, or opens anew, and the later ones move up or down a place.
Change(j) ==
    /\ bounds.changes < MaxChanges
    /\ \/ \E i \in 1..Len(board) : board[i] = j /\ board' = SubSeq(board, 1, i - 1) \o SubSeq(board, i + 1, Len(board))
       \/ j \notin OnBoard /\ board' = <<j>> \o board
    /\ left' = left \cup {j}
    /\ answer' = [answer EXCEPT !.steady = FALSE]
    /\ bounds' = [bounds EXCEPT !.changes = @ + 1]
    /\ UNCHANGED <<site, scan, absent>>

Start ==
    /\ scan.part = 0 /\ bounds.scans < MaxScans
    /\ scan' = [NoScan EXCEPT !.part = 1]
    /\ answer' = NoAnswer
    /\ bounds' = [bounds EXCEPT !.scans = @ + 1]
    /\ UNCHANGED <<site, board, absent, left>>

\* The scan has what there was when it began, or a page that is not full. A total of
\* 0 is one nobody told.
IsLast(rows, got, total) == Len(rows) < Page \/ (total > 0 /\ got >= total)

\* The scan ended at its cap with more to read.
Truncated(pages, got, total) ==
    \/ pages >= Cap /\ total > got
    \/ site = "amazon" /\ total >= Cap * Page

Ends(after) ==      \* a search ended: the next one, or the answer
    scan' = IF scan.part < Parts THEN [NoScan EXCEPT !.part = scan.part + 1]
            ELSE [NoScan EXCEPT !.part = after]

\* The first total told counts; only Amazon's later pages tell one again.
Total(tells) ==
    IF scan.total = 0 /\ tells /\ (scan.page = 0 \/ site = "amazon")
    THEN Len(Searched(scan.part)) ELSE scan.total
\* A later page of Workday's tells 0, and so ends a scan that was told nothing.
EndsOnZero(total) == site = "workday" /\ scan.page > 0 /\ total = 0

ReadPage(tells) ==
    /\ scan.part \in 1..Parts
    /\ LET rows == PageOf(scan.part, scan.page)
           got == scan.got + Len(rows)
           total == Total(tells)
           over == IsLast(rows, got, total) \/ EndsOnZero(total) \/ scan.page + 1 >= Cap
       IN /\ answer' = [answer EXCEPT !.jobs = @ \cup Range(rows),
                            !.degraded = @ \/ (over /\ Truncated(scan.page + 1, got, total)),
                            !.told = @ /\ (scan.page = 0 => tells)]
          /\ IF over THEN Ends(3)
             ELSE scan' = [scan EXCEPT !.page = @ + 1, !.got = got, !.total = total]
    /\ UNCHANGED <<site, board, absent, left, bounds>>

\* Mutant of PageFails: what was read before passes for the whole.
PageFailsQuietly ==
    /\ scan.part \in 1..Parts /\ bounds.failures < MaxFailures
    /\ IF scan.part = 1 /\ scan.page = 0 THEN scan' = NoScan ELSE Ends(3)
    /\ bounds' = [bounds EXCEPT !.failures = @ + 1]
    /\ UNCHANGED <<site, board, answer, absent, left>>

\* The first page of all failing fails the connector; a later one degrades it.
PageFails ==
    /\ scan.part \in 1..Parts /\ bounds.failures < MaxFailures
    /\ IF scan.part = 1 /\ scan.page = 0
       THEN scan' = NoScan /\ UNCHANGED answer
       ELSE /\ answer' = [answer EXCEPT !.degraded = TRUE]
            /\ Ends(3)
    /\ bounds' = [bounds EXCEPT !.failures = @ + 1]
    /\ UNCHANGED <<site, board, absent, left>>

PassesForWhole == ~answer.degraded /\ answer.jobs # {}

\* The run keeps what the connector answered and, if that passes for whole,
\* counts who was not in it.
Keep ==
    /\ scan.part = 3
    /\ absent' = IF ~PassesForWhole THEN absent
                 ELSE [j \in Jobs |-> IF j \in answer.jobs THEN 0
                                      ELSE IF absent[j] < Threshold THEN absent[j] + 1
                                      ELSE Threshold]
    /\ scan' = NoScan /\ answer' = NoAnswer
    /\ UNCHANGED <<site, board, left, bounds>>

Next ==
    \/ \E j \in Jobs : Change(j)
    \/ \E tells \in BOOLEAN : ReadPage(tells)
    \/ Start \/ PageFails \/ Keep

Spec == Init /\ [][Next]_vars

-----------------------------------------------------------------------------
\* Every variable keeps its type, and a scan stays within its cap.
TypeOK ==
    /\ OnBoard \subseteq Jobs /\ answer.jobs \subseteq Jobs
    /\ scan.part \in 0..3 /\ scan.page \in 0..Cap
    /\ \A j \in Jobs : absent[j] \in 0..Threshold

\* An answer that passes for whole has every job of a board that did not
\* change while it was read, whatever failed and wherever the cap fell. It fails: a
\* board that tells no total is read to the cap, or to Workday's second page.
WholeAnyway ==
    scan.part = 3 /\ PassesForWhole /\ answer.steady => OnBoard \subseteq answer.jobs
\* It holds of a board whose first pages tell their total.
WholeIfSteady ==
    scan.part = 3 /\ PassesForWhole /\ answer.steady /\ answer.told => OnBoard \subseteq answer.jobs

\* A job that never left its board is not hidden for being absent.
LiveStaysListed == \A j \in Jobs \ left : absent[j] < Threshold
-----------------------------------------------------------------------------
(* What WholeIfSteady rests on, and what it asks of the constants. *)
OffsetAssumption ==
    /\ \E n \in Nat : Jobs = 1..n
    /\ Page \in Nat \ {0} /\ Cap \in Nat \ {0}

Shaped ==
    /\ site \in Sites /\ board \in Seq(Jobs) /\ scan.part \in 0..3
    /\ scan = [part |-> scan.part, page |-> scan.page, total |-> scan.total, got |-> scan.got]
    /\ answer = [jobs |-> answer.jobs, degraded |-> answer.degraded, steady |-> answer.steady,
                 told |-> answer.told]
    /\ answer.degraded \in BOOLEAN /\ answer.steady \in BOOLEAN /\ answer.told \in BOOLEAN

\* Of a board that did not change the scan has all up to where it is, and the second
\* search adds to the whole of the first.
ReadSoFar ==
    answer.steady /\ answer.told /\ ~answer.degraded =>
        /\ scan.part = 1 =>
              /\ scan.page \in Nat /\ scan.got = scan.page * Page
              /\ scan.total = IF scan.page > 0 THEN Len(board) ELSE 0
              /\ \A i \in 1..Len(board) : i <= scan.got => board[i] \in answer.jobs
        /\ scan.part \in {2, 3} => OnBoard \subseteq answer.jobs

OffsetInv == Shaped /\ ReadSoFar
=============================================================================
