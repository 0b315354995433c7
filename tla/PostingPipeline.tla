--------------------------- MODULE PostingPipeline ---------------------------
(***************************************************************************)
(* The corpus of public postings: what the connectors of one ingest run    *)
(* report is grouped into postings (dedupe.ts), stored over what earlier   *)
(* runs stored (ingest.ts), aged by the ghost pass (ghost.ts), checked by  *)
(* the link check (linkcheck.ts) and merged by hand                        *)
(* (merge-duplicates.ts).                                                  *)
(*                                                                         *)
(* A job is one requisition of one employer and place; its label is its    *)
(* normalized title, which two jobs may share.  "ats" is the employer's    *)
(* board, which gives each job its publisher id; "agg" an aggregator that  *)
(* gives none.  A listing is one of them listing a job: it has one URL,    *)
(* and so at most one source row.                                          *)
(***************************************************************************)
EXTENDS Naturals, FiniteSets, SequencesExt

CONSTANTS
    Jobs,           \* 1..n, in the order of their dates
    Labels,
    First,          \* the label every job has at first
    MaxPostings, MaxChanges, MaxRuns, MaxMerges \* bounds

None == "none"
Sites == {"ats", "agg"}
Listings == Sites \X Jobs
Ids == 1..MaxPostings
Threshold == 2      \* GHOST_ABSENCE_THRESHOLD

VARIABLES
    label,          \* the title of each job now
    listed,         \* the jobs each site lists now
    posting,        \* the rows of postings
    row,            \* the source row of each listing: its posting, its absences
    run,            \* the latest run: how far, what it saw, who answered whole
    check,          \* the verdicts of a link check under way
    condemned,      \* history: the page each posting was hidden for
    missed,         \* history: whole answers in a row without each listing
    bounds

vars == <<label, listed, posting, row, run, check, condemned, missed, bounds>>

NoKey == [label |-> None, req |-> 0]
NoPosting == [key |-> NoKey, label |-> None, url |-> <<None, 0>>, off |-> None]
NoRow == [at |-> 0, absent |-> 0]
NoRun == [step |-> "over", seen |-> {}, whole |-> {}]

Init ==
    /\ label = [j \in Jobs |-> First]
    /\ listed = [s \in Sites |-> {}]
    /\ posting = [id \in Ids |-> NoPosting]
    /\ row = [l \in Listings |-> NoRow]
    /\ run = NoRun
    /\ check = <<>>
    /\ condemned = [id \in Ids |-> <<None, 0>>]
    /\ missed = [l \in Listings |-> 0]
    /\ bounds = [changes |-> 0, runs |-> 0, merges |-> 0, last |-> 0]

Stored == {id \in Ids : posting[id] # NoPosting}
RowsAt(rows, id) == {l \in Listings : rows[l].at = id}
Least(S) == CHOOSE x \in S : \A y \in S : x <= y
Best(ls) ==     \* the employer's board before the aggregator, then by date
    LET best == IF \E l \in ls : l[1] = "ats" THEN "ats" ELSE "agg"
    IN <<best, Least({l[2] : l \in {m \in ls : m[1] = best}})>>

-----------------------------------------------------------------------------
\* The world outside: jobs open, close and change their titles.
List(s, j) ==
    /\ bounds.changes < MaxChanges
    /\ listed' = [listed EXCEPT ![s] = IF j \in @ THEN @ \ {j} ELSE @ \cup {j}]
    /\ bounds' = [bounds EXCEPT !.changes = @ + 1]
    /\ UNCHANGED <<label, posting, row, run, check, condemned, missed>>

Retitle(j) ==
    /\ bounds.changes < MaxChanges
    /\ \E x \in Labels \ {label[j]} : label' = [label EXCEPT ![j] = x]
    /\ bounds' = [bounds EXCEPT !.changes = @ + 1]
    /\ UNCHANGED <<listed, posting, row, run, check, condemned, missed>>

-----------------------------------------------------------------------------
\* Grouping.  The publisher id of a listing: the employer's board gives one, the
\* aggregator's is its own URL and says nothing of the job.
Requisition(l) == IF l[1] = "ats" THEN l[2] ELSE 0

\* The key of a posting: its company, title and place, and the requisition if known.
KeyOf(x, req) == [label |-> x, req |-> req]

\* Two listings are alike: their titles share nearly all words, in one place or with
\* one side remote.
Alike(l, m) == label[l[2]] = label[m[2]]

\* Two ids of one publisher are two jobs, however alike.
Conflict(l, m) == /\ Requisition(l) # Requisition(m)
                  /\ 0 \notin {Requisition(l), Requisition(m)}

Group(req, from) ==
    LET best == Best(from)
    IN [key |-> KeyOf(label[best[2]], req), label |-> label[best[2]],
        req |-> req, from |-> from, url |-> best]

\* A requisition is a group; what the aggregator lists joins the first requisition
\* it is alike, or stands alone with what is alike.
Groups(batch) ==
    LET board == {l \in batch : Requisition(l) # 0}
        Same(l) == {m \in batch \ board : Alike(l, m)}
        Leads(l) == \A m \in board : Alike(l, m) => l[2] <= m[2]
        alone == {l \in batch \ board : \A m \in board : ~Alike(l, m)}
        reqs == {Requisition(l) : l \in board}
        heads == {Least({m[2] : m \in Same(l)}) : l \in alone}
        Ordered(S) == SetToSortSeq(S, <)
    IN [i \in DOMAIN Ordered(reqs) |->
            LET l == <<"ats", Ordered(reqs)[i]>>
            IN Group(Requisition(l), {l} \cup (IF Leads(l) THEN Same(l) ELSE {}))]
       \o [i \in DOMAIN Ordered(heads) |-> Group(0, Same(<<"agg", Ordered(heads)[i]>>))]

-----------------------------------------------------------------------------
\* The source row that says whose posting it was: of the page it shows, or
\* of the best site.
Primary(id) ==
    IF posting[id].url \in RowsAt(row, id) THEN posting[id].url ELSE Best(RowsAt(row, id))

\* Mutant of Compatible: two groups of one run may take one posting.
CompatibleTwice(w, g, id) ==
    RowsAt(row, id) # {} /\ Primary(id)[1] = "ats" => g.req \in {0, Primary(id)[2]}

\* Mutant of Compatible: a group may take the posting of another requisition.
CompatibleAnyhow(w, g, id) == w.claimed[id] \in {NoKey, g.key}

\* May the group be stored as this posting?  Not if another group of the
\* run was, nor if the posting is another requisition.
Compatible(w, g, id) ==
    /\ w.claimed[id] \in {NoKey, g.key}
    /\ RowsAt(row, id) # {} /\ Primary(id)[1] = "ats" => g.req \in {0, Primary(id)[2]}

\* The posting that has the group's source rows, else its key, else, if it
\* is the only one, its label.
Chosen(w, g) ==
    LET refs == {row[l].at : l \in {m \in g.from : row[m].at # 0}}
        mine == {id \in refs : Compatible(w, g, id)}
        exact == {id \in Ids : w.posting[id].key = g.key /\ Compatible(w, g, id)}
        alike == {id \in Stored : posting[id].label = g.label /\ Compatible(w, g, id)}
    IN CASE mine # {} -> Least(mine)
         [] mine = {} /\ exact # {} -> Least(exact)
         [] mine = {} /\ exact = {} /\ Cardinality(alike) = 1 -> Least(alike)
         [] OTHER -> 0

\* Keys are unique: a posting that keeps a key another group needs gives it
\* up, and one adopts a key only when nobody has it.
Retained(w, g) ==
    [id \in Ids |-> IF w.posting[id].key = g.key
                    THEN [w.posting[id] EXCEPT !.key = [label |-> "retained", req |-> id]]
                    ELSE w.posting[id]]

\* Mutant of Renewed: the key is adopted whoever has it.
RenewedTaken(w, g, id) ==
    LET promote == g.req # 0 \/ \A l \in RowsAt(w.row, id) : l[1] # "ats"
    IN [w.posting EXCEPT ![id] =
          IF ~promote THEN @
          ELSE [@ EXCEPT !.key = g.key, !.label = g.label, !.url = g.url]]

\* A group of no lower rank than the posting's sources renews it.
Renewed(w, g, id) ==
    LET old == w.posting[id]
        rows == RowsAt(w.row, id)
        promote == g.req # 0 \/ \A l \in rows : l[1] # "ats"
        taken == \E other \in Ids \ {id} : w.posting[other].key = g.key
    IN [w.posting EXCEPT ![id] =
          IF ~promote THEN old
          ELSE [old EXCEPT !.key = IF taken THEN @ ELSE g.key, !.label = g.label, !.url = g.url]]

\* One group stored: its source rows come with it, from where they were.
Store(w, g) ==
    LET chosen == Chosen(w, g)
        id == IF chosen = 0 THEN w.last + 1 ELSE chosen
    IN IF id > MaxPostings THEN [w EXCEPT !.full = TRUE]
       ELSE [w EXCEPT
               !.posting = IF chosen = 0
                           THEN [Retained(w, g) EXCEPT ![id] = [key |-> g.key, label |-> g.label,
                                                                url |-> g.url, off |-> None]]
                           ELSE Renewed(w, g, id),
               !.row = [l \in Listings |-> IF l \in g.from THEN [w.row[l] EXCEPT !.at = id]
                                           ELSE w.row[l]],
               !.moved = @ \cup ({row[l].at : l \in g.from} \ {0, id}),
               !.claimed = [@ EXCEPT ![id] = g.key],
               !.last = IF chosen = 0 THEN id ELSE @]

Work == [posting |-> posting, row |-> row, moved |-> {}, last |-> bounds.last,
         claimed |-> [id \in Ids |-> NoKey], full |-> FALSE]

\* Mutant of Emptied: a posting that lost its sources stays on the board.
EmptiedShown(w) == w.posting

\* A posting whose sources all moved away is hidden, as a ghost.
Emptied(w) ==
    [id \in Ids |-> IF id \in w.moved /\ RowsAt(w.row, id) = {}
                    THEN [w.posting[id] EXCEPT !.off = "ghost"] ELSE w.posting[id]]

\* What a connector answers: all its site lists, or part of it and that it is part.
\* One that failed altogether or is not due adds nothing.
Answered(s, jobs, degraded) == [site |-> s, jobs |-> jobs, degraded |-> degraded]

\* Each employer's board is read by itself, and one that fails leaves the others.
BoardAnswers ==
    {Answered("ats", listed["ats"], FALSE)}
        \cup {Answered("ats", jobs, TRUE) : jobs \in SUBSET listed["ats"]}

\* An aggregator's answer is part when it reached the most rows it may ask for.
AggregatorAnswers ==
    {Answered("agg", listed["agg"], FALSE)}
        \cup {Answered("agg", jobs, TRUE) : jobs \in SUBSET listed["agg"]}

Rounds ==
    UNION {{{a}, {b}, {a, b}} : a \in BoardAnswers, b \in AggregatorAnswers}
Whole(a) == ~a.degraded /\ a.jobs # {}

\* One run, up to the commit of its rows.
Ingest(answers) ==
    LET batch == UNION {{a.site} \X a.jobs : a \in answers}
        w == FoldLeft(Store, Work, Groups(batch))
    IN /\ run.step = "over" /\ bounds.runs < MaxRuns
       /\ ~w.full
       /\ posting' = Emptied(w) /\ row' = w.row
       /\ run' = [step |-> "stored", seen |-> batch,
                  whole |-> {a.site : a \in {b \in answers : Whole(b)}}]
       /\ bounds' = [bounds EXCEPT !.runs = @ + 1, !.last = w.last]
       /\ missed' = [l \in Listings |-> IF l[1] \notin run'.whole THEN missed[l]
                                        ELSE IF l \in batch THEN 0
                                        ELSE IF missed[l] < Threshold THEN missed[l] + 1
                                        ELSE missed[l]]
       /\ UNCHANGED <<label, listed, check, condemned>>

-----------------------------------------------------------------------------
\* Mutant of Aged: a connector that answered in part ages what it left out.
AgedByAnyone ==
    [l \in Listings |->
        IF row[l].at = 0 THEN row[l]
        ELSE [row[l] EXCEPT !.absent = IF l \in run.seen THEN 0
                                       ELSE IF @ < Threshold THEN @ + 1 ELSE @]]

\* Only a connector that answered whole ages its own rows, or renews them.
Aged ==
    [l \in Listings |->
        IF row[l].at = 0 \/ l[1] \notin run.whole THEN row[l]
        ELSE [row[l] EXCEPT !.absent = IF l \in run.seen THEN 0
                                       ELSE IF @ < Threshold THEN @ + 1 ELSE @]]

\* Mutant of Judged: whatever was hidden is shown again.
JudgedAny(rows) ==
    [id \in Ids |->
        LET quiet == \A l \in RowsAt(rows, id) : rows[l].absent >= Threshold
        IN IF RowsAt(rows, id) = {} THEN posting[id]
           ELSE IF ~quiet THEN [posting[id] EXCEPT !.off = None]
           ELSE IF posting[id].off = None THEN [posting[id] EXCEPT !.off = "ghost"]
           ELSE posting[id]]

\* Hidden when every source went quiet; shown again, if that was why it was
\* hidden, when one did not.
Judged(rows) ==
    [id \in Ids |->
        LET quiet == \A l \in RowsAt(rows, id) : rows[l].absent >= Threshold
            some == RowsAt(rows, id) # {}
        IN IF some /\ quiet /\ posting[id].off = None
           THEN [posting[id] EXCEPT !.off = "ghost"]
           ELSE IF some /\ ~quiet /\ posting[id].off = "ghost"
           THEN [posting[id] EXCEPT !.off = None]
           ELSE posting[id]]

GhostPass ==
    /\ run.step = "stored"
    /\ IF run.whole = {} THEN UNCHANGED <<posting, row>>
       ELSE row' = Aged /\ posting' = Judged(Aged)
    /\ run' = [run EXCEPT !.step = "over"]
    /\ UNCHANGED <<label, listed, check, condemned, missed, bounds>>

\* A run that dies before the ghost pass; nothing tells the next one.
Dies ==
    /\ run.step = "stored"
    /\ run' = [run EXCEPT !.step = "over", !.whole = {}]
    /\ UNCHANGED <<label, listed, posting, row, check, condemned, missed, bounds>>

-----------------------------------------------------------------------------
\* A link check: verdicts of the pages that could be read, written at its
\* end.  It runs in a cycle, or by hand beside one.
Open(url) == url[2] \in listed[url[1]]
Checkable == {id \in Stored : posting[id].off # "ghost"}

ReadPages ==
    /\ check = <<>> /\ Checkable # {}
    /\ \E ids \in SUBSET Checkable \ {{}} :
         check' = [id \in ids |-> [live |-> Open(posting[id].url), url |-> posting[id].url,
                                   off |-> posting[id].off]]
    /\ UNCHANGED <<label, listed, posting, row, run, condemned, missed, bounds>>

Marks(id) == ~check[id].live /\ check[id].off = None /\ posting[id] # NoPosting
               /\ posting[id].off = None
Clears(id) == check[id].live /\ check[id].off = "linkcheck" /\ posting[id].off = "linkcheck"

WriteVerdicts ==
    /\ check # <<>>
    /\ posting' = [id \in Ids |->
                     IF id \notin DOMAIN check THEN posting[id]
                     ELSE IF Marks(id) THEN [posting[id] EXCEPT !.off = "linkcheck"]
                     ELSE IF Clears(id) THEN [posting[id] EXCEPT !.off = None]
                     ELSE posting[id]]
    /\ condemned' = [id \in Ids |->
                       IF id \notin DOMAIN check THEN condemned[id]
                       ELSE IF Marks(id) THEN posting[id].url
                       ELSE IF Clears(id) THEN NoPosting.url ELSE condemned[id]]
    /\ check' = <<>>
    /\ UNCHANGED <<label, listed, row, run, missed, bounds>>

CheckDies ==
    /\ check # <<>> /\ check' = <<>>
    /\ UNCHANGED <<label, listed, posting, row, run, condemned, missed, bounds>>

-----------------------------------------------------------------------------
\* Mutant of MayMerge: a shared label is proof enough.
MayMergeAnyway(ids) == Cardinality(ids) > 1

\* Postings with one label are one job unless two requisitions are in them.
MayMerge(ids) ==
    /\ Cardinality(ids) > 1
    /\ \A l, m \in {k \in Listings : row[k].at \in ids} : ~Conflict(l, m)

\* One on the board survives, then one with most sources; further ties are
\* broken by what is not modelled.
Survivors(ids) ==
    LET live == {id \in ids : posting[id].off = None}
        first == IF live = {} THEN ids ELSE live
    IN {id \in first : \A other \in first :
            Cardinality(RowsAt(row, other)) <= Cardinality(RowsAt(row, id))}

MergeDuplicates(x) ==
    LET ids == {id \in Stored : posting[id].label = x}
    IN /\ MayMerge(ids) /\ bounds.merges < MaxMerges
       /\ \E kept \in Survivors(ids) :
            /\ row' = [l \in Listings |-> IF row[l].at \in ids THEN [row[l] EXCEPT !.at = kept]
                                          ELSE row[l]]
            /\ posting' = [id \in Ids |-> IF id \in ids \ {kept} THEN NoPosting ELSE posting[id]]
            /\ condemned' = [id \in Ids |-> IF id \in ids \ {kept} THEN NoPosting.url ELSE condemned[id]]
       /\ bounds' = [bounds EXCEPT !.merges = @ + 1]
       /\ UNCHANGED <<label, listed, run, check, missed>>

-----------------------------------------------------------------------------
Next ==
    \/ \E s \in Sites, j \in Jobs : List(s, j)
    \/ \E j \in Jobs : Retitle(j)
    \/ \E answers \in Rounds : Ingest(answers)
    \/ GhostPass \/ Dies
    \/ ReadPages \/ WriteVerdicts \/ CheckDies
    \/ \E x \in Labels : MergeDuplicates(x)

Spec == Init /\ [][Next]_vars

-----------------------------------------------------------------------------
\* Every variable keeps its type, and no two postings have one key.
TypeOK ==
    /\ \A id \in Ids : posting[id].off \in {None, "ghost", "linkcheck"}
    /\ \A l \in Listings : row[l].at \in Stored \cup {0} /\ row[l].absent <= Threshold
    /\ \A i, j \in Stored : posting[i].key = posting[j].key => i = j

\* Two requisitions an employer's board lists in one answer are two
\* postings, whatever was stored, merged or taken apart before.
RequisitionsApart ==
    \A j, k \in Jobs :
        {<<"ats", j>>, <<"ats", k>>} \subseteq run.seen /\ j # k
            => row[<<"ats", j>>].at # row[<<"ats", k>>].at

\* A posting keeps its requisition: the applications made with it stay those
\* of that job.
RequisitionKept ==
    \A id \in Ids :
        posting[id].url[1] = "ats" /\ posting'[id].url[1] = "ats"
            => posting'[id].url = posting[id].url

\* What is on the board has a source, and what a site that answered whole
\* lists is on it after the run, unless a link check hid it.
BoardFollowsSources ==
    /\ \A id \in Stored : posting[id].off = None => RowsAt(row, id) # {}
    /\ run.step = "over" =>
         \A l \in run.seen : l[1] \in run.whole => posting[row[l].at].off # "ghost"

\* A posting leaves the board as a ghost only when each of its sources left
\* it out of two whole answers in a row.
GhostsAreQuiet ==
    \A id \in Ids :
        posting[id].off = None /\ posting'[id].off = "ghost"
            => \A l \in RowsAt(row', id) : missed[l] >= Threshold

\* A posting a source lists again is on the board after the run.
ListedIsRestored ==
    run.step = "over" => \A l \in run.seen : posting[row[l].at].off # "ghost"

\* A posting hidden for a dead page is not shown again with that page until
\* a check finds it live.
CheckStands ==
    \A id \in Stored : condemned[id] = posting[id].url
                         => posting[id].off # None
=============================================================================
