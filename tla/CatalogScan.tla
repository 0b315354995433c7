----------------------------- MODULE CatalogScan -----------------------------
(***************************************************************************)
(* The Muse's catalog, read over many runs (agg.ts): company by company in *)
(* the order of a directory, category by category, page by page, splitting *)
(* into levels what has more pages than the provider answers.  A run reads *)
(* so many pages, commits their rows and then saves its cursor             *)
(* (ingest.ts).                                                            *)
(***************************************************************************)
EXTENDS Naturals

CONSTANTS
    Companies,          \* 1..n, as the directory orders them
    PerPage,            \* companies on a page of it
    Categories, Levels, \* 1..n
    Limit,              \* the most pages the provider answers of one search
    Budget,             \* requests of a run
    MaxRuns, MaxFailures    \* bounds

VARIABLES
    pages,              \* pages of each company's category, and of its levels
    cursor,             \* where the run under way is
    run,                \* its step, its requests, what it read
    saved,              \* the cursor kept, or none
    committed,          \* the pages whose rows are in the corpus
    bounds

vars == <<pages, cursor, run, saved, committed, bounds>>

Searches == Companies \X Categories \X ({0} \cup Levels)    \* 0: all levels
PagesOf(c, k) == pages[<<c, k>>]
Reported(s) == IF s[3] = 0 \/ s[3] = 1 THEN PagesOf(s[1], s[2])
               ELSE 1           \* the first level has all the pages, others one
Answered(s) == IF Reported(s) < Limit THEN Reported(s) ELSE Limit

\* The cursor: a company by its place in the directory, a search, a page.
\* "past" is history: the pages it left behind.
Fresh == [page |-> 0, index |-> 0, company |-> 0, category |-> 1, level |-> 0, at |-> 1,
          complete |-> FALSE, past |-> {}]
NoCursor == [Fresh EXCEPT !.page = 99]
Idle == [step |-> "idle", requests |-> 0, directory |-> {}, read |-> {}]

Init ==
    /\ pages \in [Companies \X Categories -> {1, Limit, Limit + 1}]
    /\ cursor = Fresh
    /\ run = Idle
    /\ saved = NoCursor
    /\ committed = {}
    /\ bounds = [runs |-> 0, failures |-> 0]

\* Who has a place of a page of the directory, if it goes so far, and its last page.
Nth(page, i) == page * PerPage + i + 1
Listed(page, i) == i < PerPage /\ Nth(page, i) \in Companies
IsLastPage(page) == ~Listed(page + 1, 0)

-----------------------------------------------------------------------------
StartRun ==
    /\ run.step = "idle" /\ bounds.runs < MaxRuns
    /\ cursor' = IF saved = NoCursor \/ saved.complete THEN Fresh ELSE saved
    /\ run' = [Idle EXCEPT !.step = "fetching"]
    /\ bounds' = [bounds EXCEPT !.runs = @ + 1]
    /\ UNCHANGED <<pages, saved, committed>>

Fetching == run.step = "fetching" /\ ~cursor.complete /\ run.requests < Budget

Directory ==        \* a page of it is asked for once in a run
    /\ Fetching /\ cursor.company = 0
    /\ run' = IF cursor.page \in run.directory THEN run
              ELSE [run EXCEPT !.requests = @ + 1, !.directory = @ \cup {cursor.page}]
    /\ cursor' =
         IF Listed(cursor.page, cursor.index)
         THEN [cursor EXCEPT !.company = Nth(cursor.page, cursor.index), !.category = 1,
                             !.level = 0, !.at = 1]
         ELSE IF IsLastPage(cursor.page) THEN [cursor EXCEPT !.complete = TRUE]
         ELSE [cursor EXCEPT !.page = @ + 1, !.index = 0]
    /\ UNCHANGED <<pages, saved, committed, bounds>>

NextCompany ==
    /\ Fetching /\ cursor.company # 0 /\ cursor.category \notin Categories
    /\ cursor' = [cursor EXCEPT !.index = @ + 1, !.company = 0, !.category = 1,
                                !.level = 0, !.at = 1]
    /\ UNCHANGED <<pages, run, saved, committed, bounds>>

\* Mutant of Partitioned: the first level's end is taken for the category's.
PartitionedEarly(c) == [c EXCEPT !.category = @ + 1, !.level = 0, !.at = 1]

\* The next level, if the category is read by levels, or the next category.
Partitioned(c) ==
    IF c.level # 0 /\ c.level + 1 \in Levels
    THEN [c EXCEPT !.level = @ + 1, !.at = 1]
    ELSE [c EXCEPT !.category = @ + 1, !.level = 0, !.at = 1]

ReadPage ==
    /\ Fetching /\ cursor.company # 0 /\ cursor.category \in Categories
    /\ LET s == <<cursor.company, cursor.category, cursor.level>>
           moved == [cursor EXCEPT !.past = @ \cup {<<s, cursor.at>>}]
           splits == cursor.level = 0 /\ Reported(s) > Limit
       IN /\ cursor' = IF splits THEN [cursor EXCEPT !.level = 1, !.at = 1]
                       ELSE IF cursor.at >= Answered(s) THEN Partitioned(moved)
                       ELSE [moved EXCEPT !.at = @ + 1]
          /\ run' = [run EXCEPT !.requests = @ + 1,
                                !.read = IF splits THEN @ ELSE @ \cup {<<s, cursor.at>>}]
    /\ UNCHANGED <<pages, saved, committed, bounds>>

\* Mutant of RequestFails: the page is passed before its answer is in.
RequestFailsPast ==
    /\ Fetching /\ bounds.failures < MaxFailures /\ cursor.company # 0
    /\ cursor.category \in Categories
    /\ run' = [run EXCEPT !.step = "fetched"]
    /\ cursor' = [cursor EXCEPT !.at = @ + 1,
                    !.past = @ \cup {<<<<cursor.company, cursor.category, cursor.level>>,
                                      cursor.at>>}]
    /\ bounds' = [bounds EXCEPT !.failures = @ + 1]
    /\ UNCHANGED <<pages, saved, committed>>

RequestFails ==     \* the run keeps what it read so far
    /\ Fetching /\ bounds.failures < MaxFailures
    /\ cursor.company = 0 => cursor.page \notin run.directory
    /\ run' = [run EXCEPT !.step = "fetched"]
    /\ bounds' = [bounds EXCEPT !.failures = @ + 1]
    /\ UNCHANGED <<pages, cursor, saved, committed>>

Fetched ==
    /\ run.step = "fetching" /\ ~Fetching
    /\ run' = [run EXCEPT !.step = "fetched"]
    /\ UNCHANGED <<pages, cursor, saved, committed, bounds>>

\* Mutant of Commit: the cursor is saved first.
CommitLate ==
    /\ run.step = "fetched"
    /\ saved' = cursor
    /\ run' = [run EXCEPT !.step = "committed"]
    /\ UNCHANGED <<pages, cursor, committed, bounds>>

Commit ==
    /\ run.step = "fetched"
    /\ committed' = committed \cup run.read
    /\ run' = [run EXCEPT !.step = "committed"]
    /\ UNCHANGED <<pages, cursor, saved, bounds>>

SaveCursor ==
    /\ run.step = "committed"
    /\ saved' = cursor
    /\ run' = Idle
    /\ UNCHANGED <<pages, cursor, committed, bounds>>

Dies ==
    /\ run.step # "idle" /\ bounds.failures < MaxFailures
    /\ run' = Idle /\ cursor' = Fresh
    /\ bounds' = [bounds EXCEPT !.failures = @ + 1]
    /\ UNCHANGED <<pages, saved, committed>>

Next ==
    \/ StartRun \/ Directory \/ NextCompany \/ ReadPage \/ RequestFails \/ Fetched
    \/ Commit \/ SaveCursor \/ Dies

Spec == Init /\ [][Next]_vars

-----------------------------------------------------------------------------
\* Every variable keeps its type.
TypeOK ==
    /\ cursor.company \in Companies \cup {0} /\ cursor.level \in Levels \cup {0}
    /\ run.requests \in 0..Budget
    /\ \A p \in committed : p[1] \in Searches /\ p[2] \in 1..Limit

\* The cursor kept is never past a page whose rows are not in the corpus, and
\* a catalog read to its end is there with all its categories, or with every
\* level of those that were split, as far as the provider answers.
CursorBehindRows ==
    saved # NoCursor =>
        /\ saved.past \subseteq committed
        /\ saved.complete =>
             \A c \in Companies, k \in Categories :
                IF PagesOf(c, k) <= Limit
                THEN \A n \in 1..PagesOf(c, k) : <<<<c, k, 0>>, n>> \in committed
                ELSE \A l \in Levels : \A n \in 1..Answered(<<c, k, l>>) :
                        <<<<c, k, l>>, n>> \in committed
-----------------------------------------------------------------------------
(* What CursorBehindRows rests on, and what it asks of the constants. *)
CatalogAssumption ==
    /\ \E n \in Nat \ {0} : Companies = 1..n
    /\ \E n \in Nat : Categories = 1..n
    /\ \E n \in Nat \ {0} : Levels = 1..n
    /\ PerPage \in Nat \ {0} /\ Limit \in Nat \ {0}

IsCursor(c) ==
    /\ DOMAIN c = {"page", "index", "company", "category", "level", "at", "complete", "past"}
    /\ c.page \in Nat /\ c.index \in Nat /\ c.company \in Companies \cup {0}
    /\ c.category \in Nat \ {0} /\ c.level \in Levels \cup {0} /\ c.at \in Nat \ {0}
    /\ c.complete \in BOOLEAN /\ c.past \subseteq Searches \X Nat

Typed ==
    /\ DOMAIN run = {"step", "requests", "directory", "read"}
    /\ pages \in [Companies \X Categories -> {1, Limit, Limit + 1}]
    /\ IsCursor(cursor) /\ IsCursor(saved)

\* So many pages of a search are past; a category is past with all its pages, or
\* with those of every level.
Past(c, s, n) == \A k \in 1..n : <<s, k>> \in c.past
LevelsPast(c, co, k, ls) == \A l \in ls : Past(c, <<co, k, l>>, Answered(<<co, k, l>>))
CategoryPast(c, co, k) ==
    IF PagesOf(co, k) <= Limit THEN Past(c, <<co, k, 0>>, PagesOf(co, k))
    ELSE LevelsPast(c, co, k, Levels)
CompanyPast(c, co) == \A k \in Categories : CategoryPast(c, co, k)

\* All before the cursor is past.
Behind(c) ==
    /\ \A co \in Companies : co < Nth(c.page, c.index) => CompanyPast(c, co)
    /\ c.complete => \A co \in Companies : CompanyPast(c, co)
    /\ c.company # 0 =>
          /\ c.company = Nth(c.page, c.index)
          /\ \A k \in Categories : k < c.category => CategoryPast(c, c.company, k)
          /\ c.category \in Categories =>
                /\ Past(c, <<c.company, c.category, c.level>>, c.at - 1)
                /\ c.level # 0 =>
                      /\ PagesOf(c.company, c.category) > Limit
                      /\ LevelsPast(c, c.company, c.category, 1..(c.level - 1))

\* What a cursor is past is in the corpus, or will be before the cursor is saved.
Accounted ==
    /\ cursor.past \subseteq committed \cup run.read
    /\ run.step = "committed" => cursor.past \subseteq committed
    /\ saved.past \subseteq committed

CatalogInv == Typed /\ Behind(cursor) /\ (saved # NoCursor => Behind(saved)) /\ Accounted
=============================================================================
