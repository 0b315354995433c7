--------------------------- MODULE Components_proofs ---------------------------
(***************************************************************************)
(* Proofs about components that share nothing but the names of their       *)
(* variables, for any constants.  Each is an instance whose parameter is   *)
(* the record of its constants, over the variables y1, y2, ... in the      *)
(* order it declares them: its invariant (in its module), lemmas for its   *)
(* actions, and its theorem.                                               *)
(***************************************************************************)
EXTENDS Integers, FiniteSets, Sequences, TLAPS, WellFoundedInduction, SequenceTheorems

VARIABLES y1, y2, y3, y4, y5, y6, y7, y8, y9, y10, y11, y12

Checks(c) == INSTANCE AppliedChecks WITH
    Pages <- c.pages, Posts <- c.posts, Reloads <- c.reloads,
    MaxChecks <- c.checks, MaxMoves <- c.moves, MaxFaults <- c.faults,
    session <- y1, scoped <- y2, legacy <- y3, synced <- y4, page <- y5,
    net <- y6, marks <- y7, young <- y8, meant <- y9, hasty <- y10,
    bounds <- y11

Import(c) == INSTANCE ImportReview WITH
    Posts <- c.posts, MaxRequests <- c.requests, MaxMoves <- c.moves,
    MaxFaults <- c.faults,
    account <- y1, stored <- y2, previews <- y3, acks <- y4, marks <- y5,
    net <- y6, view <- y7, op <- y8, vouched <- y9, refused <- y10,
    bounds <- y11

Copy(c) == INSTANCE Mirror WITH
    Keys <- c.keys, Values <- c.values, MaxId <- c.ids, MaxChanges <- c.changes,
    MaxJobs <- c.jobs, MaxFailures <- c.failures, MaxLost <- c.lost,
    db <- y1, cache <- y2, hosted <- y3, job <- y4, gone <- y5, refused <- y6,
    bounds <- y7

Roster(c) == INSTANCE Registry WITH
    Companies <- c.companies, Voice <- c.voice, Studios <- c.studios, Listed <- c.listed,
    Corporate <- c.corporate, Extra <- c.extra, Early <- c.early, Excluded <- c.excluded,
    MaxRuns <- c.runs, MaxMoves <- c.moves, MaxFaults <- c.faults,
    world <- y1, seen <- y2, file <- y3, report <- y4, run <- y5, spent <- y6

Net(c) == INSTANCE PoliteFetch WITH
    Callers <- c.callers, Hosts <- c.hosts, Public <- c.public, MinGap <- c.gap,
    CrawlDelay <- c.delay, Ttl <- c.ttl, Retries <- c.retries, MaxHops <- c.hops,
    MaxClock <- c.clock,
    clock <- y1, callers <- y2, gaps <- y3, lastAt <- y4, loads <- y5, sends <- y6

Paged(c) == INSTANCE OffsetScan WITH
    Jobs <- c.jobs, Category <- c.category, Page <- c.page, Cap <- c.cap,
    MaxChanges <- c.changes, MaxScans <- c.scans, MaxFailures <- c.failures,
    site <- y1, board <- y2, scan <- y3, answer <- y4, absent <- y5, left <- y6,
    bounds <- y7

Muse(c) == INSTANCE CatalogScan WITH
    Companies <- c.companies, PerPage <- c.perPage, Categories <- c.categories,
    Levels <- c.levels, Limit <- c.limit, Budget <- c.budget, MaxRuns <- c.runs,
    MaxFailures <- c.failures,
    pages <- y1, cursor <- y2, run <- y3, saved <- y4, committed <- y5, bounds <- y6

-----------------------------------------------------------------------------
(* AppliedChecks *)

(* What a step makes of a page, and that it is one. *)
LEMMA ReportPut ==
    ASSUME NEW CONSTANT c, NEW q \in Checks(c)!PageType, NEW r \in Checks(c)!ReportType
    PROVE  /\ [q EXCEPT !.report = r] \in Checks(c)!PageType
           /\ [q EXCEPT !.timer = Checks(c)!None, !.report = r] \in Checks(c)!PageType
           /\ [q EXCEPT !.timer = "change", !.report = r] \in Checks(c)!PageType
BY DEF Checks!PageType

LEMMA NoReportTyped ==
    ASSUME NEW CONSTANT c
    PROVE  /\ Checks(c)!NoReport \in Checks(c)!ReportType
           /\ Checks(c)!Closed \in Checks(c)!PageType
           /\ [Checks(c)!Closed EXCEPT !.open = TRUE, !.timer = "load"] \in Checks(c)!PageType
BY DEF Checks!PageType, Checks!ReportType, Checks!NoReport, Checks!Closed, Checks!None

LEMMA PagesTyped ==
    ASSUME NEW CONSTANT c, Checks(c)!TypeOK, Checks(c)!Next
    PROVE  y5' \in [c.pages -> Checks(c)!PageType]
<1> DEFINE Typed == y5' \in [c.pages -> Checks(c)!PageType]
<1>1. y5 \in [c.pages -> Checks(c)!PageType] /\ y1 \in Checks(c)!Applicants \cup {Checks(c)!None}
  BY DEF Checks!TypeOK
<1>2. ASSUME NEW p \in c.pages, NEW q \in Checks(c)!PageType, y5' = [y5 EXCEPT ![p] = q]
      PROVE  Typed
  BY SMTT(60), <1>1, <1>2
<1>3. ASSUME NEW p \in c.pages, NEW r \in Checks(c)!ReportType,
             y5' = [y5 EXCEPT ![p].report = r]
      PROVE  Typed
  BY <1>1, <1>3, ReportPut
<1>4. ASSUME NEW p \in c.pages, NEW step \in {"wait", "told"},
             y5' = [y5 EXCEPT ![p].report.step = step]
      PROVE  Typed
  <2>1. y5[p].report \in Checks(c)!ReportType
    BY <1>1 DEF Checks!PageType
  <2>2. [y5[p].report EXCEPT !.step = step] \in Checks(c)!ReportType
    BY <2>1 DEF Checks!ReportType
  <2> DEFINE r == [y5[p].report EXCEPT !.step = step]
  <2>3. y5' = [y5 EXCEPT ![p].report = r]
    BY SMTT(60), <1>4
  <2> QED BY <2>2, <2>3, <1>3
<1>5. ASSUME NEW p \in c.pages, Checks(c)!Scheduled(p)
      PROVE  Typed
  BY <1>1, <1>5, NoReportTyped, ReportPut DEF Checks!Scheduled
<1>6. ASSUME NEW p \in c.pages, Checks(c)!Ready(p)
      PROVE  Typed
  BY ZenonT(60), <1>1, <1>6 DEF Checks!Ready, Checks!PageType
<1>7. ASSUME NEW p \in c.pages, Checks(c)!Fire(p)
      PROVE  Typed
  <2> DEFINE r == IF y2 = {} /\ y3 = {} THEN Checks(c)!NoReport
                  ELSE [Checks(c)!NoReport EXCEPT !.step = "account",
                                                  !.checked = y2, !.old = y3]
  <2>1. r \in Checks(c)!ReportType
    BY NoReportTyped DEF Checks!TypeOK, Checks!ReportType
  <2>2. y5' = [y5 EXCEPT ![p].timer = Checks(c)!None, ![p].report = r]
    BY <1>7 DEF Checks!Fire
  <2> QED BY <1>1, <2>1, <2>2, ReportPut
<1>8. ASSUME NEW p \in c.pages, Checks(c)!Account(p)
      PROVE  Typed
  <2> DEFINE r == y5[p].report
             pending == Checks(c)!Mine(r, y1) \ y4
             told == [r EXCEPT !.step = "confirm", !.owner = y1, !.synced = y4,
                               !.checked = pending]
  <2>1. r \in Checks(c)!ReportType
    BY <1>1 DEF Checks!PageType
  <2>2. pending \in SUBSET Checks(c)!Pairs /\ y4 \in SUBSET Checks(c)!Pairs
    BY <2>1 DEF Checks!ReportType, Checks!Mine, Checks!TypeOK
  <2>3. told \in Checks(c)!ReportType
    BY <1>1, <2>1, <2>2 DEF Checks!ReportType
  <2>4. \/ y5' = [y5 EXCEPT ![p].report = Checks(c)!NoReport]
        \/ y5' = [y5 EXCEPT ![p].report = told]
    BY <1>8 DEF Checks!Account
  <2> QED BY <2>3, <2>4, <1>3, NoReportTyped
<1>9. ASSUME NEW p \in c.pages,
             \/ Checks(c)!Open(p) \/ Checks(c)!Close(p) \/ Checks(c)!Confirm(p)
             \/ Checks(c)!Told(p) \/ Checks(c)!Fails(p)
      PROVE  Typed
  <2>1. CASE Checks(c)!Open(p) BY <2>1, <1>2, NoReportTyped DEF Checks!Open
  <2>2. CASE Checks(c)!Close(p) BY <2>2, <1>2, NoReportTyped DEF Checks!Close
  <2>3. CASE Checks(c)!Confirm(p) BY <2>3, <1>3, <1>4, NoReportTyped DEF Checks!Confirm
  <2>4. CASE Checks(c)!Told(p) BY <2>4, <1>3, NoReportTyped DEF Checks!Told
  <2>5. CASE Checks(c)!Fails(p) BY <2>5, <1>3, NoReportTyped DEF Checks!Fails
  <2> QED BY <1>9, <2>1, <2>2, <2>3, <2>4, <2>5
<1>10. ASSUME NEW m \in y6, Checks(c)!Serve(m) PROVE Typed
  BY <1>1, <1>10, <1>4 DEF Checks!Serve, Checks!TypeOK
<1>11. CASE UNCHANGED y5
  BY <1>1, <1>11
<1> QED
  BY <1>5, <1>6, <1>7, <1>8, <1>9, <1>10, <1>11
  DEF Checks!Next, Checks!PageStep, Checks!Check, Checks!Uncheck, Checks!Lost, Checks!Ripen,
      Checks!Switch

LEMMA ChecksTyped ==
    ASSUME NEW CONSTANT c, Checks(c)!TypeOK, Checks(c)!Next
    PROVE  Checks(c)!TypeOK'
<1> DEFINE Pairs == Checks(c)!Pairs
           Somebody == Checks(c)!Applicants \cup {Checks(c)!None}
           Copies == [page : c.pages, checks : SUBSET Pairs]
           Counts == [checks : Nat, moves : Nat, faults : Nat]
           Rest == /\ y1' \in Somebody /\ y3' \subseteq c.posts
                   /\ y2' \subseteq Pairs /\ y4' \subseteq Pairs /\ y7' \subseteq Pairs
                   /\ y6' \subseteq Copies /\ y11' \in Counts
<1>1. /\ y1 \in Somebody /\ y3 \subseteq c.posts
      /\ y2 \subseteq Pairs /\ y4 \subseteq Pairs /\ y7 \subseteq Pairs
      /\ y6 \subseteq Copies /\ y11 \in Counts
  BY DEF Checks!TypeOK
<1>2. \A p \in c.pages :
        /\ y5[p].owner \in Somebody
        /\ y5[p].report.checked \subseteq Pairs /\ y5[p].report.synced \subseteq Pairs
  BY DEF Checks!TypeOK, Checks!PageType, Checks!ReportType
<1>3. \A o \in Somebody, x \in c.posts : o # Checks(c)!None => <<o, x>> \in Pairs
  BY DEF Checks!Pairs
<1>4. ASSUME NEW p \in c.pages, Checks(c)!Open(p) PROVE Rest
  BY <1>1, <1>2, <1>3, <1>4 DEF Checks!Open, Checks!browser
<1>5. ASSUME NEW p \in c.pages, Checks(c)!Ready(p) PROVE Rest
  BY <1>1, <1>2, <1>3, <1>5 DEF Checks!Ready, Checks!browser
<1>6. ASSUME NEW p \in c.pages, Checks(c)!Close(p) PROVE Rest
  BY <1>1, <1>2, <1>3, <1>6 DEF Checks!Close, Checks!browser
<1>7. ASSUME NEW p \in c.pages, Checks(c)!Fire(p) PROVE Rest
  BY <1>1, <1>2, <1>3, <1>7 DEF Checks!Fire, Checks!browser
<1>8. ASSUME NEW p \in c.pages, Checks(c)!Account(p) PROVE Rest
  BY <1>1, <1>2, <1>3, <1>8 DEF Checks!Account, Checks!browser, Checks!Pairs
<1>9. ASSUME NEW p \in c.pages, Checks(c)!Confirm(p) PROVE Rest
  BY <1>1, <1>2, <1>3, <1>9 DEF Checks!Confirm, Checks!browser
<1>10. ASSUME NEW p \in c.pages, Checks(c)!Told(p) PROVE Rest
  BY <1>1, <1>2, <1>3, <1>10 DEF Checks!Told, Checks!browser
<1>11. ASSUME NEW p \in c.pages, Checks(c)!Fails(p) PROVE Rest
  BY <1>1, <1>2, <1>3, <1>11 DEF Checks!Fails, Checks!browser
<1>12. ASSUME NEW p \in c.pages, NEW x \in c.posts, Checks(c)!Check(p, x) PROVE Rest
  BY <1>1, <1>2, <1>3, <1>12 DEF Checks!Check, Checks!browser
<1>13. ASSUME NEW p \in c.pages, NEW x \in c.posts, Checks(c)!Uncheck(p, x) PROVE Rest
  BY <1>1, <1>2, <1>3, <1>13 DEF Checks!Uncheck, Checks!browser
<1>14. ASSUME NEW m \in y6, Checks(c)!Serve(m) PROVE Rest
  BY <1>1, <1>2, <1>3, <1>14 DEF Checks!Serve, Checks!browser
<1>15. ASSUME NEW m \in y6, Checks(c)!Lost(m) PROVE Rest
  BY <1>1, <1>2, <1>3, <1>15 DEF Checks!Lost, Checks!browser
<1>16. ASSUME Checks(c)!Ripen PROVE Rest
  BY <1>1, <1>2, <1>3, <1>16 DEF Checks!Ripen, Checks!browser
<1>17. ASSUME Checks(c)!Switch PROVE Rest
  BY <1>1, <1>2, <1>3, <1>17 DEF Checks!Switch, Checks!browser
<1>18. Rest
  BY <1>4, <1>5, <1>6, <1>7, <1>8, <1>9, <1>10, <1>11, <1>12, <1>13, <1>14, <1>15, <1>16, <1>17 DEF Checks!Next, Checks!PageStep
<1> QED BY <1>18, PagesTyped DEF Checks!TypeOK

-----------------------------------------------------------------------------
(* Whatever a page does, it reports what its applicant checked. *)
LEMMA ReportsStay ==
    ASSUME NEW CONSTANT c, Checks(c)!ChecksInv, Checks(c)!Next
    PROVE  Checks(c)!ReportsAreMeant' /\ Checks(c)!ChecksAreKept'
<1> USE DEF Checks!browser
<1>1. /\ Checks(c)!TypeOK /\ y7 \subseteq y9 /\ y4 \subseteq y7 /\ y2 \subseteq y9
      /\ \A p \in c.pages : Checks(c)!ReportIsMeant(y5[p].report)
      /\ \A m \in y6 : m.checks \subseteq y9
  BY DEF Checks!ChecksInv, Checks!ReportsAreMeant, Checks!ChecksAreSound, Checks!ChecksAreKept,
         Checks!MarkIsMeant, Checks!SyncedIsMarked, Checks!CheckIsOwn
<1>2. /\ y5 \in [c.pages -> Checks(c)!PageType]
      /\ \A p \in c.pages : y5[p].report \in Checks(c)!ReportType
      /\ \A m \in y6 : m.page \in c.pages
  BY SMTT(60), <1>1 DEF Checks!TypeOK, Checks!PageType
<1>3. y9 \subseteq y9' /\ y7 \subseteq y7'
  BY ZenonT(60) DEF Checks!Next, Checks!PageStep, Checks!Open, Checks!Ready, Checks!Close,
      Checks!Fire, Checks!Account, Checks!Confirm, Checks!Told, Checks!Fails, Checks!Check,
      Checks!Uncheck, Checks!Serve, Checks!Lost, Checks!Ripen, Checks!Switch
<1>4. ASSUME NEW r, Checks(c)!ReportIsMeant(r)
      PROVE  Checks(c)!ReportIsMeant(r)'
  BY <1>3, <1>4 DEF Checks!ReportIsMeant, Checks!NoReport, Checks!None
<1>5. Checks(c)!ReportIsMeant(Checks(c)!NoReport)'
  BY DEF Checks!ReportIsMeant, Checks!NoReport, Checks!None
<1> DEFINE Meant == \A p \in c.pages : Checks(c)!ReportIsMeant(y5[p].report)'
<1>6. ASSUME NEW p \in c.pages, NEW q, y5' = [y5 EXCEPT ![p] = q],
             Checks(c)!ReportIsMeant(q.report)'
      PROVE  Meant
  BY <1>1, <1>2, <1>4, <1>6
<1>7. ASSUME NEW p \in c.pages, NEW r, y5' = [y5 EXCEPT ![p].report = r],
             Checks(c)!ReportIsMeant(r)'
      PROVE  Meant
  BY <1>1, <1>2, <1>4, <1>7 DEF Checks!PageType
<1>8. ASSUME NEW p \in c.pages, Checks(c)!Scheduled(p)
      PROVE  Meant
  BY <1>1, <1>2, <1>4, <1>5, <1>8 DEF Checks!PageType, Checks!Scheduled
<1> DEFINE Goal == /\ Meant /\ (\A m \in y6' : m.checks \subseteq y9')
                   /\ y7' \subseteq y9' /\ y4' \subseteq y7' /\ y2' \subseteq y9'
<1>9. ASSUME NEW p \in c.pages,
             \/ Checks(c)!Open(p) \/ Checks(c)!Close(p) \/ Checks(c)!Fails(p)
      PROVE  Goal
  <2>1. Checks(c)!ReportIsMeant(Checks(c)!Closed.report)'
    BY <1>5 DEF Checks!Closed
  <2>2. [Checks(c)!Closed EXCEPT !.open = TRUE, !.timer = "load"].report = Checks(c)!Closed.report
    BY DEF Checks!Closed
  <2> QED
    BY <1>1, <1>3, <1>5, <1>6, <1>7, <1>9, <2>1, <2>2
    DEF Checks!Open, Checks!Close, Checks!Fails
<1>10. ASSUME NEW p \in c.pages, Checks(c)!Ready(p)
      PROVE  Goal
  BY <1>1, <1>2, <1>4, <1>10 DEF Checks!Ready, Checks!PageType
<1>11. ASSUME NEW p \in c.pages, Checks(c)!Fire(p)
      PROVE  Goal
  <2> DEFINE r == IF y2 = {} /\ y3 = {} THEN Checks(c)!NoReport
                  ELSE [Checks(c)!NoReport EXCEPT !.step = "account",
                                                  !.checked = y2, !.old = y3]
  <2>1. y5' = [y5 EXCEPT ![p].timer = Checks(c)!None, ![p].report = r]
    BY <1>11 DEF Checks!Fire
  <2>2. Checks(c)!ReportIsMeant(r)'
    BY <1>1, <1>3, <1>5, <1>11
    DEF Checks!Fire, Checks!ReportIsMeant, Checks!NoReport, Checks!None
  <2>3. Meant
    BY <1>1, <1>2, <1>4, <2>1, <2>2 DEF Checks!PageType
  <2> QED BY <1>1, <1>11, <2>3 DEF Checks!Fire
<1>12. ASSUME NEW p \in c.pages, Checks(c)!Account(p)
      PROVE  Goal
  <2>0. PICK r, told :
          /\ r = y5[p].report
          /\ told = [r EXCEPT !.step = "confirm", !.owner = y1, !.synced = y4,
                              !.checked = Checks(c)!Mine(r, y1) \ y4]
    OBVIOUS
  <2>1. y5' = [y5 EXCEPT ![p].report = Checks(c)!NoReport]
        \/ y5' = [y5 EXCEPT ![p].report = told]
    BY <1>12, <2>0 DEF Checks!Account
  <2>2. told.checked = Checks(c)!Mine(r, y1) \ y4 /\ told.synced = y4 /\ told.step = "confirm"
    BY <1>2, <2>0 DEF Checks!ReportType
  <2>3. Checks(c)!ReportIsMeant(told)'
    BY <1>1, <1>12, <2>0, <2>2 DEF Checks!Account, Checks!ReportIsMeant, Checks!Mine, Checks!None
  <2>4. Meant
    BY <1>5, <1>7, <2>1, <2>3
  <2>5. y2' \subseteq y9'
    BY <1>1, <1>12 DEF Checks!Account
  <2> QED BY <1>1, <1>12, <2>4, <2>5 DEF Checks!Account
<1>13. ASSUME NEW p \in c.pages, Checks(c)!Confirm(p)
      PROVE  Goal
  <2>0. PICK r, waits : r = y5[p].report /\ waits = [r EXCEPT !.step = "wait"]
    OBVIOUS
  <2>1. \/ y5' = [y5 EXCEPT ![p].report = Checks(c)!NoReport]
        \/ y5' = [y5 EXCEPT ![p].report.step = "wait"]
    BY <1>13 DEF Checks!Confirm
  <2>2. Checks(c)!ReportIsMeant(waits)'
    BY <1>1, <1>2, <1>13, <2>0
    DEF Checks!Confirm, Checks!ReportIsMeant, Checks!None, Checks!ReportType
  <2>3. y5' = [y5 EXCEPT ![p].report.step = "wait"] => y5' = [y5 EXCEPT ![p].report = waits]
    BY <2>0
  <2>4. Meant
    BY <1>5, <1>7, <2>1, <2>2, <2>3
  <2>5. \A m \in y6' : m.checks \subseteq y9'
    BY <1>1, <1>13 DEF Checks!Confirm, Checks!ReportIsMeant
  <2> QED BY <1>1, <1>13, <2>4, <2>5 DEF Checks!Confirm
<1>14. ASSUME NEW m \in y6, Checks(c)!Serve(m)
      PROVE  Goal
  <2>0. PICK p, r, told :
          p = m.page /\ r = y5[p].report /\ told = [r EXCEPT !.step = "told"]
    OBVIOUS
  <2>1. y5' = y5 \/ (/\ r.step = "wait" /\ r.checked = m.checks
                    /\ y5' = [y5 EXCEPT ![p].report.step = "told"])
    BY <1>14, <2>0 DEF Checks!Serve
  <2>2. r.step = "wait" /\ r.checked = m.checks => Checks(c)!ReportIsMeant(told)'
    BY <1>1, <1>2, <1>3, <1>14, <2>0
    DEF Checks!Serve, Checks!ReportIsMeant, Checks!None, Checks!ReportType
  <2>3. y5' = [y5 EXCEPT ![p].report.step = "told"] => y5' = [y5 EXCEPT ![p].report = told]
    BY <2>0
  <2>4. Meant
    BY <1>1, <1>2, <1>4, <1>7, <2>0, <2>1, <2>2, <2>3
  <2> QED BY <1>1, <1>14, <2>4 DEF Checks!Serve
<1>15. ASSUME NEW p \in c.pages, Checks(c)!Told(p)
      PROVE  Goal
  <2>1. y4' \subseteq y7'
    BY <1>1, <1>15 DEF Checks!Told, Checks!ReportIsMeant
  <2> QED BY <1>1, <1>5, <1>7, <1>15, <2>1 DEF Checks!Told
<1>16. ASSUME NEW p \in c.pages, NEW x \in c.posts,
              Checks(c)!Check(p, x) \/ Checks(c)!Uncheck(p, x)
      PROVE  Goal
  BY <1>1, <1>3, <1>8, <1>16 DEF Checks!Check, Checks!Uncheck
<1>17. ASSUME NEW m \in y6, Checks(c)!Lost(m) PROVE Goal
  BY <1>1, <1>4, <1>17 DEF Checks!Lost
<1>18. ASSUME Checks(c)!Ripen \/ Checks(c)!Switch PROVE Goal
  BY <1>1, <1>4, <1>18 DEF Checks!Ripen, Checks!Switch
<1>19. Goal
  BY <1>9, <1>10, <1>11, <1>12, <1>13, <1>14, <1>15, <1>16, <1>17, <1>18
  DEF Checks!Next, Checks!PageStep
<1> QED
  BY <1>19
  DEF Checks!ReportsAreMeant, Checks!ChecksAreKept, Checks!MarkIsMeant,
      Checks!SyncedIsMarked, Checks!CheckIsOwn

(* With one page at a time, no check is reported before it has ripened. *)
LEMMA OneAtATimeWaits ==
    ASSUME NEW CONSTANT c, Checks(c)!ChecksInv, Checks(c)!Next, ~c.reloads
    PROVE  Checks(c)!OnePageWaits' /\ Checks(c)!MisclickCanBeUndone'
<1> USE DEF Checks!browser
<1>1. /\ y5 \in [c.pages -> Checks(c)!PageType]
      /\ \A p \in c.pages : y5[p].report \in Checks(c)!ReportType
      /\ \A m \in y6 : m.page \in c.pages
  BY DEF Checks!ChecksInv, Checks!TypeOK, Checks!PageType
<1> DEFINE Shut(p) == ~y5[p].open => y5[p] = Checks(c)!Closed
           Alone(p, q) == y5[p].open /\ y5[q].open => p = q
           Waits(p) == y5[p].timer = "load" \/ y5[p].report.step # Checks(c)!None => y8 = <<>>
           Goal == /\ \A p \in c.pages : Shut(p)'
                   /\ \A p, q \in c.pages : Alone(p, q)'
                   /\ \A p \in c.pages : Waits(p)'
                   /\ y10' = {}
<1>2. /\ \A p \in c.pages : Shut(p)
      /\ \A p, q \in c.pages : Alone(p, q)
      /\ \A p \in c.pages : Waits(p)
      /\ y10 = {}
  BY DEF Checks!ChecksInv, Checks!OnePageWaits, Checks!ChecksAreSound, Checks!MisclickCanBeUndone
<1>3. ASSUME NEW p \in c.pages, Checks(c)!Open(p)
      PROVE  Goal
  <2>1. y8 = <<>> /\ y8' = y8 /\ y10' = y10 /\ \A o \in c.pages : ~y5[o].open
    BY <1>3 DEF Checks!Open
  <2>2. PICK q : q = [Checks(c)!Closed EXCEPT !.open = TRUE, !.timer = "load"]
    OBVIOUS
  <2>3. q.open /\ y5' = [y5 EXCEPT ![p] = q]
    BY <1>3, <2>2 DEF Checks!Open, Checks!Closed
  <2> QED BY <1>1, <1>2, <2>1, <2>3
<1>4. ASSUME NEW p \in c.pages, Checks(c)!Ready(p)
      PROVE  Goal
  BY <1>1, <1>2, <1>4 DEF Checks!Ready, Checks!PageType
<1>5. ASSUME NEW p \in c.pages, Checks(c)!Close(p)
      PROVE  Goal
  BY <1>1, <1>2, <1>5 DEF Checks!Close, Checks!Closed, Checks!NoReport, Checks!None
<1>6. ASSUME NEW p \in c.pages, Checks(c)!Fire(p)
      PROVE  Goal
  <2>1. y8 = <<>> /\ y8' = y8 /\ y10' = y10 /\ y5[p].open
    <3>1. ~y5[p].open => y5[p].timer = Checks(c)!None
      BY <1>2 DEF Checks!Closed
    <3>2. y5[p].timer \in {Checks(c)!None, "load", "change"}
      BY <1>1 DEF Checks!PageType
    <3> QED BY <1>2, <1>6, <3>1, <3>2 DEF Checks!Fire
  <2>2. \A o \in c.pages : o # p => y5'[o] = y5[o]
    BY <1>1, <1>6 DEF Checks!Fire
  <2>3. y5'[p].open
    BY <1>1, <1>6, <2>1 DEF Checks!Fire, Checks!PageType
  <2> QED BY <1>2, <2>1, <2>2, <2>3
<1>7. ASSUME NEW p \in c.pages, NEW r, y5' = [y5 EXCEPT ![p].report = r],
             y5[p].report.step # Checks(c)!None, UNCHANGED <<y8, y10>>
      PROVE  Goal
  <2>1. y5[p].open /\ y8 = <<>>
    BY <1>2, <1>7 DEF Checks!Closed, Checks!NoReport
  <2>2. \A o \in c.pages : /\ o # p => y5'[o] = y5[o]
                           /\ y5'[o].open = y5[o].open
    BY <1>1, <1>7 DEF Checks!PageType
  <2> QED BY <1>2, <1>7, <2>1, <2>2
<1>8. ASSUME NEW p \in c.pages, NEW x \in c.posts,
             Checks(c)!Check(p, x) \/ Checks(c)!Uncheck(p, x)
      PROVE  Goal
  <2>1. y5[p].open
    BY <1>2, <1>8 DEF Checks!Check, Checks!Uncheck, Checks!Closed
  <2>2. \A o \in c.pages : o # p => y5'[o] = y5[o]
    BY <1>1, <1>8 DEF Checks!Check, Checks!Uncheck, Checks!Scheduled
  <2>3. y5'[p].open /\ y5'[p].timer = "change" /\ y5'[p].report = Checks(c)!NoReport
    BY <1>1, <1>8, <2>1 DEF Checks!Check, Checks!Uncheck, Checks!Scheduled, Checks!PageType
  <2>4. y10' = {}
    BY <1>2, <1>8 DEF Checks!Check, Checks!Uncheck
  <2>5. \A o \in c.pages : o # p => y5[o] = Checks(c)!Closed
    BY <1>2, <2>1
  <2> QED
    BY <1>2, <2>1, <2>2, <2>3, <2>4, <2>5 DEF Checks!Closed, Checks!NoReport, Checks!None
<1>9. ASSUME NEW p \in c.pages,
             Checks(c)!Account(p) \/ Checks(c)!Told(p) \/ Checks(c)!Fails(p)
      PROVE  Goal
  <2>1. y5[p].report.step # Checks(c)!None
    BY <1>9
    DEF Checks!Account, Checks!Told, Checks!Fails, Checks!None, Checks!ChecksInv,
        Checks!ReportsAreMeant, Checks!ReportIsMeant
  <2>2. \E r : y5' = [y5 EXCEPT ![p].report = r]
    BY <1>9 DEF Checks!Account, Checks!Told, Checks!Fails
  <2>3. UNCHANGED <<y8, y10>>
    BY <1>9 DEF Checks!Account, Checks!Told, Checks!Fails
  <2> QED BY <1>7, <2>1, <2>2, <2>3
<1>10. ASSUME NEW p \in c.pages, Checks(c)!Confirm(p)
      PROVE  Goal
  <2>1. y5[p].report.step # Checks(c)!None
    BY <1>10 DEF Checks!Confirm, Checks!None
  <2>2. Checks(c)!Young = {}
    BY <1>2, <2>1 DEF Checks!Young
  <2>3. UNCHANGED <<y8, y10>>
    BY <1>2, <1>10, <2>2 DEF Checks!Confirm
  <2>4. \E r : y5' = [y5 EXCEPT ![p].report = r]
    BY <1>10 DEF Checks!Confirm
  <2> QED BY <1>7, <2>1, <2>3, <2>4
<1>11. ASSUME NEW m \in y6, Checks(c)!Serve(m) \/ Checks(c)!Lost(m)
      PROVE  Goal
  <2>1. UNCHANGED <<y8, y10>>
    BY <1>11 DEF Checks!Serve, Checks!Lost
  <2>2. CASE UNCHANGED y5
    BY <1>2, <2>1, <2>2
  <2>3. CASE /\ y5[m.page].report.step = "wait"
             /\ y5' = [y5 EXCEPT ![m.page].report.step = "told"]
    BY <1>1, <1>7, <2>1, <2>3 DEF Checks!None
  <2> QED BY <1>11, <2>2, <2>3 DEF Checks!Serve, Checks!Lost
<1>12. ASSUME Checks(c)!Ripen \/ Checks(c)!Switch
      PROVE  Goal
  BY <1>2, <1>12 DEF Checks!Ripen, Checks!Switch
<1>13. Goal
  BY <1>3, <1>4, <1>5, <1>6, <1>8, <1>9, <1>10, <1>11, <1>12
  DEF Checks!Next, Checks!PageStep
<1> QED
  BY <1>13 DEF Checks!OnePageWaits, Checks!MisclickCanBeUndone

LEMMA ChecksSame ==
    ASSUME NEW CONSTANT c, Checks(c)!ChecksInv, UNCHANGED Checks(c)!vars
    PROVE  Checks(c)!ChecksInv'
<1>1. /\ y1' = y1 /\ y2' = y2 /\ y3' = y3 /\ y4' = y4 /\ y5' = y5 /\ y6' = y6
      /\ y7' = y7 /\ y8' = y8 /\ y9' = y9 /\ y10' = y10 /\ y11' = y11
  BY DEF Checks!vars
<1> QED
  BY <1>1
  DEF Checks!ChecksInv, Checks!TypeOK, Checks!ChecksAreSound, Checks!ChecksAreKept,
      Checks!MarkIsMeant, Checks!SyncedIsMarked, Checks!CheckIsOwn,
      Checks!MisclickCanBeUndone, Checks!ReportsAreMeant, Checks!ReportIsMeant,
      Checks!OnePageWaits

LEMMA ChecksStart ==
    ASSUME NEW CONSTANT c, Checks(c)!Init
    PROVE  Checks(c)!ChecksInv
<1> USE DEF Checks!Init
<1>1. Checks(c)!TypeOK
  BY NoReportTyped DEF Checks!TypeOK, Checks!Pairs
<1>2. Checks(c)!ChecksAreSound
  BY DEF Checks!ChecksAreSound, Checks!ChecksAreKept, Checks!MarkIsMeant,
         Checks!SyncedIsMarked, Checks!CheckIsOwn, Checks!MisclickCanBeUndone
<1>3. Checks(c)!ReportsAreMeant
  BY DEF Checks!ReportsAreMeant, Checks!ReportIsMeant, Checks!Closed, Checks!NoReport,
         Checks!None
<1>4. Checks(c)!OnePageWaits
  BY DEF Checks!OnePageWaits, Checks!Closed, Checks!NoReport, Checks!None
<1> QED BY <1>1, <1>2, <1>3, <1>4 DEF Checks!ChecksInv

LEMMA ChecksStep ==
    ASSUME NEW CONSTANT c, Checks(c)!ChecksInv, [Checks(c)!Next]_(Checks(c)!vars)
    PROVE  Checks(c)!ChecksInv'
<1>1. CASE Checks(c)!Next
  <2>1. Checks(c)!TypeOK'
    BY <1>1, ChecksTyped DEF Checks!ChecksInv
  <2>2. Checks(c)!ReportsAreMeant' /\ Checks(c)!ChecksAreKept'
    BY <1>1, ReportsStay
  <2>3. ~c.reloads => Checks(c)!OnePageWaits' /\ Checks(c)!MisclickCanBeUndone'
    BY <1>1, OneAtATimeWaits
  <2> QED BY <2>1, <2>2, <2>3 DEF Checks!ChecksInv, Checks!ChecksAreSound
<1>2. CASE UNCHANGED Checks(c)!vars
  BY <1>2, ChecksSame
<1> QED BY <1>1, <1>2

(* Whatever the pages, postings and bounds, a mark is one its applicant      *)
(* checked, what counts as reported is marked, and with one page at a time   *)
(* no check is reported in its grace (applied-sync.tsx, board-storage.ts).   *)
THEOREM ChecksAlwaysSound ==
    ASSUME NEW CONSTANT c
    PROVE  Checks(c)!Spec => []Checks(c)!ChecksAreSound
<1>1. Checks(c)!Init => Checks(c)!ChecksInv
  BY ChecksStart
<1>2. Checks(c)!ChecksInv /\ [Checks(c)!Next]_(Checks(c)!vars) => Checks(c)!ChecksInv'
  BY ChecksStep
<1>3. Checks(c)!ChecksInv => Checks(c)!ChecksAreSound
  BY DEF Checks!ChecksInv
<1> QED BY <1>1, <1>2, <1>3, PTL DEF Checks!Spec

-----------------------------------------------------------------------------
(* ImportReview *)

(* The types are kept by every step. *)
LEMMA ImportTyped ==
    ASSUME NEW CONSTANT c, Import(c)!ImportInv, Import(c)!Next
    PROVE  Import(c)!TypeOK'
<1> USE DEF Import!Me, Import!Other, Import!None, Import!server
<1> DEFINE R == Import(c)!RequestType
           V == [owner : {"none", "me", "other"}, locked : BOOLEAN, busy : BOOLEAN,
                 preview : [token : Nat, rows : SUBSET c.posts], selected : SUBSET c.posts,
                 ownership : BOOLEAN, expired : BOOLEAN, pending : R, ack : R]
           O == [step : {"none", "owner", "wait", "told", "refused"}, request : R,
                 n : Nat, token : {0}]
           P == [token : Nat, owner : {"none", "me", "other"}, rows : SUBSET c.posts, expired : BOOLEAN]
           B == [requests : Nat, sends : Nat, moves : Nat, faults : Nat]
           Goal == /\ y1' \in {"me", "other"} /\ y2' \subseteq c.posts /\ y10' \subseteq Nat
                   /\ y3' \subseteq P /\ y4' \subseteq R
                   /\ y6' \subseteq [request : R, n : Nat]
                   /\ y7' \in V /\ y8' \in O /\ y11' \in B
<1>1. /\ y1 \in {"me", "other"} /\ y2 \subseteq c.posts /\ y10 \subseteq Nat
      /\ y3 \subseteq P /\ y4 \subseteq R
      /\ y6 \subseteq [request : R, n : Nat]
      /\ y7 \in V /\ y8 \in O /\ y11 \in B
  BY DEF Import!ImportInv, Import!TypeOK
<1>2. /\ Import(c)!NoRequest \in R /\ Import(c)!NoOp \in O /\ Import(c)!InitialView \in V
  BY DEF Import!RequestType, Import!NoRequest, Import!NoOp, Import!InitialView, Import!NoPreview
<1>3. ASSUME NEW r \in R
      PROVE  r.id \in Nat /\ r.owner \in {"none", "me", "other"} /\ r.posts \subseteq c.posts
  BY <1>3 DEF Import!RequestType
<1> HIDE DEF R
<1>4. ASSUME NEW owner \in {"none", "me", "other"}, Import(c)!ChangedOwner(owner)
      PROVE  y7' \in V /\ y8' \in O /\ y10' = y10
  BY ZenonT(60), <1>1, <1>2, <1>4 DEF Import!ChangedOwner
<1>5. ASSUME NEW r \in R, Import(c)!Execute(r)
      PROVE  y7' \in V /\ y8' \in O
  BY <1>1, <1>2, <1>5 DEF Import!Execute
<1>6. ASSUME NEW kind \in {"preview", "confirm"}, NEW token \in Nat,
             NEW posts \in SUBSET c.posts, Import(c)!Request(kind, token, posts)
      PROVE  y7' \in V /\ y8' \in O /\ y11' \in B
  <2>1. [id |-> y11.requests + 1, kind |-> kind, owner |-> y7.owner, token |-> token,
         posts |-> posts] \in R
    BY <1>1 DEF R, Import!RequestType
  <2>2. y11' \in B
    BY <1>1, <1>6 DEF Import!Request
  <2> QED BY <1>5, <1>6, <2>1, <2>2 DEF Import!Request
<1>7. ASSUME NEW m \in y6, Import(c)!Serve(m)
      PROVE  Goal
  <2>1. m.request \in R
    BY <1>1
  <2>2. y3' \subseteq P
    <3>1. [token |-> m.request.id, owner |-> m.request.owner, rows |-> m.request.posts,
           expired |-> FALSE] \in P
      BY <1>3, <2>1
    <3>2. y3' = y3 \/ y3' = y3 \cup {[token |-> m.request.id, owner |-> m.request.owner,
                                      rows |-> m.request.posts, expired |-> FALSE]}
      BY <1>7 DEF Import!Serve, Import!PreviewOf
    <3> QED BY ZenonT(60), <1>1, <3>1, <3>2
  <2>3. y4' \subseteq R
    BY <1>1, <1>7, <2>1 DEF Import!Serve
  <2>4. y8' \in O
    BY <1>1, <1>7 DEF Import!Serve, Import!Answered
  <2> QED BY <1>1, <1>7, <2>2, <2>3, <2>4 DEF Import!Serve
<1>8. ASSUME Import(c)!Expire PROVE Goal
  <2>1. y3' \subseteq P
    <3>1. \A v \in P : [v EXCEPT !.expired = TRUE] \in P
      OBVIOUS
    <3> QED BY <1>1, <1>8, <3>1 DEF Import!Expire
  <2> QED BY <1>1, <1>8, <2>1 DEF Import!Expire
<1>9. ASSUME Import(c)!Switch PROVE Goal
  BY <1>1, <1>9 DEF Import!Switch
<1>10. ASSUME Import(c)!RefreshSession PROVE Goal
  <2>1. /\ y11' \in B
        /\ UNCHANGED <<y1, y2, y3, y4, y6>>
    BY <1>1, <1>10 DEF Import!RefreshSession
  <2>2. CASE Import(c)!ChangedOwner(y1)
    BY <1>1, <1>4, <2>1, <2>2
  <2>3. CASE /\ y7' = [y7 EXCEPT !.owner = y1, !.locked = FALSE, !.busy = FALSE]
             /\ y8' = Import(c)!NoOp /\ y10' = y10
    <3>1. y7' \in V
      BY <1>1, <2>3
    <3> QED BY <1>1, <1>2, <2>1, <2>3, <3>1
  <2> QED BY <1>10, <2>2, <2>3 DEF Import!RefreshSession
<1>11. ASSUME Import(c)!Stops PROVE Goal
  <2>1. y11' \in B
    BY <1>1, <1>11 DEF Import!Stops
  <2>2. PICK signedOut \in BOOLEAN :
          y7' = [y7 EXCEPT !.busy = FALSE, !.locked = @ \/ signedOut]
    BY <1>11 DEF Import!Stops
  <2>3. y7' \in V
    BY <1>1, <2>2
  <2> QED BY <1>1, <1>2, <1>11, <2>1, <2>3 DEF Import!Stops
<1>12. ASSUME NEW x \in c.posts, Import(c)!Select(x) PROVE Goal
  BY <1>1, <1>12 DEF Import!Select
<1>13. ASSUME Import(c)!ConfirmOwnership PROVE Goal
  BY <1>1, <1>13 DEF Import!ConfirmOwnership
<1>14. ASSUME Import(c)!Preview PROVE Goal
  BY <1>1, <1>6, <1>14 DEF Import!Preview
<1>15. ASSUME Import(c)!Confirm PROVE Goal
  BY <1>1, <1>6, <1>15 DEF Import!Confirm
<1>16. ASSUME Import(c)!Retry PROVE Goal
  BY <1>1, <1>5, <1>16 DEF Import!Retry
<1>17. ASSUME Import(c)!Send PROVE Goal
  <2>1. CASE Import(c)!ChangedOwner(Import(c)!None) /\ UNCHANGED <<y6, y11>>
    BY <1>1, <1>4, <1>17, <2>1 DEF Import!Send
  <2>2. CASE /\ y6' = y6 \cup {[request |-> y8.request, n |-> y11.sends + 1]}
             /\ y8' = [y8 EXCEPT !.step = "wait", !.n = y11.sends + 1]
             /\ y11' = [y11 EXCEPT !.sends = @ + 1]
             /\ UNCHANGED <<y7, y10>>
    <3>1. y8.request \in R /\ y11.sends + 1 \in Nat
      BY <1>1
    <3>2. y8' \in O /\ y11' \in B
      BY <1>1, <2>2, <3>1
    <3> QED BY <1>1, <1>17, <2>2, <3>1, <3>2 DEF Import!Send
  <2> QED BY <1>17, <2>1, <2>2 DEF Import!Send
<1>18. ASSUME Import(c)!Told PROVE Goal
  <2>1. CASE Import(c)!ChangedOwner(Import(c)!None)
    BY <1>1, <1>4, <1>18, <2>1 DEF Import!Told
  <2>2. CASE y8.request.kind = "preview" /\ Import(c)!Previewed(y8.request) /\ UNCHANGED y10
    <3>1. \E v \in y3 : v.token = y8.request.id
      BY SMTT(60), <1>18, <2>2 DEF Import!Told, Import!ImportInv, Import!AnswersAreOfOp
    <3>2. PICK v \in y3 :
            y7' = [y7 EXCEPT !.busy = FALSE, !.pending = Import(c)!NoRequest,
                             !.ack = Import(c)!NoRequest,
                             !.preview = [token |-> v.token, rows |-> v.rows],
                             !.expired = FALSE, !.ownership = FALSE,
                             !.selected = @ \cap v.rows]
      BY <2>2, <3>1 DEF Import!Previewed
    <3>3. y7' \in V
      BY <1>1, <1>2, <3>2
    <3>4. y8' \in O
      BY <1>1, <1>2, <1>18 DEF Import!Told, Import!ChangedOwner
    <3> QED BY <1>1, <1>18, <2>2, <3>3, <3>4 DEF Import!Told
  <2>3. CASE y7' = [y7 EXCEPT !.busy = FALSE, !.pending = Import(c)!NoRequest, !.ack = y8.request]
             /\ y8' = Import(c)!NoOp /\ UNCHANGED y10
    <3>1. y7' \in V
      BY <1>1, <1>2, <2>3
    <3> QED BY <1>1, <1>2, <1>18, <2>3, <3>1 DEF Import!Told
  <2> QED BY <1>18, <2>1, <2>2, <2>3 DEF Import!Told
<1>19. ASSUME Import(c)!Refused PROVE Goal
  <2>1. y7' \in V
    BY <1>1, <1>2, <1>19 DEF Import!Refused
  <2>2. y10' \subseteq Nat
    BY <1>1, <1>3, <1>19 DEF Import!Refused
  <2> QED BY <1>1, <1>2, <1>19, <2>1, <2>2 DEF Import!Refused
<1>20. Goal
  BY <1>7, <1>8, <1>9, <1>10, <1>11, <1>12, <1>13, <1>14, <1>15, <1>16, <1>17, <1>18, <1>19
  DEF Import!Next
<1> QED BY <1>20 DEF Import!TypeOK, R

-----------------------------------------------------------------------------
(* What a step may add to the requests there are: one, under the next id.    *)
Grows(c, n) ==
    /\ y11'.requests >= y11.requests
    /\ \A r \in Import(c)!Known' :
          \/ r \in Import(c)!Known
          \/ /\ r = n /\ r.kind # Import(c)!None /\ r.owner # Import(c)!None
             /\ r.id = y11.requests + 1 /\ r.id = y11'.requests

LEMMA RequestsStayTold ==
    ASSUME NEW CONSTANT c, Import(c)!TypeOK, Import(c)!TypeOK', Import(c)!RequestsAreTold,
           NEW n, Grows(c, n)
    PROVE  Import(c)!RequestsAreTold'
<1>1. y11.requests \in Nat /\ y11'.requests \in Nat
  BY DEF Import!TypeOK
<1> QED BY <1>1 DEF Import!RequestsAreTold, Grows

(* The previews are as they were, and more imports are vouched for. *)
LEMMA ImportsStayPreviewed ==
    ASSUME NEW CONSTANT c, Import(c)!ImportInv, Import(c)!TypeOK',
           UNCHANGED y3, NEW n, Grows(c, n), y9 \subseteq y9',
           n.kind = "confirm" =>
               /\ {n.owner} \X n.posts \subseteq y9'
               /\ \E v \in y3 : v.token = n.token /\ v.owner = n.owner /\ n.posts \subseteq v.rows
    PROVE  Import(c)!PreviewsAreOfRequests' /\ Import(c)!ImportsArePreviewed'
<1>1. y11.requests \in Nat /\ y11'.requests \in Nat
  BY DEF Import!ImportInv, Import!TypeOK
<1>2. Import(c)!PreviewsAreOfRequests'
  BY <1>1 DEF Import!ImportInv, Import!PreviewsAreOfRequests, Grows
<1>3. Import(c)!ImportsArePreviewed'
  BY DEF Import!ImportInv, Import!ImportsArePreviewed, Grows
<1> QED BY <1>2, <1>3

(* What was refused stays over. *)
LEMMA RefusedStaysOver ==
    ASSUME NEW CONSTANT c, Import(c)!ImportInv, Import(c)!TypeOK',
           UNCHANGED <<y3, y4, y10>>, NEW n, Grows(c, n),
           y8'.step = "refused" => UNCHANGED y8
    PROVE  Import(c)!RefusedIsOver'
<1>1. y11.requests \in Nat /\ y11'.requests \in Nat
  BY DEF Import!ImportInv, Import!TypeOK
<1>2. \A r : Import(c)!IsOver(r) => Import(c)!IsOver(r)'
  BY DEF Import!IsOver
<1>3. \A r \in Import(c)!Known : r.id \in y10 => Import(c)!IsOver(r)
  BY DEF Import!ImportInv, Import!RefusedIsOver
<1>4. y10 \subseteq 1 .. y11.requests /\ (y8.step = "refused" => Import(c)!IsOver(y8.request))
  BY DEF Import!ImportInv, Import!RefusedIsOver
<1>5. y8'.step = "refused" => Import(c)!IsOver(y8.request)'
  BY <1>2, <1>4
<1>6. \A r \in Import(c)!Known' : r.id \in y10 => r \in Import(c)!Known
  BY <1>1, <1>4 DEF Grows
<1>7. y10' \subseteq 1 .. y11'.requests
  BY <1>1, <1>4 DEF Grows
<1>8. \A r \in Import(c)!Known' : r.id \in y10' => Import(c)!IsOver(r)'
  BY <1>2, <1>3, <1>6
<1> QED BY <1>5, <1>7, <1>8 DEF Import!RefusedIsOver

-----------------------------------------------------------------------------
(* The steps of the server. *)

LEMMA AnsweredIs ==
    ASSUME NEW CONSTANT c, Import(c)!TypeOK, NEW m, NEW step \in {"told", "refused"},
           Import(c)!Answered(m, step)
    PROVE  /\ y8'.request = y8.request /\ y8'.n = y8.n
           /\ \/ y8' = y8
              \/ y8'.step = step /\ y8.step = "wait" /\ y8.n = m.n
BY DEF Import!Answered, Import!TypeOK

LEMMA ServeKeeps ==
    ASSUME NEW CONSTANT c, Import(c)!ImportInv, Import(c)!TypeOK', NEW m \in y6, Import(c)!Serve(m)
    PROVE  Import(c)!ImportInv'
<1> DEFINE r == m.request
<1>1. /\ y6' = y6 \ {m} /\ UNCHANGED <<y1, y2, y7, y9, y10, y11>>
      /\ y3 \subseteq y3' /\ y4 \subseteq y4' /\ y5 \subseteq y5'
  BY DEF Import!Serve, Import!PreviewOf, Import!server
<1>2. r \in Import(c)!Known
  BY DEF Import!Known
<1>3. y4' \subseteq y4 \cup {r}
  BY DEF Import!Serve, Import!server
<1>4. y8'.request = y8.request /\ y8'.n = y8.n
  BY AnsweredIs DEF Import!Serve, Import!ImportInv
<1>5. Import(c)!Known' \subseteq Import(c)!Known
  BY <1>1, <1>2, <1>3, <1>4 DEF Import!Known, Import!NoRequest
<1>6. y8' = y8 \/ (/\ y8.step = "wait" /\ y8.n = m.n /\ y8.request = r
                  /\ y8'.step \in {"told", "refused"})
  BY AnsweredIs DEF Import!Serve, Import!ImportInv, Import!AnswersAreOfOp
<1>7. /\ \A q \in y4 : q.kind = "confirm" /\ {q.owner} \X q.posts \subseteq y5
      /\ y5 \subseteq y9
      /\ y8.step = "told" => \/ y8.request.kind = "preview" /\ \E v \in y3 : v.token = y8.request.id
                             \/ y8.request.kind = "confirm" /\ y8.request \in y4
      /\ \A k \in y6 : k.n <= y11.sends /\ (y8.step = "wait" /\ y8.n = k.n => k.request = y8.request)
  BY DEF Import!ImportInv, Import!AnswersAreOfOp, Import!MarkIsVouched
<1>8. /\ \A q \in Import(c)!Known : q.id \in y10 => Import(c)!IsOver(q)
      /\ y8.step = "refused" => Import(c)!IsOver(y8.request)
      /\ y10 \subseteq 1 .. y11.requests
  BY DEF Import!ImportInv, Import!RefusedIsOver
<1>9. /\ \A q \in Import(c)!Known : q.id \in 1 .. y11.requests
      /\ \A q, k \in Import(c)!Known : q.id = k.id => q = k
  BY DEF Import!ImportInv, Import!RequestsAreTold
<1>10. \A q \in Import(c)!Known : q.kind = "confirm" =>
         /\ {q.owner} \X q.posts \subseteq y9
         /\ \E v \in y3 : v.token = q.token /\ v.owner = q.owner /\ q.posts \subseteq v.rows
  BY DEF Import!ImportInv, Import!ImportsArePreviewed
<1>11. /\ \A v \in y3 : v.token \in 1 .. y11.requests
       /\ \A v, w \in y3 : v.token = w.token => v = w
       /\ \A q \in Import(c)!Known, v \in y3 : v.token = q.id => q.kind = "preview" /\ v.owner = q.owner
  BY DEF Import!ImportInv, Import!PreviewsAreOfRequests
<1>12. Import(c)!RequestsAreTold'
  BY <1>1, <1>5 DEF Import!ImportInv, Import!RequestsAreTold
<1>13. Import(c)!ImportsArePreviewed'
  BY <1>1, <1>5, <1>10 DEF Import!ImportsArePreviewed
<1>14. Import(c)!ScreenIsOfOwner'
  <2>1. y8'.step = "none" <=> y8.step = "none"
    BY <1>6
  <2> QED BY <1>1, <1>4, <2>1 DEF Import!ImportInv, Import!ScreenIsOfOwner, Import!None
<1>15. Import(c)!OwnershipIsOfRows'
  BY <1>1 DEF Import!ImportInv, Import!OwnershipIsOfRows
<1>16. y8.step = "refused" => y8.request \in Import(c)!Known
  BY DEF Import!ImportInv, Import!ScreenIsOfOwner, Import!Known, Import!None
<1> DEFINE Goal == /\ Import(c)!PreviewsAreOfRequests' /\ Import(c)!RefusedIsOver'
                   /\ Import(c)!AnswersAreOfOp' /\ Import(c)!MarkIsVouched'
<1>17. ASSUME /\ r.kind = "preview" /\ Import(c)!PreviewOf(r)
              /\ Import(c)!Answered(m, "told") /\ y4' = y4 /\ y5' = y5
       PROVE  Goal
  <2>1. PICK new : new = [token |-> r.id, owner |-> r.owner, rows |-> r.posts, expired |-> FALSE]
    OBVIOUS
  <2>2. \/ y3' = y3 /\ \E v \in y3 : v.token = r.id
        \/ y3' = y3 \cup {new} /\ \A v \in y3 : v.token # r.id
    BY <1>17, <2>1 DEF Import!PreviewOf
  <2>3. new.token = r.id /\ new.owner = r.owner
    BY <2>1
  <2>4. Import(c)!PreviewsAreOfRequests'
    BY <1>1, <1>2, <1>5, <1>9, <1>11, <1>17, <2>2, <2>3 DEF Import!PreviewsAreOfRequests
  <2>5. ASSUME NEW q \in Import(c)!Known, Import(c)!IsOver(q)
        PROVE  Import(c)!IsOver(q)'
    BY <1>10, <1>17, <2>2, <2>3, <2>5 DEF Import!IsOver
  <2>6. y8' = y8 \/ y8'.step = "told"
    BY <1>17, AnsweredIs DEF Import!ImportInv
  <2>7. Import(c)!RefusedIsOver'
    <3>1. y8'.step = "refused" => Import(c)!IsOver(y8.request)'
      BY <1>8, <1>16, <2>5, <2>6
    <3>2. \A q \in Import(c)!Known' : q.id \in y10 => Import(c)!IsOver(q)'
      BY <1>5, <1>8, <2>5
    <3> QED BY <1>1, <1>4, <1>8, <3>1, <3>2 DEF Import!RefusedIsOver
  <2>8. Import(c)!AnswersAreOfOp'
    BY <1>1, <1>4, <1>6, <1>7, <1>17, <2>2, <2>3, <2>6 DEF Import!AnswersAreOfOp
  <2>9. Import(c)!MarkIsVouched'
    BY <1>1, <1>7, <1>17 DEF Import!MarkIsVouched
  <2> QED BY <2>4, <2>7, <2>8, <2>9
<1>18. ASSUME /\ r.kind = "confirm" /\ (Import(c)!Replays(r) \/ Import(c)!Confirms(r))
              /\ y4' = y4 \cup {r} /\ y5' = y5 \cup ({r.owner} \X r.posts)
              /\ Import(c)!Answered(m, "told") /\ y3' = y3
       PROVE  Goal
  <2>1. ~Import(c)!IsOver(r)
    BY <1>18 DEF Import!IsOver, Import!Replays, Import!Confirms
  <2>2. ASSUME NEW q, Import(c)!IsOver(q)
        PROVE  Import(c)!IsOver(q)'
    BY <1>18, <2>1, <2>2 DEF Import!IsOver
  <2>3. y8' = y8 \/ y8'.step = "told"
    BY <1>18, AnsweredIs DEF Import!ImportInv
  <2>4. Import(c)!RefusedIsOver'
    <3>1. y8'.step = "refused" => Import(c)!IsOver(y8.request)'
      BY <1>8, <2>2, <2>3
    <3>2. \A q \in Import(c)!Known' : q.id \in y10 => Import(c)!IsOver(q)'
      BY <1>5, <1>8, <2>2
    <3> QED BY <1>1, <1>4, <1>8, <3>1, <3>2 DEF Import!RefusedIsOver
  <2>5. Import(c)!PreviewsAreOfRequests'
    BY <1>1, <1>5, <1>11, <1>18 DEF Import!PreviewsAreOfRequests
  <2>6. Import(c)!AnswersAreOfOp'
    <3>1. \A q \in y4' : q.kind = "confirm" /\ {q.owner} \X q.posts \subseteq y5'
      BY <1>7, <1>18
    <3>2. y8'.step = "told" =>
              \/ y8'.request.kind = "preview" /\ \E v \in y3 : v.token = y8'.request.id
              \/ y8'.request.kind = "confirm" /\ y8'.request \in y4'
      <4>1. r.kind = "confirm" /\ r \in y4' /\ y4 \subseteq y4'
        BY <1>18
      <4>2. y8'.step = "told" => y8.step = "told" \/ y8.request = r
        BY <1>6
      <4> QED BY <1>4, <1>7, <4>1, <4>2
    <3> QED BY <1>1, <1>4, <1>7, <1>18, <2>3, <3>1, <3>2 DEF Import!AnswersAreOfOp
  <2>7. Import(c)!MarkIsVouched'
    BY <1>1, <1>2, <1>7, <1>10, <1>18 DEF Import!MarkIsVouched
  <2> QED BY <2>4, <2>5, <2>6, <2>7
<1>19. ASSUME /\ r.kind = "confirm" /\ ~Import(c)!Replays(r) /\ ~Import(c)!Confirms(r)
              /\ Import(c)!Answered(m, "refused") /\ y3' = y3 /\ y4' = y4 /\ y5' = y5
       PROVE  Goal
  <2>1. Import(c)!IsOver(r)
    BY <1>2, <1>10, <1>11, <1>19 DEF Import!IsOver, Import!Replays, Import!Confirms
  <2>2. \A q : Import(c)!IsOver(q) => Import(c)!IsOver(q)'
    BY <1>19 DEF Import!IsOver
  <2>3. y8' = y8 \/ (y8'.step = "refused" /\ y8.request = r)
    <3>1. y8' = y8 \/ y8'.step = "refused"
      BY <1>19, AnsweredIs DEF Import!ImportInv
    <3> QED BY <1>6, <3>1
  <2>4. Import(c)!RefusedIsOver'
    <3>1. y8'.step = "refused" => Import(c)!IsOver(y8.request)'
      <4>1. y8'.step = "refused" => Import(c)!IsOver(y8.request)
        BY <1>8, <2>1, <2>3
      <4>2. PICK q : q = y8.request
        OBVIOUS
      <4>3. q = y8'.request
        BY <1>4, <4>2
      <4> QED BY <2>2, <4>1, <4>2, <4>3
    <3>2. \A q \in Import(c)!Known' : q.id \in y10 => Import(c)!IsOver(q)'
      BY <1>5, <1>8, <2>2
    <3> QED BY <1>1, <1>4, <1>8, <3>1, <3>2 DEF Import!RefusedIsOver
  <2>5. Import(c)!PreviewsAreOfRequests'
    BY <1>1, <1>5, <1>11, <1>19 DEF Import!PreviewsAreOfRequests
  <2>6. Import(c)!AnswersAreOfOp'
    BY <1>1, <1>4, <1>6, <1>7, <1>19, <2>3 DEF Import!AnswersAreOfOp
  <2>7. Import(c)!MarkIsVouched'
    BY <1>1, <1>7, <1>19 DEF Import!MarkIsVouched
  <2> QED BY <2>4, <2>5, <2>6, <2>7
<1>20. Goal
  <2> HIDE DEF Goal
  <2> QED BY <1>17, <1>18, <1>19 DEF Import!Serve, Import!server
<1> QED BY <1>12, <1>13, <1>14, <1>15, <1>20 DEF Import!ImportInv

LEMMA ExpireKeeps ==
    ASSUME NEW CONSTANT c, Import(c)!ImportInv, Import(c)!TypeOK', Import(c)!Expire
    PROVE  Import(c)!ImportInv'
<1>1. /\ y3' = {[v EXCEPT !.expired = TRUE] : v \in y3}
      /\ UNCHANGED <<y4, y5, y6, y7, y8, y9, y10>> /\ y11'.requests = y11.requests
      /\ y11'.sends = y11.sends
  BY DEF Import!Expire, Import!ImportInv, Import!TypeOK
<1>2. \A v \in y3 : v \in [token : Nat, owner : {"none", "me", "other"}, rows : SUBSET c.posts,
                         expired : BOOLEAN]
  BY DEF Import!ImportInv, Import!TypeOK, Import!None, Import!Me, Import!Other
<1>3. ASSUME NEW w \in y3'
      PROVE  \E v \in y3 : /\ w = [v EXCEPT !.expired = TRUE] /\ w.token = v.token
                           /\ w.owner = v.owner /\ w.rows = v.rows /\ w.expired
  BY <1>1, <1>2
<1>4. ASSUME NEW v \in y3
      PROVE  \E w \in y3' : w.token = v.token /\ w.owner = v.owner /\ w.rows = v.rows
  <2>1. [v EXCEPT !.expired = TRUE] \in y3'
    BY <1>1
  <2> QED BY <1>2, <2>1
<1>5. Import(c)!Known' = Import(c)!Known
  BY <1>1 DEF Import!Known, Import!NoRequest
<1>6. Import(c)!RequestsAreTold'
  BY <1>1, <1>5 DEF Import!ImportInv, Import!RequestsAreTold
<1>7. Import(c)!PreviewsAreOfRequests'
  <2>1. /\ \A v \in y3 : v.token \in 1 .. y11.requests
        /\ \A v, w \in y3 : v.token = w.token => v = w
        /\ \A q \in Import(c)!Known, v \in y3 : v.token = q.id => q.kind = "preview" /\ v.owner = q.owner
    BY DEF Import!ImportInv, Import!PreviewsAreOfRequests
  <2>2. \A v \in y3' : v.token \in 1 .. y11'.requests
    BY <1>1, <1>3, <2>1
  <2>3. \A v, w \in y3' : v.token = w.token => v = w
    <3> SUFFICES ASSUME NEW v \in y3', NEW w \in y3', v.token = w.token
                 PROVE  v = w
      OBVIOUS
    <3>1. PICK a \in y3 : v = [a EXCEPT !.expired = TRUE] /\ v.token = a.token
      BY <1>3
    <3>2. PICK b \in y3 : w = [b EXCEPT !.expired = TRUE] /\ w.token = b.token
      BY <1>3
    <3>3. a = b
      BY <2>1, <3>1, <3>2
    <3> QED BY <3>1, <3>2, <3>3
  <2>4. \A q \in Import(c)!Known', v \in y3' : v.token = q.id => q.kind = "preview" /\ v.owner = q.owner
    BY <1>3, <1>5, <2>1
  <2> QED BY <2>2, <2>3, <2>4 DEF Import!PreviewsAreOfRequests
<1>8. Import(c)!ImportsArePreviewed'
  <2> SUFFICES ASSUME NEW q \in Import(c)!Known, q.kind = "confirm"
               PROVE  /\ {q.owner} \X q.posts \subseteq y9
                      /\ \E w \in y3' : w.token = q.token /\ w.owner = q.owner /\ q.posts \subseteq w.rows
    BY <1>1, <1>5 DEF Import!ImportsArePreviewed
  <2>1. /\ {q.owner} \X q.posts \subseteq y9
        /\ \E v \in y3 : v.token = q.token /\ v.owner = q.owner /\ q.posts \subseteq v.rows
    BY DEF Import!ImportInv, Import!ImportsArePreviewed
  <2> QED BY <1>4, <2>1
<1>9. Import(c)!RefusedIsOver'
  <2>1. \A q : Import(c)!IsOver(q) => Import(c)!IsOver(q)'
    BY <1>1, <1>3 DEF Import!IsOver
  <2>2. PICK q : q = y8.request
    OBVIOUS
  <2>3. q = y8'.request /\ y8' = y8
    BY <1>1, <2>2
  <2> QED BY <1>1, <1>5, <2>1, <2>2, <2>3 DEF Import!ImportInv, Import!RefusedIsOver
<1>10. Import(c)!AnswersAreOfOp'
  <2>1. (\E v \in y3 : v.token = y8.request.id) => \E v \in y3' : v.token = y8.request.id
    BY <1>4
  <2> QED BY <1>1, <2>1 DEF Import!ImportInv, Import!AnswersAreOfOp
<1>11. Import(c)!ScreenIsOfOwner'
  BY <1>1 DEF Import!ImportInv, Import!ScreenIsOfOwner
<1>12. Import(c)!OwnershipIsOfRows'
  <2>1. /\ y7.selected \subseteq y7.preview.rows
        /\ y7.preview # Import(c)!NoPreview =>
             \E v \in y3 : v.token = y7.preview.token /\ v.rows = y7.preview.rows /\ v.owner = y7.owner
        /\ y7.ownership => y7.preview # Import(c)!NoPreview /\ ~y7.expired
    BY DEF Import!ImportInv, Import!OwnershipIsOfRows
  <2>2. y7.preview # Import(c)!NoPreview =>
          \E w \in y3' : w.token = y7.preview.token /\ w.rows = y7.preview.rows /\ w.owner = y7.owner
    BY <1>4, <2>1
  <2> QED BY <1>1, <2>1, <2>2 DEF Import!OwnershipIsOfRows, Import!NoPreview
<1>13. Import(c)!MarkIsVouched'
  BY <1>1 DEF Import!ImportInv, Import!MarkIsVouched
<1> QED
  BY <1>6, <1>7, <1>8, <1>9, <1>10, <1>11, <1>12, <1>13 DEF Import!ImportInv

-----------------------------------------------------------------------------
(* The steps of the tab. *)

LEMMA TabKeeps ==
    ASSUME NEW CONSTANT c, Import(c)!ImportInv, Import(c)!TypeOK', NEW n, Grows(c, n),
           y3' = y3, y4' = y4, y5' = y5, y9 \subseteq y9', y10' = y10,
           n.kind = "confirm" =>
               /\ {n.owner} \X n.posts \subseteq y9'
               /\ \E v \in y3 : v.token = n.token /\ v.owner = n.owner /\ n.posts \subseteq v.rows,
           y8'.step = "refused" => y8' = y8,
           Import(c)!AnswersAreOfOp', Import(c)!ScreenIsOfOwner', Import(c)!OwnershipIsOfRows'
    PROVE  Import(c)!ImportInv'
<1>1. Import(c)!RequestsAreTold'
  BY RequestsStayTold DEF Import!ImportInv
<1>2. Import(c)!PreviewsAreOfRequests' /\ Import(c)!ImportsArePreviewed'
  BY ImportsStayPreviewed
<1>3. Import(c)!RefusedIsOver'
  BY RefusedStaysOver
<1>4. Import(c)!MarkIsVouched'
  BY DEF Import!ImportInv, Import!MarkIsVouched
<1> QED BY <1>1, <1>2, <1>3, <1>4 DEF Import!ImportInv

(* A step that sends and asks for nothing new. *)
LEMMA QuietKeeps ==
    ASSUME NEW CONSTANT c, Import(c)!ImportInv, Import(c)!TypeOK',
           y3' = y3, y4' = y4, y5' = y5, y6' = y6, y9' = y9, y10' = y10,
           y11'.requests = y11.requests, y11'.sends = y11.sends,
           y7'.pending \in {Import(c)!NoRequest, y7.pending},
           y8'.request \in {Import(c)!NoRequest, y7.pending},
           y8'.step \in {Import(c)!None, "owner"} \/ y8' = y8,
           Import(c)!ScreenIsOfOwner', Import(c)!OwnershipIsOfRows'
    PROVE  Import(c)!ImportInv'
<1>1. Import(c)!Known' \subseteq Import(c)!Known
  BY DEF Import!Known, Import!NoRequest
<1>2. y11.requests \in Nat
  BY DEF Import!ImportInv, Import!TypeOK
<1>3. PICK n : n = Import(c)!NoRequest
  OBVIOUS
<1>4. Grows(c, n) /\ n.kind # "confirm"
  BY <1>1, <1>2, <1>3 DEF Grows, Import!NoRequest, Import!None
<1>5. Import(c)!AnswersAreOfOp'
  BY DEF Import!ImportInv, Import!AnswersAreOfOp, Import!None
<1> QED BY <1>4, <1>5, TabKeeps DEF Import!None

(* What the tab shows, by its type and what holds of it. *)
LEMMA ScreenHas ==
    ASSUME NEW CONSTANT c, Import(c)!ImportInv
    PROVE  /\ y1 \in {"me", "other"} /\ y11.requests \in Nat /\ y11.sends \in Nat
           /\ y7 \in [owner : {"none", "me", "other"}, locked : BOOLEAN, busy : BOOLEAN,
                      preview : [token : Nat, rows : SUBSET c.posts], selected : SUBSET c.posts,
                      ownership : BOOLEAN, expired : BOOLEAN, pending : Import(c)!RequestType,
                      ack : Import(c)!RequestType]
           /\ y8 \in [step : {"none", "owner", "wait", "told", "refused"},
                      request : Import(c)!RequestType, n : Nat, token : {0}]
           /\ y7.owner = "none" =>
                 /\ y7.preview = Import(c)!NoPreview /\ y7.pending = Import(c)!NoRequest
                 /\ y7.ack = Import(c)!NoRequest
           /\ y7.pending # Import(c)!NoRequest => y7.pending.owner = y7.owner
           /\ y7.ack # Import(c)!NoRequest => y7.ack \in y4 /\ y7.ack.owner = y7.owner
           /\ y8.request = (IF y8.step = "none" THEN Import(c)!NoRequest ELSE y7.pending)
           /\ y8.step # "none" => y7.pending # Import(c)!NoRequest
           /\ y7.selected \subseteq y7.preview.rows
           /\ y7.preview # Import(c)!NoPreview =>
                 \E v \in y3 : v.token = y7.preview.token /\ v.rows = y7.preview.rows
                              /\ v.owner = y7.owner
           /\ y7.ownership => y7.preview # Import(c)!NoPreview /\ ~y7.expired
BY DEF Import!ImportInv, Import!TypeOK, Import!ScreenIsOfOwner, Import!OwnershipIsOfRows,
       Import!None, Import!Me, Import!Other

(* Another account: nothing of the first stays. *)
LEMMA OwnerChanges ==
    ASSUME NEW CONSTANT c, Import(c)!ImportInv, Import(c)!TypeOK',
           y3' = y3, y4' = y4, y5' = y5, y6' = y6, y9' = y9,
           y11'.requests = y11.requests, y11'.sends = y11.sends,
           NEW owner, Import(c)!ChangedOwner(owner)
    PROVE  Import(c)!ImportInv'
<1>1. /\ y7'.preview = Import(c)!NoPreview /\ y7'.pending = Import(c)!NoRequest
      /\ y7'.ack = Import(c)!NoRequest /\ y7'.selected = {} /\ ~y7'.ownership
      /\ y8'.request = Import(c)!NoRequest /\ y8'.step = Import(c)!None /\ y10' = y10
  BY DEF Import!ChangedOwner, Import!InitialView, Import!NoOp
<1>2. Import(c)!ScreenIsOfOwner'
  BY <1>1 DEF Import!ScreenIsOfOwner, Import!NoRequest, Import!NoPreview
<1>3. Import(c)!OwnershipIsOfRows'
  BY <1>1 DEF Import!OwnershipIsOfRows, Import!NoPreview
<1> QED BY <1>1, <1>2, <1>3, QuietKeeps

LEMMA SessionKeeps ==
    ASSUME NEW CONSTANT c, Import(c)!ImportInv, Import(c)!TypeOK',
           Import(c)!RefreshSession \/ Import(c)!Stops
    PROVE  Import(c)!ImportInv'
<1>1. /\ y3' = y3 /\ y4' = y4 /\ y5' = y5 /\ y6' = y6 /\ y9' = y9
      /\ y11'.requests = y11.requests /\ y11'.sends = y11.sends
  BY DEF Import!RefreshSession, Import!Stops, Import!server, Import!ImportInv, Import!TypeOK
<1>2. CASE \E owner : Import(c)!ChangedOwner(owner)
  BY <1>1, <1>2, OwnerChanges
<1>3. CASE /\ y7.owner \in {"none", y1} /\ y8' = Import(c)!NoOp /\ y10' = y10
           /\ y7' = [y7 EXCEPT !.owner = y1, !.locked = FALSE, !.busy = FALSE]
  <2>1. /\ y7'.owner = y1 /\ y7'.preview = y7.preview /\ y7'.pending = y7.pending
        /\ y7'.ack = y7.ack /\ y7'.selected = y7.selected /\ y7'.ownership = y7.ownership
        /\ y7'.expired = y7.expired
        /\ y8'.request = Import(c)!NoRequest /\ y8'.step = "none"
    BY <1>3, ScreenHas DEF Import!NoOp, Import!None
  <2>2. Import(c)!ScreenIsOfOwner'
    BY <1>1, <1>3, <2>1, ScreenHas DEF Import!ScreenIsOfOwner, Import!NoRequest, Import!None
  <2>3. Import(c)!OwnershipIsOfRows'
    BY <1>1, <1>3, <2>1, ScreenHas DEF Import!OwnershipIsOfRows, Import!NoPreview
  <2> QED BY <1>1, <1>3, <2>1, <2>2, <2>3, QuietKeeps DEF Import!None
<1>4. ASSUME NEW signedOut \in BOOLEAN, y8' = Import(c)!NoOp, y10' = y10,
             y7' = [y7 EXCEPT !.busy = FALSE, !.locked = @ \/ signedOut]
      PROVE  Import(c)!ImportInv'
  <2>1. /\ y7'.owner = y7.owner /\ y7'.preview = y7.preview /\ y7'.pending = y7.pending
        /\ y7'.ack = y7.ack /\ y7'.selected = y7.selected /\ y7'.ownership = y7.ownership
        /\ y7'.expired = y7.expired
        /\ y8'.request = Import(c)!NoRequest /\ y8'.step = "none"
    BY <1>4, ScreenHas DEF Import!NoOp, Import!None
  <2>2. Import(c)!ScreenIsOfOwner'
    BY <1>1, <1>4, <2>1, ScreenHas DEF Import!ScreenIsOfOwner, Import!NoRequest, Import!None
  <2>3. Import(c)!OwnershipIsOfRows'
    BY <1>1, <1>4, <2>1, ScreenHas DEF Import!OwnershipIsOfRows, Import!NoPreview
  <2> QED BY <1>1, <1>4, <2>1, <2>2, <2>3, QuietKeeps DEF Import!None
<1> QED
  BY <1>2, <1>3, <1>4 DEF Import!RefreshSession, Import!Stops, Import!None

LEMMA SelectKeeps ==
    ASSUME NEW CONSTANT c, Import(c)!ImportInv, Import(c)!TypeOK',
           \/ \E x \in c.posts : Import(c)!Select(x)
           \/ Import(c)!ConfirmOwnership \/ Import(c)!Retry \/ Import(c)!Switch
    PROVE  Import(c)!ImportInv'
<1>1. /\ y3' = y3 /\ y4' = y4 /\ y5' = y5 /\ y6' = y6 /\ y9' = y9 /\ y10' = y10
      /\ y11'.requests = y11.requests /\ y11'.sends = y11.sends
  BY DEF Import!Select, Import!ConfirmOwnership, Import!Retry, Import!Switch, Import!server,
         Import!ImportInv, Import!TypeOK
<1> DEFINE Stays == /\ y7'.owner = y7.owner /\ y7'.preview = y7.preview
                    /\ y7'.pending = y7.pending /\ y7'.ack = y7.ack
                    /\ y7'.expired = y7.expired /\ y7'.selected \subseteq y7.preview.rows
                    /\ y7'.ownership => y7.preview # Import(c)!NoPreview /\ ~y7.expired
<1>2. Stays
  <2>1. ASSUME NEW x \in c.posts, Import(c)!Select(x) PROVE Stays
    <3>1. y7' = [y7 EXCEPT !.selected = IF x \in @ THEN @ \ {x} ELSE @ \cup {x}]
          /\ x \in y7.preview.rows
      BY <2>1 DEF Import!Select
    <3> QED BY <3>1, ScreenHas
  <2>2. CASE Import(c)!ConfirmOwnership
    BY <2>2, ScreenHas DEF Import!ConfirmOwnership
  <2>3. CASE Import(c)!Retry
    <3>1. y7' = [y7 EXCEPT !.pending = y7.pending, !.busy = TRUE]
      BY <2>3 DEF Import!Retry, Import!Execute
    <3> QED BY <3>1, ScreenHas
  <2>4. CASE Import(c)!Switch
    BY <2>4, ScreenHas DEF Import!Switch
  <2> QED BY <2>1, <2>2, <2>3, <2>4
<1>3. \/ y8' = y8
      \/ /\ y8'.request = y7.pending /\ y8'.step = "owner"
         /\ y7.pending # Import(c)!NoRequest
  BY DEF Import!Select, Import!ConfirmOwnership, Import!Retry, Import!Switch, Import!Execute,
         Import!NoOp
<1>4. Import(c)!ScreenIsOfOwner'
  BY <1>1, <1>2, <1>3, ScreenHas DEF Import!ScreenIsOfOwner, Import!NoRequest, Import!None,
     Import!NoPreview
<1>5. Import(c)!OwnershipIsOfRows'
  BY <1>1, <1>2, ScreenHas DEF Import!OwnershipIsOfRows, Import!NoPreview
<1>6. y8'.request \in {Import(c)!NoRequest, y7.pending}
  BY <1>3, ScreenHas
<1> QED BY <1>1, <1>2, <1>3, <1>4, <1>5, <1>6, QuietKeeps

LEMMA AskKeeps ==
    ASSUME NEW CONSTANT c, Import(c)!ImportInv, Import(c)!TypeOK',
           Import(c)!Preview \/ Import(c)!Confirm
    PROVE  Import(c)!ImportInv'
<1>1. /\ y3' = y3 /\ y4' = y4 /\ y5' = y5 /\ y6' = y6 /\ y10' = y10
  BY DEF Import!Preview, Import!Confirm, Import!server
<1>2. PICK n :
        /\ n.id = y11.requests + 1 /\ n.owner = y7.owner /\ y7.owner # "none"
        /\ \/ n.kind = "preview" /\ y9' = y9
           \/ /\ n.kind = "confirm" /\ n.token = y7.preview.token /\ n.posts = y7.selected
              /\ y7.preview # Import(c)!NoPreview
              /\ y9' = y9 \cup ({y7.owner} \X y7.selected)
        /\ Import(c)!Execute(n)
        /\ y11' = [y11 EXCEPT !.requests = @ + 1]
  <2>1. CASE Import(c)!Preview
    <3>1. PICK n : n = [id |-> y11.requests + 1, kind |-> "preview", owner |-> y7.owner,
                        token |-> 0, posts |-> y2]
      OBVIOUS
    <3>2. Import(c)!Execute(n) /\ y9' = y9 /\ y7.owner # "none"
          /\ y11' = [y11 EXCEPT !.requests = @ + 1]
      BY <2>1, <3>1 DEF Import!Preview, Import!Request, Import!None
    <3> QED BY <3>1, <3>2
  <2>2. CASE Import(c)!Confirm
    <3>1. PICK n : n = [id |-> y11.requests + 1, kind |-> "confirm", owner |-> y7.owner,
                        token |-> y7.preview.token, posts |-> y7.selected]
      OBVIOUS
    <3>2. Import(c)!Execute(n) /\ y7.preview # Import(c)!NoPreview
          /\ y9' = y9 \cup ({y7.owner} \X y7.selected)
          /\ y11' = [y11 EXCEPT !.requests = @ + 1]
      BY <2>2, <3>1 DEF Import!Confirm, Import!Request
    <3>3. y7.owner # "none"
      BY <3>2, ScreenHas
    <3> QED BY <3>1, <3>2, <3>3
  <2> QED BY <2>1, <2>2
<1>3. /\ y7'.owner = y7.owner /\ y7'.preview = y7.preview /\ y7'.pending = n
      /\ y7'.ack = y7.ack /\ y7'.expired = y7.expired /\ y7'.selected = y7.selected
      /\ y7'.ownership = y7.ownership
      /\ y8'.request = n /\ y8'.step = "owner"
  BY <1>2, ScreenHas DEF Import!Execute, Import!NoOp
<1>4. y11'.requests = y11.requests + 1 /\ y11'.sends = y11.sends
  BY <1>2 DEF Import!ImportInv, Import!TypeOK
<1>5. n # Import(c)!NoRequest
  BY <1>2 DEF Import!NoRequest, Import!None
<1>6. Import(c)!Known' \subseteq Import(c)!Known \cup {n}
  BY <1>1, <1>3 DEF Import!Known
<1>7. Grows(c, n)
  BY <1>2, <1>4, <1>6, ScreenHas DEF Grows, Import!None
<1>8. Import(c)!ScreenIsOfOwner'
  BY <1>1, <1>2, <1>3, <1>5, ScreenHas
  DEF Import!ScreenIsOfOwner, Import!NoRequest, Import!NoPreview, Import!None
<1>9. Import(c)!OwnershipIsOfRows'
  BY <1>1, <1>3, ScreenHas DEF Import!OwnershipIsOfRows, Import!NoPreview
<1>10. Import(c)!AnswersAreOfOp'
  BY <1>1, <1>3, <1>4 DEF Import!ImportInv, Import!AnswersAreOfOp
<1>11. n.kind = "confirm" =>
         /\ {n.owner} \X n.posts \subseteq y9'
         /\ \E v \in y3 : v.token = n.token /\ v.owner = n.owner /\ n.posts \subseteq v.rows
  BY <1>2, ScreenHas
<1>12. y9 \subseteq y9' /\ y8'.step # "refused"
  BY <1>2, <1>3
<1> QED BY <1>1, <1>7, <1>8, <1>9, <1>10, <1>11, <1>12, TabKeeps

LEMMA SendKeeps ==
    ASSUME NEW CONSTANT c, Import(c)!ImportInv, Import(c)!TypeOK', Import(c)!Send
    PROVE  Import(c)!ImportInv'
<1>1. /\ y3' = y3 /\ y4' = y4 /\ y5' = y5 /\ y9' = y9 /\ y8.step = "owner"
  BY DEF Import!Send, Import!server
<1>2. CASE Import(c)!ChangedOwner(Import(c)!None) /\ y6' = y6 /\ y11' = y11
  BY <1>1, <1>2, OwnerChanges
<1>3. CASE /\ y6' = y6 \cup {[request |-> y8.request, n |-> y11.sends + 1]}
           /\ y8' = [y8 EXCEPT !.step = "wait", !.n = y11.sends + 1]
           /\ y11' = [y11 EXCEPT !.sends = @ + 1]
           /\ y7' = y7 /\ y10' = y10
  <2>1. /\ y8'.request = y8.request /\ y8'.step = "wait" /\ y8'.n = y11.sends + 1
        /\ y11'.requests = y11.requests /\ y11'.sends = y11.sends + 1
    BY <1>3, ScreenHas DEF Import!ImportInv, Import!TypeOK
  <2>2. y8.request \in Import(c)!Known
    BY <1>1, ScreenHas DEF Import!Known
  <2>3. Import(c)!Known' \subseteq Import(c)!Known
    BY <1>1, <1>3, <2>1, <2>2 DEF Import!Known, Import!NoRequest
  <2>4. PICK n : n = Import(c)!NoRequest
    OBVIOUS
  <2>5. Grows(c, n) /\ n.kind # "confirm"
    BY <2>1, <2>3, <2>4, ScreenHas DEF Grows, Import!NoRequest, Import!None
  <2>6. Import(c)!ScreenIsOfOwner'
    BY <1>1, <1>3, <2>1, ScreenHas
    DEF Import!ScreenIsOfOwner, Import!NoRequest, Import!NoPreview, Import!None
  <2>7. Import(c)!OwnershipIsOfRows'
    BY <1>1, <1>3, ScreenHas DEF Import!OwnershipIsOfRows, Import!NoPreview
  <2>8. Import(c)!AnswersAreOfOp'
    <3>1. \A k \in y6 : k.n \in Nat /\ k.n <= y11.sends
      BY DEF Import!ImportInv, Import!AnswersAreOfOp, Import!TypeOK
    <3>2. \A k \in y6' : \/ k.n \in Nat /\ k.n <= y11.sends
                         \/ k.n = y11.sends + 1 /\ k.request = y8.request
      BY <1>3, <3>1
    <3>3. \A k \in y6' : /\ k.n <= y11'.sends
                         /\ y8'.n = k.n => k.request = y8'.request
      BY <2>1, <3>2, ScreenHas
    <3> QED BY <1>1, <2>1, <3>3 DEF Import!ImportInv, Import!AnswersAreOfOp
  <2> QED BY <1>1, <1>3, <2>1, <2>5, <2>6, <2>7, <2>8, TabKeeps
<1> QED BY <1>2, <1>3 DEF Import!Send

LEMMA ToldKeeps ==
    ASSUME NEW CONSTANT c, Import(c)!ImportInv, Import(c)!TypeOK', Import(c)!Told
    PROVE  Import(c)!ImportInv'
<1>1. /\ y3' = y3 /\ y4' = y4 /\ y5' = y5 /\ y6' = y6 /\ y9' = y9 /\ y11' = y11
      /\ y8.step = "told"
  BY DEF Import!Told, Import!server
<1>2. /\ y8.request = y7.pending /\ y8.request # Import(c)!NoRequest
      /\ y8.request \in Import(c)!Known /\ y8.request.owner = y7.owner /\ y7.owner # "none"
  BY <1>1, ScreenHas DEF Import!Known
<1>3. \/ y8.request.kind = "preview" /\ \E v \in y3 : v.token = y8.request.id
      \/ y8.request.kind = "confirm" /\ y8.request \in y4
  BY <1>1 DEF Import!ImportInv, Import!AnswersAreOfOp
<1>4. CASE Import(c)!ChangedOwner(Import(c)!None)
  BY <1>1, <1>4, OwnerChanges
<1>5. CASE /\ y8.request.kind = "preview" /\ Import(c)!Previewed(y8.request)
           /\ y8' = Import(c)!NoOp /\ y10' = y10
  <2>1. PICK v \in y3 :
          /\ v.token = y8.request.id
          /\ y7' = [y7 EXCEPT !.busy = FALSE, !.pending = Import(c)!NoRequest,
                              !.ack = Import(c)!NoRequest,
                              !.preview = [token |-> v.token, rows |-> v.rows],
                              !.expired = FALSE, !.ownership = FALSE,
                              !.selected = @ \cap v.rows]
    BY <1>3, <1>5 DEF Import!Previewed
  <2>2. v.owner = y7.owner
    BY <1>2, <2>1 DEF Import!ImportInv, Import!PreviewsAreOfRequests
  <2>3. /\ y7'.owner = y7.owner /\ y7'.preview = [token |-> v.token, rows |-> v.rows]
        /\ y7'.pending = Import(c)!NoRequest /\ y7'.ack = Import(c)!NoRequest
        /\ y7'.selected \subseteq v.rows /\ y7'.ownership = FALSE
        /\ y8'.request = Import(c)!NoRequest /\ y8'.step = "none"
    BY <1>5, <2>1, ScreenHas DEF Import!NoOp, Import!None
  <2>4. Import(c)!ScreenIsOfOwner'
    BY <1>1, <1>2, <2>3
    DEF Import!ScreenIsOfOwner, Import!NoRequest, Import!NoPreview, Import!None
  <2>5. Import(c)!OwnershipIsOfRows'
    BY <1>1, <2>2, <2>3 DEF Import!OwnershipIsOfRows
  <2> QED BY SMTT(60), <1>1, <1>5, <2>3, <2>4, <2>5, QuietKeeps DEF Import!None
<1>6. CASE /\ y8.request.kind # "preview"
           /\ y7' = [y7 EXCEPT !.busy = FALSE, !.pending = Import(c)!NoRequest, !.ack = y8.request]
           /\ y8' = Import(c)!NoOp /\ y10' = y10
  <2>1. /\ y7'.owner = y7.owner /\ y7'.preview = y7.preview
        /\ y7'.pending = Import(c)!NoRequest /\ y7'.ack = y8.request
        /\ y7'.selected = y7.selected /\ y7'.ownership = y7.ownership
        /\ y7'.expired = y7.expired
        /\ y8'.request = Import(c)!NoRequest /\ y8'.step = "none"
    BY <1>6, ScreenHas DEF Import!NoOp, Import!None
  <2>2. Import(c)!ScreenIsOfOwner'
    BY <1>1, <1>2, <1>3, <1>6, <2>1
    DEF Import!ScreenIsOfOwner, Import!NoRequest, Import!NoPreview, Import!None
  <2>3. Import(c)!OwnershipIsOfRows'
    BY <1>1, <2>1, ScreenHas DEF Import!OwnershipIsOfRows, Import!NoPreview
  <2> QED BY <1>1, <1>6, <2>1, <2>2, <2>3, QuietKeeps DEF Import!None
<1> QED BY <1>4, <1>5, <1>6 DEF Import!Told

LEMMA RefusedKeeps ==
    ASSUME NEW CONSTANT c, Import(c)!ImportInv, Import(c)!TypeOK', Import(c)!Refused
    PROVE  Import(c)!ImportInv'
<1>1. /\ y3' = y3 /\ y4' = y4 /\ y5' = y5 /\ y6' = y6 /\ y9' = y9 /\ y11' = y11
      /\ y8.step = "refused" /\ y8' = Import(c)!NoOp /\ y10' = y10 \cup {y8.request.id}
  BY DEF Import!Refused, Import!server
<1>2. /\ y7'.owner = y7.owner /\ y7'.preview = y7.preview
      /\ y7'.pending = Import(c)!NoRequest /\ y7'.ack = y7.ack
      /\ y7'.selected = y7.selected /\ y7'.ownership = FALSE
      /\ y8'.request = Import(c)!NoRequest /\ y8'.step = "none"
  BY <1>1, ScreenHas DEF Import!Refused, Import!NoOp, Import!None
<1>3. PICK r : r = y8.request /\ r \in Import(c)!Known /\ Import(c)!IsOver(r)
  BY <1>1, ScreenHas DEF Import!Known, Import!ImportInv, Import!RefusedIsOver
<1>4. Import(c)!Known' \subseteq Import(c)!Known
  BY <1>1, <1>2 DEF Import!Known, Import!NoRequest
<1>5. Import(c)!RequestsAreTold'
  BY <1>1, <1>4 DEF Import!ImportInv, Import!RequestsAreTold
<1>6. Import(c)!PreviewsAreOfRequests'
  BY <1>1, <1>4 DEF Import!ImportInv, Import!PreviewsAreOfRequests
<1>7. Import(c)!ImportsArePreviewed'
  BY <1>1, <1>4 DEF Import!ImportInv, Import!ImportsArePreviewed
<1>8. Import(c)!RefusedIsOver'
  <2>1. \A q : Import(c)!IsOver(q) => Import(c)!IsOver(q)'
    BY <1>1 DEF Import!IsOver
  <2>2. \A q \in Import(c)!Known : q.id \in y10' => Import(c)!IsOver(q)
    BY <1>1, <1>3 DEF Import!ImportInv, Import!RefusedIsOver, Import!RequestsAreTold
  <2>3. y10' \subseteq 1 .. y11'.requests
    BY <1>1, <1>3 DEF Import!ImportInv, Import!RefusedIsOver, Import!RequestsAreTold
  <2>4. \A q \in Import(c)!Known' : q.id \in y10' => Import(c)!IsOver(q)'
    BY <1>4, <2>1, <2>2
  <2> QED BY <1>2, <2>3, <2>4 DEF Import!RefusedIsOver
<1>9. Import(c)!AnswersAreOfOp'
  BY <1>1, <1>2 DEF Import!ImportInv, Import!AnswersAreOfOp
<1>10. Import(c)!ScreenIsOfOwner'
  BY <1>1, <1>2, ScreenHas
  DEF Import!ScreenIsOfOwner, Import!NoRequest, Import!NoPreview, Import!None
<1>11. Import(c)!OwnershipIsOfRows'
  BY <1>1, <1>2, ScreenHas DEF Import!OwnershipIsOfRows, Import!NoPreview
<1>12. Import(c)!MarkIsVouched'
  BY <1>1 DEF Import!ImportInv, Import!MarkIsVouched
<1> QED
  BY <1>5, <1>6, <1>7, <1>8, <1>9, <1>10, <1>11, <1>12 DEF Import!ImportInv

-----------------------------------------------------------------------------
LEMMA ImportStart ==
    ASSUME NEW CONSTANT c, Import(c)!Init
    PROVE  Import(c)!ImportInv
<1> USE DEF Import!Init, Import!NoRequest, Import!NoOp, Import!NoPreview, Import!InitialView,
            Import!None, Import!Me, Import!Other
<1>1. Import(c)!TypeOK
  BY DEF Import!TypeOK, Import!RequestType
<1>2. Import(c)!Known = {}
  BY DEF Import!Known
<1>3. Import(c)!RequestsAreTold /\ Import(c)!PreviewsAreOfRequests /\ Import(c)!ImportsArePreviewed
  BY <1>2 DEF Import!RequestsAreTold, Import!PreviewsAreOfRequests, Import!ImportsArePreviewed
<1>4. Import(c)!RefusedIsOver /\ Import(c)!AnswersAreOfOp
  BY <1>2 DEF Import!RefusedIsOver, Import!AnswersAreOfOp
<1>5. Import(c)!ScreenIsOfOwner
  BY DEF Import!ScreenIsOfOwner
<1>6. Import(c)!MarkIsVouched /\ Import(c)!OwnershipIsOfRows
  BY DEF Import!MarkIsVouched, Import!OwnershipIsOfRows
<1> QED BY <1>1, <1>3, <1>4, <1>5, <1>6 DEF Import!ImportInv

LEMMA ImportSame ==
    ASSUME NEW CONSTANT c, Import(c)!ImportInv, UNCHANGED Import(c)!vars
    PROVE  Import(c)!ImportInv'
<1>1. /\ y1' = y1 /\ y2' = y2 /\ y3' = y3 /\ y4' = y4 /\ y5' = y5 /\ y6' = y6
      /\ y7' = y7 /\ y8' = y8 /\ y9' = y9 /\ y10' = y10 /\ y11' = y11
  BY DEF Import!vars
<1>2. Import(c)!TypeOK' /\ Import(c)!ScreenIsOfOwner' /\ Import(c)!OwnershipIsOfRows'
  BY <1>1
  DEF Import!ImportInv, Import!TypeOK, Import!ScreenIsOfOwner, Import!OwnershipIsOfRows
<1>3. y8.step # "refused" \/ y8' = y8
  BY <1>1
<1> QED
  BY <1>1, <1>2 DEF Import!ImportInv, Import!RequestsAreTold, Import!Known,
  Import!PreviewsAreOfRequests, Import!ImportsArePreviewed, Import!RefusedIsOver, Import!IsOver,
  Import!AnswersAreOfOp, Import!MarkIsVouched

LEMMA ImportStep ==
    ASSUME NEW CONSTANT c, Import(c)!ImportInv, [Import(c)!Next]_(Import(c)!vars)
    PROVE  Import(c)!ImportInv'
<1>1. CASE UNCHANGED Import(c)!vars
  BY <1>1, ImportSame
<1>2. CASE Import(c)!Next
  <2>1. Import(c)!TypeOK'
    BY <1>2, ImportTyped
  <2> QED
    BY <1>2, <2>1, ServeKeeps, ExpireKeeps, SessionKeeps, SelectKeeps, AskKeeps, SendKeeps,
       ToldKeeps, RefusedKeeps
    DEF Import!Next
<1> QED BY <1>1, <1>2

LEMMA ImportInvSuffices ==
    ASSUME NEW CONSTANT c, Import(c)!ImportInv
    PROVE  Import(c)!ImportIsMeant
<1>1. Import(c)!EndedAsTold
  <2>1. y7.ack # Import(c)!NoRequest => y7.ack \in y4 /\ {y7.owner} \X y7.ack.posts \subseteq y5
    BY ScreenHas DEF Import!ImportInv, Import!AnswersAreOfOp
  <2>2. \A r \in y4 : r.id \notin y10
    BY DEF Import!ImportInv, Import!RefusedIsOver, Import!IsOver, Import!Known
  <2> QED BY <2>1, <2>2 DEF Import!EndedAsTold
<1> QED BY <1>1 DEF Import!ImportInv, Import!ImportIsMeant

(* Whatever the postings and bounds, an imported mark is one its applicant    *)
(* selected and vouched for, of the rows the preview showed, and the import   *)
(* ended as the tab says (import/control.ts, imports.ts).                     *)
THEOREM ImportAlwaysMeant ==
    ASSUME NEW CONSTANT c
    PROVE  Import(c)!Spec => []Import(c)!ImportIsMeant
<1>1. Import(c)!Init => Import(c)!ImportInv
  BY ImportStart
<1>2. Import(c)!ImportInv /\ [Import(c)!Next]_(Import(c)!vars) => Import(c)!ImportInv'
  BY ImportStep
<1>3. Import(c)!ImportInv => Import(c)!ImportIsMeant
  BY ImportInvSuffices
<1> QED BY <1>1, <1>2, <1>3, PTL DEF Import!Spec

-----------------------------------------------------------------------------
(* Mirror *)

(* The last of some ids is one, and no other is greater. *)
LEMMA LastIs ==
    ASSUME NEW CONSTANT c, c.ids \in Nat, NEW S \in SUBSET Copy(c)!Ids
    PROVE  Copy(c)!Last(S) \in Nat /\ \A n \in S : n <= Copy(c)!Last(S)
<1> DEFINE From(n) == c.ids - n
<1>1. CASE S = {}
  BY <1>1 DEF Copy!Last
<1>2. CASE S # {}
  <2> DEFINE Rests == {From(n) : n \in S}
  <2>1. Rests \subseteq Nat /\ Rests # {}
    BY <1>2 DEF Copy!Ids
  <2>2. PICK m \in Rests : \A k \in Rests : <<k, m>> \notin OpToRel(<, Nat)
    BY <2>1, NatLessThanWellFounded, WFMin
  <2>3. \A k \in Rests : ~(k < m)
    BY <2>1, <2>2, Zenon DEF OpToRel
  <2>4. PICK x \in S : m = From(x)
    BY <2>2
  <2>5. \A y \in S : y <= x
    BY <2>3, <2>4 DEF Copy!Ids
  <2> QED BY <1>2, <2>5 DEF Copy!Last, Copy!Ids
<1> QED BY <1>1, <1>2

LEMMA NothingTyped ==
    ASSUME NEW CONSTANT c, Copy(c)!MirrorAssumption
    PROVE  /\ Copy(c)!NoRows \in Copy(c)!Rows /\ Copy(c)!NoDb \in Copy(c)!Databases
           /\ Copy(c)!In(Copy(c)!NoRows) = {} /\ Copy(c)!Sources(Copy(c)!NoRows) = {}
           /\ Copy(c)!NoDb.rows = Copy(c)!NoRows /\ Copy(c)!NoDb.sent = Copy(c)!NoRows
<1>1. Copy(c)!NoRows \in Copy(c)!Rows
  BY DEF Copy!NoRows, Copy!Rows, Copy!Posts
<1> QED BY <1>1 DEF Copy!NoRows, Copy!NoDb, Copy!Databases, Copy!In, Copy!Sources

(* What is written into rows. *)
LEMMA PostPut ==
    ASSUME NEW CONSTANT c, NEW r \in Copy(c)!Rows, NEW id \in Copy(c)!Ids,
           NEW p \in Copy(c)!Posts, p # Copy(c)!NoPost
    PROVE  LET q == [r EXCEPT !.posts[id] = p]
           IN /\ q \in Copy(c)!Rows /\ q.src = r.src
              /\ q.posts = [r.posts EXCEPT ![id] = p]
              /\ Copy(c)!In(q) = Copy(c)!In(r) \cup {id}
BY DEF Copy!Rows, Copy!In

LEMMA SourcePut ==
    ASSUME NEW CONSTANT c, NEW r \in Copy(c)!Rows, NEW s \in Copy(c)!Ids,
           NEW id \in Copy(c)!Ids
    PROVE  LET q == [r EXCEPT !.src[s] = id]
           IN /\ q \in Copy(c)!Rows /\ q.posts = r.posts
              /\ q.src = [r.src EXCEPT ![s] = id]
              /\ Copy(c)!In(q) = Copy(c)!In(r)
              /\ Copy(c)!Sources(q) = Copy(c)!Sources(r) \cup {s}
              /\ Copy(c)!Parented(r) /\ id \in Copy(c)!In(r) => Copy(c)!Parented(q)
<1> DEFINE q == [r EXCEPT !.src[s] = id]
<1>1. /\ q \in Copy(c)!Rows /\ q.posts = r.posts /\ q.src = [r.src EXCEPT ![s] = id]
  BY DEF Copy!Rows, Copy!Ids
<1>2. \A x \in Copy(c)!Ids : q.src[x] = IF x = s THEN id ELSE r.src[x]
  BY <1>1 DEF Copy!Rows
<1>3. id # 0
  BY DEF Copy!Ids
<1>4. Copy(c)!In(q) = Copy(c)!In(r)
  BY <1>1 DEF Copy!In
<1>5. Copy(c)!Sources(q) = Copy(c)!Sources(r) \cup {s}
  BY <1>2, <1>3 DEF Copy!Sources
<1>6. ASSUME Copy(c)!Parented(r), id \in Copy(c)!In(r) PROVE Copy(c)!Parented(q)
  BY <1>2, <1>3, <1>4, <1>6 DEF Copy!Parented, Copy!Sources
<1> QED BY <1>1, <1>4, <1>5, <1>6

(* What the invariant says of the rows, for the actions that change them. *)
LEMMA CopyHas ==
    ASSUME NEW CONSTANT c, Copy(c)!MirrorInv
    PROVE  /\ y1 \in Copy(c)!Databases /\ y2 \in Copy(c)!Databases /\ y3 \in Copy(c)!Rows
           /\ y1.rows \in Copy(c)!Rows /\ y1.sent \in Copy(c)!Rows
           /\ y2.rows \in Copy(c)!Rows /\ y2.sent \in Copy(c)!Rows
           /\ Copy(c)!Keyed(y1.rows) /\ Copy(c)!Keyed(y2.rows) /\ Copy(c)!Keyed(y3)
           /\ y6 \subseteq {"key"} /\ y5 \subseteq Copy(c)!Ids
           /\ y7.jobs \in Nat
           /\ y7 \in [changes : Nat, jobs : 0..c.jobs, failures : Nat, runners : Nat, caches : Nat]
           /\ Copy(c)!Parented(y1.rows) /\ Copy(c)!Parented(y2.rows) /\ Copy(c)!Parented(y3)
BY DEF Copy!MirrorInv, Copy!TypeOK, Copy!Accounted, Copy!Databases

LEMMA BeginKeeps ==
    ASSUME NEW CONSTANT c, Copy(c)!MirrorAssumption, Copy(c)!MirrorInv, Copy(c)!Begin
    PROVE  Copy(c)!MirrorInv'
<1> DEFINE ended == Copy(c)!In(y3) \cup Copy(c)!Sources(y3)
<1>1. /\ y2' = y2 /\ y3' = y3 /\ y5' = y5 /\ y6' = y6 /\ y4' = "cycle"
      /\ y7' = [y7 EXCEPT !.jobs = @ + 1] /\ y7.jobs < c.jobs
      /\ y1' = IF Copy(c)!IsCurrent THEN y2 ELSE Copy(c)!Pulled
  BY DEF Copy!Begin
<1>2. Copy(c)!Last(ended) \in Nat /\ \A n \in ended : n <= Copy(c)!Last(ended)
  BY LastIs DEF Copy!In, Copy!Sources, Copy!MirrorAssumption
<1>3. /\ Copy(c)!Pulled \in Copy(c)!Databases
      /\ Copy(c)!Pulled.rows = y3 /\ Copy(c)!In(Copy(c)!Pulled.sent) = {}
      /\ Copy(c)!Pulled.last = Copy(c)!Last(ended)
  BY <1>2, CopyHas, NothingTyped DEF Copy!Pulled, Copy!Databases
<1>4. Copy(c)!Accounted(Copy(c)!Pulled)
  BY <1>2, <1>3, CopyHas DEF Copy!Accounted, Copy!In, Copy!Ids
<1>5. /\ y1' \in Copy(c)!Databases /\ Copy(c)!Keyed(y1'.rows)
      /\ Copy(c)!Accounted(y1')
      /\ Copy(c)!In(y2.rows) \cap Copy(c)!In(y2.sent) \subseteq Copy(c)!In(y1'.rows)
  BY <1>1, <1>3, <1>4, CopyHas DEF Copy!MirrorInv, Copy!Accounted
<1>6. Copy(c)!TypeOK'
  BY <1>1, <1>5, CopyHas DEF Copy!MirrorInv, Copy!TypeOK, Copy!MirrorAssumption
<1>7. Copy(c)!Pushed'
  BY <1>1, <1>5 DEF Copy!Pushed
<1>8. PICK d : d = y1'
  OBVIOUS
<1> QED BY <1>1, <1>5, <1>6, <1>7, <1>8 DEF Copy!MirrorInv, Copy!Accounted

(* A change of the cycle keeps the invariant when it only adds to the rows. *)
LEMMA ChangeKeeps ==
    ASSUME NEW CONSTANT c, Copy(c)!MirrorAssumption, Copy(c)!MirrorInv,
           y4 = "cycle", UNCHANGED <<y2, y3, y4, y5, y6>>,
           y7' = [y7 EXCEPT !.changes = @ + 1],
           NEW d \in Copy(c)!Databases, y1' = d, d.sent = y1.sent,
           Copy(c)!Keyed(d.rows), Copy(c)!Parented(d.rows),
           Copy(c)!In(y1.rows) \subseteq Copy(c)!In(d.rows),
           Copy(c)!In(d.rows) \subseteq 1..d.last, y1.last <= d.last,
           Copy(c)!In(d.rows) \cap (1..y1.last) \subseteq Copy(c)!In(y1.rows)
    PROVE  Copy(c)!MirrorInv'
<1>1. Copy(c)!TypeOK'
  BY CopyHas DEF Copy!MirrorInv, Copy!TypeOK
<1>2. y1.last \in Nat /\ d.last \in Nat
  BY CopyHas DEF Copy!Databases
<1>3. Copy(c)!Accounted(d)
  BY <1>2 DEF Copy!MirrorInv, Copy!Accounted
<1>4. Copy(c)!Pushed'
  BY DEF Copy!MirrorInv, Copy!Pushed
<1>5. Copy(c)!Accounted(y1)' /\ Copy(c)!Accounted(y2)'
  BY <1>3 DEF Copy!MirrorInv, Copy!Accounted
<1> QED BY <1>1, <1>4, <1>5 DEF Copy!MirrorInv

LEMMA InsertKeeps ==
    ASSUME NEW CONSTANT c, Copy(c)!MirrorAssumption, Copy(c)!MirrorInv,
           NEW k \in c.keys, NEW v \in c.values, Copy(c)!Insert(k, v)
    PROVE  Copy(c)!MirrorInv'
<1> DEFINE id == y1.last + 1
           post == [key |-> k, value |-> v]
           put == [y1.rows EXCEPT !.posts[id] = post]
           both == [put EXCEPT !.src[id] = id]
           rows == [both EXCEPT !.gen = y7.jobs]
           d == [y1 EXCEPT !.last = id, !.rows = rows]
<1>1. y1.last \in Nat /\ id = y1.last + 1 /\ id \in Copy(c)!Ids
  BY CopyHas DEF Copy!Insert, Copy!Databases, Copy!Ids, Copy!MirrorAssumption
<1>2. post \in Copy(c)!Posts /\ post # Copy(c)!NoPost /\ post.key = k
  BY DEF Copy!Posts, Copy!NoPost, Copy!MirrorAssumption
<1>3. y1' = d /\ y4 = "cycle" /\ UNCHANGED <<y2, y3, y4, y5, y6>>
      /\ y7' = [y7 EXCEPT !.changes = @ + 1]
  BY CopyHas DEF Copy!Insert, Copy!Databases, Copy!Rows
<1> HIDE DEF id, post
<1>4. /\ put \in Copy(c)!Rows /\ put.posts = [y1.rows.posts EXCEPT ![id] = post]
      /\ put.src = y1.rows.src
      /\ Copy(c)!In(put) = Copy(c)!In(y1.rows) \cup {id}
  BY SMTT(60), <1>1, <1>2, PostPut, CopyHas
<1> HIDE DEF put
<1>5. /\ both \in Copy(c)!Rows /\ both.posts = put.posts
      /\ Copy(c)!In(both) = Copy(c)!In(y1.rows) \cup {id}
      /\ Copy(c)!Parented(put) => Copy(c)!Parented(both)
  BY SMTT(60), <1>1, <1>4, SourcePut
<1>6. Copy(c)!Parented(put)
  BY <1>4, CopyHas DEF Copy!Parented, Copy!Sources
<1>7. /\ rows \in Copy(c)!Rows /\ rows.posts = put.posts
      /\ Copy(c)!In(rows) = Copy(c)!In(y1.rows) \cup {id} /\ Copy(c)!Parented(rows)
  BY <1>5, <1>6, CopyHas DEF Copy!Rows, Copy!In, Copy!Parented, Copy!Sources
<1> HIDE DEF rows
<1>8. Copy(c)!In(y1.rows) \cup Copy(c)!In(y1.sent) \subseteq 1..y1.last
  BY DEF Copy!MirrorInv, Copy!Accounted
<1>9. Copy(c)!Keyed(rows)
  <2>0. \A j \in Copy(c)!In(y1.rows) : j # id /\ j \in Copy(c)!Ids
    BY <1>1, <1>8 DEF Copy!In
  <2>1. \A j \in Copy(c)!In(y1.rows) : rows.posts[j] = y1.rows.posts[j]
    BY <1>4, <1>7, <2>0, CopyHas DEF Copy!Rows
  <2>2. \A j \in Copy(c)!In(y1.rows) : rows.posts[j].key # k
    BY <2>1 DEF Copy!Insert, Copy!Free
  <2>3. rows.posts[id].key = k
    BY <1>1, <1>2, <1>4, <1>7, CopyHas DEF Copy!Rows
  <2> QED BY <1>7, <2>1, <2>2, <2>3, CopyHas DEF Copy!Keyed
<1>10. /\ d \in Copy(c)!Databases /\ d.rows = rows /\ d.sent = y1.sent /\ d.last = id
  <2>1. rows \in Copy(c)!Rows /\ id \in Nat
    BY <1>1, <1>7
  <2> QED BY <2>1, CopyHas DEF Copy!Databases
<1>11. Copy(c)!In(rows) \subseteq 1..id /\ Copy(c)!In(rows) \cap (1..y1.last) \subseteq Copy(c)!In(y1.rows)
  BY <1>1, <1>7, <1>8
<1> HIDE DEF d
<1>12. y1.last <= id
  BY <1>1
<1> QED BY <1>7, <1>3, <1>9, <1>10, <1>11, <1>12, ChangeKeeps

(* What Rekey, Alter and MoveSource do. *)
LEMMA ChangesKeep ==
    ASSUME NEW CONSTANT c, Copy(c)!MirrorAssumption, Copy(c)!MirrorInv,
           NEW rows \in Copy(c)!Rows, Copy(c)!Changes(rows),
           Copy(c)!In(rows) = Copy(c)!In(y1.rows), Copy(c)!Keyed(rows), Copy(c)!Parented(rows)
    PROVE  Copy(c)!MirrorInv'
<1> DEFINE now == [rows EXCEPT !.gen = y7.jobs]
           d == [y1 EXCEPT !.rows = now]
<1>1. /\ now \in Copy(c)!Rows /\ Copy(c)!In(now) = Copy(c)!In(y1.rows)
      /\ Copy(c)!Keyed(now) /\ Copy(c)!Parented(now)
  BY CopyHas DEF Copy!Rows, Copy!In, Copy!Keyed, Copy!Parented, Copy!Sources
<1>2. /\ d \in Copy(c)!Databases /\ d.rows = now /\ d.sent = y1.sent
      /\ d.last = y1.last /\ y1.last \in Nat
  BY <1>1, CopyHas DEF Copy!Databases
<1>3. y1' = d /\ y4 = "cycle" /\ UNCHANGED <<y2, y3, y4, y5, y6>>
      /\ y7' = [y7 EXCEPT !.changes = @ + 1]
  BY DEF Copy!Changes
<1>4. Copy(c)!In(now) \subseteq 1..y1.last
  BY <1>1 DEF Copy!MirrorInv, Copy!Accounted
<1> HIDE DEF d, now
<1> QED BY <1>1, <1>2, <1>3, <1>4, ChangeKeeps

LEMMA RekeyKeeps ==
    ASSUME NEW CONSTANT c, Copy(c)!MirrorAssumption, Copy(c)!MirrorInv,
           NEW id \in Copy(c)!Ids, NEW k \in c.keys, Copy(c)!Rekey(id, k)
    PROVE  Copy(c)!MirrorInv'
<1> DEFINE post == [y1.rows.posts[id] EXCEPT !.key = k]
           rows == [y1.rows EXCEPT !.posts[id] = post]
<1>1. id \in Copy(c)!In(y1.rows) /\ y1.rows.posts \in [Copy(c)!Ids -> Copy(c)!Posts]
  BY CopyHas DEF Copy!Rekey, Copy!Rows
<1>2. y1.rows.posts[id] \in [key : c.keys, value : c.values]
  BY <1>1 DEF Copy!In, Copy!Posts
<1>3. post \in Copy(c)!Posts /\ post # Copy(c)!NoPost /\ post.key = k
  BY <1>2 DEF Copy!Posts, Copy!NoPost, Copy!MirrorAssumption
<1>4. Copy(c)!Changes(rows)
  BY DEF Copy!Rekey
<1> HIDE DEF post
<1>5. /\ rows \in Copy(c)!Rows /\ rows.posts = [y1.rows.posts EXCEPT ![id] = post]
      /\ rows.src = y1.rows.src /\ Copy(c)!In(rows) = Copy(c)!In(y1.rows)
  <2>1. /\ rows \in Copy(c)!Rows /\ rows.src = y1.rows.src
        /\ rows.posts = [y1.rows.posts EXCEPT ![id] = post]
        /\ Copy(c)!In(rows) = Copy(c)!In(y1.rows) \cup {id}
    BY SMTT(60), <1>3, PostPut, CopyHas
  <2> QED BY <1>1, <2>1
<1> HIDE DEF rows
<1>6. Copy(c)!Keyed(rows)
  <2>1. \A j \in Copy(c)!In(y1.rows) : j # id => rows.posts[j] = y1.rows.posts[j]
    BY <1>1, <1>5 DEF Copy!In
  <2>2. \A j \in Copy(c)!In(y1.rows) : y1.rows.posts[j].key # k
    BY DEF Copy!Rekey, Copy!Free
  <2>3. rows.posts[id].key = k
    BY <1>1, <1>3, <1>5
  <2> QED BY <1>5, <2>1, <2>2, <2>3, CopyHas DEF Copy!Keyed
<1>7. Copy(c)!Parented(rows)
  BY <1>5, CopyHas DEF Copy!Parented, Copy!Sources
<1> QED BY <1>4, <1>5, <1>6, <1>7, ChangesKeep

LEMMA AlterKeeps ==
    ASSUME NEW CONSTANT c, Copy(c)!MirrorAssumption, Copy(c)!MirrorInv,
           NEW id \in Copy(c)!Ids, NEW v \in c.values, Copy(c)!Alter(id, v)
    PROVE  Copy(c)!MirrorInv'
<1> DEFINE post == [y1.rows.posts[id] EXCEPT !.value = v]
           rows == [y1.rows EXCEPT !.posts[id] = post]
<1>1. id \in Copy(c)!In(y1.rows) /\ y1.rows.posts \in [Copy(c)!Ids -> Copy(c)!Posts]
  BY CopyHas DEF Copy!Alter, Copy!Rows
<1>2. y1.rows.posts[id] \in [key : c.keys, value : c.values]
  BY <1>1 DEF Copy!In, Copy!Posts
<1>3. /\ post \in Copy(c)!Posts /\ post # Copy(c)!NoPost
      /\ post.key = y1.rows.posts[id].key
  BY <1>2 DEF Copy!Posts, Copy!NoPost, Copy!MirrorAssumption
<1>4. Copy(c)!Changes(rows)
  BY DEF Copy!Alter
<1> HIDE DEF post
<1>5. /\ rows \in Copy(c)!Rows /\ rows.posts = [y1.rows.posts EXCEPT ![id] = post]
      /\ rows.src = y1.rows.src /\ Copy(c)!In(rows) = Copy(c)!In(y1.rows)
  <2>1. /\ rows \in Copy(c)!Rows /\ rows.src = y1.rows.src
        /\ rows.posts = [y1.rows.posts EXCEPT ![id] = post]
        /\ Copy(c)!In(rows) = Copy(c)!In(y1.rows) \cup {id}
    BY <1>3, PostPut, CopyHas
  <2> QED BY <1>1, <2>1
<1> HIDE DEF rows
<1>6. Copy(c)!Keyed(rows)
  <2>1. \A j \in Copy(c)!In(y1.rows) : rows.posts[j].key = y1.rows.posts[j].key
    BY <1>1, <1>3, <1>5 DEF Copy!In
  <2> QED BY <1>5, <2>1, CopyHas DEF Copy!Keyed
<1>7. Copy(c)!Parented(rows)
  BY <1>5, CopyHas DEF Copy!Parented, Copy!Sources
<1> QED BY <1>4, <1>5, <1>6, <1>7, ChangesKeep

LEMMA MoveSourceKeeps ==
    ASSUME NEW CONSTANT c, Copy(c)!MirrorAssumption, Copy(c)!MirrorInv,
           NEW s \in Copy(c)!Ids, NEW id \in Copy(c)!Ids, Copy(c)!MoveSource(s, id)
    PROVE  Copy(c)!MirrorInv'
<1> DEFINE rows == [y1.rows EXCEPT !.src[s] = id]
<1>1. id \in Copy(c)!In(y1.rows) /\ Copy(c)!Changes(rows)
  BY DEF Copy!MoveSource
<1>2. /\ rows \in Copy(c)!Rows /\ rows.posts = y1.rows.posts
      /\ Copy(c)!In(rows) = Copy(c)!In(y1.rows) /\ Copy(c)!Parented(rows)
  BY SMTT(60), <1>1, SourcePut, CopyHas
<1> HIDE DEF rows
<1>3. Copy(c)!Keyed(rows)
  BY <1>2, CopyHas DEF Copy!Keyed
<1> QED BY <1>1, <1>2, <1>3, ChangesKeep

LEMMA MergeKeeps ==
    ASSUME NEW CONSTANT c, Copy(c)!MirrorAssumption, Copy(c)!MirrorInv,
           NEW id \in Copy(c)!Ids, NEW kept \in Copy(c)!Ids, Copy(c)!Merge(id, kept)
    PROVE  Copy(c)!MirrorInv'
<1> DEFINE Moved == [s \in Copy(c)!Ids |-> IF y2.rows.src[s] = id THEN kept ELSE y2.rows.src[s]]
           rows == [y2.rows EXCEPT !.posts[id] = Copy(c)!NoPost, !.src = Moved]
           d == [y2 EXCEPT !.rows = rows]
<1>1. /\ y4 = "idle" /\ id # kept /\ kept \in Copy(c)!In(y2.rows)
      /\ y5' = y5 \cup {id} /\ UNCHANGED <<y1, y3, y4, y6>>
      /\ y7' = [y7 EXCEPT !.changes = @ + 1]
  BY DEF Copy!Merge
<1>2. y2' = d
  BY CopyHas DEF Copy!Merge, Copy!Databases, Copy!Rows
<1>3. Moved \in [Copy(c)!Ids -> Copy(c)!Ids \cup {0}]
  BY CopyHas DEF Copy!Rows
<1>4. /\ rows \in Copy(c)!Rows /\ rows.src = Moved
      /\ rows.posts = [y2.rows.posts EXCEPT ![id] = Copy(c)!NoPost]
  <2> HIDE DEF Moved
  <2> QED BY <1>3, CopyHas DEF Copy!Rows, Copy!Posts
<1>5. Copy(c)!In(rows) = Copy(c)!In(y2.rows) \ {id}
  BY <1>4, CopyHas DEF Copy!In, Copy!Rows
<1>6. Copy(c)!Parented(rows)
  <2>1. ASSUME NEW s \in Copy(c)!Sources(rows) PROVE rows.src[s] \in Copy(c)!In(rows)
    <3>1. s \in Copy(c)!Ids /\ Moved[s] # 0 /\ rows.src[s] = Moved[s]
      BY <1>4 DEF Copy!Sources
    <3>2. CASE y2.rows.src[s] = id
      BY <3>1, <3>2, <1>1, <1>5
    <3>3. CASE y2.rows.src[s] # id
      <4>1. s \in Copy(c)!Sources(y2.rows) /\ Moved[s] = y2.rows.src[s]
        BY SMTT(60), <3>1, <3>3 DEF Copy!Sources
      <4> QED BY <4>1, <3>1, <3>3, <1>5, CopyHas DEF Copy!Parented
    <3> QED BY <3>2, <3>3
  <2> HIDE DEF rows
  <2> QED BY <2>1 DEF Copy!Parented
<1>7. Copy(c)!Keyed(rows)
  BY ZenonT(60), <1>4, <1>5, CopyHas DEF Copy!Keyed, Copy!Rows, Copy!In
<1>8. d \in Copy(c)!Databases /\ d.rows = rows /\ d.sent = y2.sent /\ d.last = y2.last
  <2> HIDE DEF rows
  <2> QED BY <1>4, CopyHas DEF Copy!Databases
<1> HIDE DEF d, rows, Moved
<1>9. Copy(c)!TypeOK'
  BY <1>1, <1>7, <1>8, <1>2, CopyHas DEF Copy!TypeOK, Copy!MirrorInv
<1>10. Copy(c)!Accounted(d) /\ Copy(c)!Accounted(y1)
  BY <1>5, <1>6, <1>8 DEF Copy!Accounted, Copy!MirrorInv
<1>11. Copy(c)!Accounted(y1)' /\ Copy(c)!Accounted(y2)'
  BY <1>1, <1>10, <1>2 DEF Copy!Accounted
<1>12. Copy(c)!Pushed'
  BY <1>1 DEF Copy!Pushed, Copy!MirrorInv
<1> QED BY <1>1, <1>9, <1>11, <1>12, CopyHas DEF Copy!MirrorInv

LEMMA QuietJobKeeps ==
    ASSUME NEW CONSTANT c, Copy(c)!MirrorAssumption, Copy(c)!MirrorInv,
           \/ Copy(c)!Cycled \/ Copy(c)!Save \/ Copy(c)!LoseRunner \/ Copy(c)!LoseCache
    PROVE  Copy(c)!MirrorInv'
<1> DEFINE none == Copy(c)!NoDb
<1>1. /\ none \in Copy(c)!Databases /\ Copy(c)!Keyed(none.rows) /\ Copy(c)!Accounted(none)
      /\ Copy(c)!In(none.rows) = {}
  BY NothingTyped DEF Copy!Keyed, Copy!Accounted, Copy!Parented
<1>2. UNCHANGED <<y3, y5, y6>>
  BY DEF Copy!Cycled, Copy!Save, Copy!LoseRunner, Copy!LoseCache
<1> HIDE DEF none
<1>3. /\ y1' \in {y1, none} /\ y2' \in {y1, y2, none}
      /\ y7' \in [changes : Nat, jobs : 0..c.jobs, failures : Nat, runners : Nat, caches : Nat]
  <2>1. CASE Copy(c)!Cycled BY <2>1, CopyHas DEF Copy!Cycled
  <2>2. CASE Copy(c)!Save BY <2>2, CopyHas DEF Copy!Save, none
  <2>3. CASE Copy(c)!LoseRunner BY <2>3, CopyHas DEF Copy!LoseRunner, none
  <2>4. CASE Copy(c)!LoseCache BY <2>4, CopyHas DEF Copy!LoseCache, none
  <2> QED BY <2>1, <2>2, <2>3, <2>4
<1>4. Copy(c)!TypeOK'
  BY <1>1, <1>2, <1>3, CopyHas DEF Copy!TypeOK, Copy!MirrorInv
<1>5. Copy(c)!Accounted(y1') /\ Copy(c)!Accounted(y2')
  BY <1>1, <1>3 DEF Copy!MirrorInv
<1>6. PICK d, e : d = y1' /\ e = y2'
  OBVIOUS
<1>7. Copy(c)!Accounted(y1)' /\ Copy(c)!Accounted(y2)'
  BY <1>2, <1>5, <1>6 DEF Copy!Accounted
<1>8. Copy(c)!Pushed'
  <2>1. CASE Copy(c)!Cycled
    BY <2>1 DEF Copy!Cycled, Copy!Pushed, Copy!MirrorInv
  <2>2. CASE Copy(c)!Save \/ Copy(c)!LoseRunner
    BY <2>2 DEF Copy!Save, Copy!LoseRunner, Copy!Pushed
  <2>3. CASE Copy(c)!LoseCache
    BY <2>3 DEF Copy!LoseCache, Copy!Pushed, Copy!MirrorInv
  <2> QED BY <2>1, <2>2, <2>3
<1> QED BY <1>2, <1>4, <1>7, <1>8, CopyHas DEF Copy!MirrorInv

-----------------------------------------------------------------------------
(* Requests of the push. *)

LEMMA FailureCounted ==
    ASSUME NEW jobs, NEW b \in [changes : Nat, jobs : 0..jobs, failures : Nat,
                                runners : Nat, caches : Nat]
    PROVE  [b EXCEPT !.failures = @ + 1]
             \in [changes : Nat, jobs : 0..jobs, failures : Nat, runners : Nat, caches : Nat]
OBVIOUS

LEMMA RefuseKeeps ==
    ASSUME NEW CONSTANT c, Copy(c)!MirrorAssumption, Copy(c)!MirrorInv,
           y4 # "idle", Copy(c)!Refuse("key")
    PROVE  Copy(c)!MirrorInv'
<1>1. y6' = y6 \cup {"key"} /\ y4' = "save" /\ UNCHANGED <<y1, y2, y3, y5, y7>>
  BY DEF Copy!Refuse
<1>2. Copy(c)!TypeOK'
  BY <1>1, CopyHas DEF Copy!TypeOK, Copy!MirrorInv
<1>3. Copy(c)!Pushed'
  BY <1>1 DEF Copy!Pushed, Copy!MirrorInv
<1> QED BY <1>1, <1>2, <1>3, CopyHas DEF Copy!MirrorInv, Copy!Accounted

(* A request keeps the invariant, answered or not, when what it makes of the  *)
(* mirror has the rows that both databases sent and still have, and puts the  *)
(* job where it says.                                                         *)
LEMMA RequestKeeps ==
    ASSUME NEW CONSTANT c, Copy(c)!MirrorAssumption, Copy(c)!MirrorInv,
           y4 # "idle", NEW after \in Copy(c)!Rows, NEW next, next # "idle",
           NEW known \in Copy(c)!Databases, Copy(c)!Request(after, next, known),
           known.rows = y1.rows, known.last = y1.last,
           Copy(c)!Keyed(after), Copy(c)!Parented(after),
           Copy(c)!In(y3) \cap Copy(c)!In(y1.rows) \subseteq Copy(c)!In(after),
           Copy(c)!In(known.sent) \subseteq Copy(c)!In(y1.sent) \cup Copy(c)!In(y1.rows),
           Copy(c)!In(known.rows) \cap Copy(c)!In(known.sent) \subseteq Copy(c)!In(after),
           next \in {"stray posts", "posts", "sources", "runs", "mirrored"} =>
              Copy(c)!Sources(after) \subseteq Copy(c)!Sources(y1.rows),
           next \in {"posts", "sources", "runs", "mirrored"} =>
              Copy(c)!In(after) \subseteq Copy(c)!In(y1.rows),
           next \in {"sources", "runs", "mirrored"} =>
              Copy(c)!In(y1.rows) \subseteq Copy(c)!In(after)
    PROVE  Copy(c)!MirrorInv'
<1>1. UNCHANGED <<y2, y5, y6>>
  BY DEF Copy!Request
<1>2. \/ y3' = after /\ y1' = known /\ y4' = next /\ y7' = y7
      \/ /\ y3' \in {y3, after} /\ y1' = y1 /\ y4' = "save"
         /\ y7' = [y7 EXCEPT !.failures = @ + 1]
  BY DEF Copy!Request
<1>3. Copy(c)!TypeOK'
  <2>1. y1' \in Copy(c)!Databases /\ y3' \in Copy(c)!Rows
    BY <1>2, CopyHas
  <2>2. Copy(c)!Keyed(y1'.rows) /\ Copy(c)!Keyed(y3')
    BY <1>2, CopyHas
  <2>3. y7' \in [changes : Nat, jobs : 0..c.jobs, failures : Nat, runners : Nat, caches : Nat]
    <3>1. y7' = y7 \/ y7' = [y7 EXCEPT !.failures = @ + 1]
      BY <1>2
    <3>2. y7 \in [changes : Nat, jobs : 0..c.jobs, failures : Nat, runners : Nat, caches : Nat]
      BY CopyHas
    <3>3. [y7 EXCEPT !.failures = @ + 1]
            \in [changes : Nat, jobs : 0..c.jobs, failures : Nat, runners : Nat, caches : Nat]
      BY <3>2, FailureCounted
    <3> QED BY <3>1, <3>2, <3>3, Zenon
  <2>4. PICK d, h : d = y1' /\ h = y3'
    OBVIOUS
  <2>5. Copy(c)!Keyed(y1.rows)' /\ Copy(c)!Keyed(y3)' /\ Copy(c)!Keyed(y2.rows)'
    BY ZenonT(60), <1>1, <2>2, <2>4, CopyHas DEF Copy!Keyed
  <2> QED BY <1>1, <2>1, <2>3, <2>5, CopyHas DEF Copy!TypeOK
<1>4. Copy(c)!Parented(y3') /\ Copy(c)!Parented(y1'.rows) /\ y1'.rows = y1.rows
  BY <1>2, CopyHas
<1>5. Copy(c)!In(y2.rows) \cap Copy(c)!In(y2.sent) \subseteq Copy(c)!In(y1.rows)
  BY DEF Copy!MirrorInv, Copy!Pushed
<1>6. /\ Copy(c)!In(y2.rows) \cap Copy(c)!In(y2.sent) \subseteq Copy(c)!In(y3')
      /\ Copy(c)!In(y1'.rows) \cap Copy(c)!In(y1'.sent) \subseteq Copy(c)!In(y3')
  BY <1>2, <1>5 DEF Copy!MirrorInv, Copy!Accounted
<1>7. /\ Copy(c)!In(y1'.rows) \cup Copy(c)!In(y1'.sent) \subseteq 1..y1'.last
      /\ Copy(c)!In(y2.rows) \cup Copy(c)!In(y2.sent) \subseteq 1..y2.last
  BY <1>2 DEF Copy!MirrorInv, Copy!Accounted
<1>8. PICK d, h : d = y1' /\ h = y3'
  OBVIOUS
<1>9. Copy(c)!Accounted(y1)' /\ Copy(c)!Accounted(y2)' /\ Copy(c)!Parented(y3)'
  BY <1>1, <1>4, <1>6, <1>7, <1>8, CopyHas DEF Copy!Accounted
<1>10. Copy(c)!Pushed'
  BY <1>1, <1>2, <1>5 DEF Copy!Pushed
<1> QED BY <1>1, <1>3, <1>9, <1>10, CopyHas DEF Copy!MirrorInv

LEMMA StraySourcesKeeps ==
    ASSUME NEW CONSTANT c, Copy(c)!MirrorAssumption, Copy(c)!MirrorInv,
           Copy(c)!StraySources
    PROVE  Copy(c)!MirrorInv'
<1> DEFINE Kept == [s \in Copy(c)!Ids |-> IF s \in Copy(c)!Sources(y1.rows) THEN y3.src[s] ELSE 0]
           after == [y3 EXCEPT !.src = Kept]
<1>1. y4 = "stray sources" /\ Copy(c)!Request(after, "stray posts", y1)
  BY DEF Copy!StraySources
<1>2. /\ after \in Copy(c)!Rows /\ after.src = Kept /\ after.posts = y3.posts
  BY CopyHas DEF Copy!Rows
<1>3. /\ \A s \in Copy(c)!Ids : after.src[s] # 0 =>
            s \in Copy(c)!Sources(y1.rows) /\ after.src[s] = y3.src[s]
      /\ Copy(c)!In(after) = Copy(c)!In(y3)
  BY <1>2 DEF Copy!In
<1> HIDE DEF after
<1>4. /\ Copy(c)!Sources(after) \subseteq Copy(c)!Sources(y1.rows)
      /\ Copy(c)!Parented(after) /\ Copy(c)!Keyed(after)
  BY <1>2, <1>3, CopyHas DEF Copy!Sources, Copy!Parented, Copy!Keyed
<1>5. Copy(c)!In(y1.rows) \cap Copy(c)!In(y1.sent) \subseteq Copy(c)!In(y3)
  BY DEF Copy!MirrorInv, Copy!Accounted
<1> QED BY <1>1, <1>2, <1>3, <1>4, <1>5, RequestKeeps, CopyHas

LEMMA StrayPostsKeeps ==
    ASSUME NEW CONSTANT c, Copy(c)!MirrorAssumption, Copy(c)!MirrorInv,
           Copy(c)!StrayPosts
    PROVE  Copy(c)!MirrorInv'
<1> DEFINE keep == Copy(c)!In(y1.rows)
           Posts == [id \in Copy(c)!Ids |-> IF id \in keep THEN y3.posts[id] ELSE Copy(c)!NoPost]
           Kept == [s \in Copy(c)!Ids |-> IF y3.src[s] \in keep THEN y3.src[s] ELSE 0]
           after == [y3 EXCEPT !.posts = Posts, !.src = Kept]
<1>1. y4 = "stray posts" /\ Copy(c)!Request(after, "posts", y1)
  BY CopyHas DEF Copy!StrayPosts, Copy!Rows
<1>2. Posts \in [Copy(c)!Ids -> Copy(c)!Posts] /\ Kept \in [Copy(c)!Ids -> Copy(c)!Ids \cup {0}]
  BY CopyHas DEF Copy!Rows, Copy!Posts
<1>3. /\ after \in Copy(c)!Rows /\ after.src = Kept /\ after.posts = Posts
  <2> HIDE DEF Posts, Kept
  <2> QED BY <1>2, CopyHas DEF Copy!Rows
<1> HIDE DEF after
<1>4. Copy(c)!In(after) = Copy(c)!In(y3) \cap keep
  BY <1>3 DEF Copy!In
<1>5. \A id \in Copy(c)!In(after) : after.posts[id] = y3.posts[id]
  BY <1>3, <1>4 DEF Copy!In
<1>6. \A s \in Copy(c)!Sources(after) :
        s \in Copy(c)!Sources(y3) /\ after.src[s] = y3.src[s] /\ y3.src[s] \in keep
  BY <1>3 DEF Copy!Sources
<1>7. Copy(c)!Parented(after) /\ Copy(c)!Keyed(after)
  BY <1>4, <1>5, <1>6, CopyHas DEF Copy!Parented, Copy!Keyed
<1>8. /\ Copy(c)!In(y1.rows) \cap Copy(c)!In(y1.sent) \subseteq Copy(c)!In(y3)
      /\ Copy(c)!Sources(y3) \subseteq Copy(c)!Sources(y1.rows)
  BY <1>1 DEF Copy!MirrorInv, Copy!Accounted, Copy!Pushed
<1>9. Copy(c)!Sources(after) \subseteq Copy(c)!Sources(y1.rows)
  BY <1>6, <1>8
<1> QED BY <1>1, <1>3, <1>4, <1>7, <1>8, <1>9, RequestKeeps, CopyHas

(* What is least of some ids is one of them. *)
LEMMA LeastIsOne ==
    ASSUME NEW CONSTANT c, c.ids \in Nat, NEW S \in SUBSET Copy(c)!Ids, S # {}
    PROVE  Copy(c)!Least(S) \in S
<1>1. S \subseteq Nat
  BY DEF Copy!Ids
<1>2. PICK n \in S : \A k \in S : <<k, n>> \notin OpToRel(<, Nat)
  BY <1>1, NatLessThanWellFounded, WFMin
<1>3. \A k \in S : ~(k < n)
  BY <1>1, <1>2, Zenon DEF OpToRel
<1>4. \A k \in S : n <= k
  BY <1>1, <1>3
<1> QED BY <1>4 DEF Copy!Least

LEMMA SendPostKeeps ==
    ASSUME NEW CONSTANT c, Copy(c)!MirrorAssumption, Copy(c)!MirrorInv,
           Copy(c)!SendPost
    PROVE  Copy(c)!MirrorInv'
<1> DEFINE id == Copy(c)!Least(Copy(c)!ChangedPosts)
           post == y1.rows.posts[id]
           after == [y3 EXCEPT !.posts[id] = post]
           sent == [y1.sent EXCEPT !.posts[id] = post]
           known == [y1 EXCEPT !.sent = sent]
           Taken == \E other \in Copy(c)!Ids \ {id} : y3.posts[other].key = post.key
<1>1. y4 = "posts" /\ (Taken => Copy(c)!Refuse("key"))
  BY DEF Copy!SendPost
<1>2. ~Taken => Copy(c)!Request(after, "posts", known)
  BY CopyHas DEF Copy!SendPost, Copy!Databases
<1>3. id \in Copy(c)!In(y1.rows) /\ id \in Copy(c)!Ids
  <2>1. Copy(c)!ChangedPosts # {} /\ Copy(c)!ChangedPosts \subseteq Copy(c)!In(y1.rows)
        /\ Copy(c)!In(y1.rows) \subseteq Copy(c)!Ids
    BY DEF Copy!SendPost, Copy!ChangedPosts, Copy!In
  <2> QED BY SMTT(60), <2>1, LeastIsOne DEF Copy!MirrorAssumption
<1>4. CASE Taken
  BY <1>1, <1>4, RefuseKeeps
<1>5. CASE ~Taken
  <2>1. post \in Copy(c)!Posts /\ post # Copy(c)!NoPost
    BY <1>3, CopyHas DEF Copy!Rows, Copy!In
  <2>2. y1.sent \in Copy(c)!Rows /\ y3 \in Copy(c)!Rows
    BY CopyHas
  <2>9. \A other \in Copy(c)!Ids \ {id} : y3.posts[other].key # post.key
    BY <1>5
  <2>10. Copy(c)!Request(after, "posts", known)
    BY <1>2, <1>5
  <2> HIDE DEF id, post
  <2>3. /\ after \in Copy(c)!Rows /\ after.src = y3.src
        /\ after.posts = [y3.posts EXCEPT ![id] = post]
        /\ Copy(c)!In(after) = Copy(c)!In(y3) \cup {id}
    BY <1>3, <2>1, <2>2, PostPut
  <2>4. sent \in Copy(c)!Rows /\ Copy(c)!In(sent) = Copy(c)!In(y1.sent) \cup {id}
    BY <1>3, <2>1, <2>2, PostPut
  <2> HIDE DEF after, sent
  <2>5. /\ known \in Copy(c)!Databases /\ known.rows = y1.rows /\ known.last = y1.last
        /\ known.sent = sent
    BY <2>4, CopyHas DEF Copy!Databases
  <2> HIDE DEF known
  <2>6. Copy(c)!Keyed(after)
    <3>1. \A j \in Copy(c)!In(y3) : j # id => after.posts[j] = y3.posts[j]
      BY <1>3, <2>2, <2>3 DEF Copy!Rows, Copy!In
    <3>2. after.posts[id] = post
      BY <1>3, <2>2, <2>3 DEF Copy!Rows
    <3>3. Copy(c)!In(y3) \subseteq Copy(c)!Ids
      BY DEF Copy!In
    <3> QED BY <2>3, <2>9, <3>1, <3>2, <3>3, CopyHas DEF Copy!Keyed
  <2>7. Copy(c)!Parented(after) /\ Copy(c)!Sources(after) = Copy(c)!Sources(y3)
    BY <2>3, CopyHas DEF Copy!Parented, Copy!Sources
  <2>8. /\ Copy(c)!In(y1.rows) \cap Copy(c)!In(y1.sent) \subseteq Copy(c)!In(y3)
        /\ Copy(c)!Sources(y3) \subseteq Copy(c)!Sources(y1.rows)
        /\ Copy(c)!In(y3) \subseteq Copy(c)!In(y1.rows)
    BY <1>1 DEF Copy!MirrorInv, Copy!Accounted, Copy!Pushed
  <2> QED
    BY <1>1, <1>3, <2>3, <2>4, <2>5, <2>6, <2>7, <2>8, <2>10, RequestKeeps
<1> QED BY <1>4, <1>5

LEMMA PostsSentKeeps ==
    ASSUME NEW CONSTANT c, Copy(c)!MirrorAssumption, Copy(c)!MirrorInv,
           Copy(c)!PostsSent
    PROVE  Copy(c)!MirrorInv'
<1> DEFINE Told == [id \in Copy(c)!Ids |->
                      IF id \in Copy(c)!In(y1.rows) THEN y1.sent.posts[id] ELSE Copy(c)!NoPost]
           sent == [y1.sent EXCEPT !.posts = Told]
           d == [y1 EXCEPT !.sent = sent]
<1>1. /\ y4 = "posts" /\ y4' = "sources" /\ UNCHANGED <<y2, y3, y5, y6, y7>>
      /\ y1' = d
  BY CopyHas DEF Copy!PostsSent, Copy!Databases, Copy!Rows
<1>2. Told \in [Copy(c)!Ids -> Copy(c)!Posts]
  BY CopyHas DEF Copy!Rows, Copy!Posts
<1>3. sent \in Copy(c)!Rows /\ sent.posts = Told
  <2> HIDE DEF Told
  <2> QED BY <1>2, CopyHas DEF Copy!Rows
<1>4. Copy(c)!In(sent) \subseteq Copy(c)!In(y1.sent)
  <2> HIDE DEF sent
  <2> QED BY <1>3 DEF Copy!In
<1> HIDE DEF sent
<1>5. d \in Copy(c)!Databases /\ d.rows = y1.rows /\ d.last = y1.last /\ d.sent = sent
  BY <1>3, CopyHas DEF Copy!Databases
<1> HIDE DEF d
<1>6. Copy(c)!In(y1.rows) \subseteq Copy(c)!In(y3)
  <2>1. ASSUME NEW id \in Copy(c)!In(y1.rows) PROVE id \in Copy(c)!In(y1.sent)
    BY <2>1 DEF Copy!PostsSent, Copy!ChangedPosts, Copy!In
  <2> QED BY <2>1 DEF Copy!MirrorInv, Copy!Accounted
<1>7. Copy(c)!TypeOK'
  BY <1>1, <1>5, CopyHas DEF Copy!TypeOK, Copy!MirrorInv
<1>8. Copy(c)!Accounted(d) /\ Copy(c)!Accounted(y2)
  BY <1>4, <1>5, <1>6, CopyHas DEF Copy!MirrorInv, Copy!Accounted
<1>9. Copy(c)!Accounted(y1)' /\ Copy(c)!Accounted(y2)'
  BY <1>1, <1>8 DEF Copy!Accounted
<1>10. Copy(c)!Pushed'
  BY <1>1, <1>5, <1>6 DEF Copy!MirrorInv, Copy!Pushed
<1> QED BY <1>1, <1>7, <1>9, <1>10, CopyHas DEF Copy!MirrorInv

LEMMA SendSourceKeeps ==
    ASSUME NEW CONSTANT c, Copy(c)!MirrorAssumption, Copy(c)!MirrorInv,
           Copy(c)!SendSource
    PROVE  Copy(c)!MirrorInv'
<1> DEFINE s == Copy(c)!Least(Copy(c)!ChangedSources)
           id == y1.rows.src[s]
           after == [y3 EXCEPT !.src[s] = id]
           sent == [y1.sent EXCEPT !.src[s] = id]
           known == [y1 EXCEPT !.sent = sent]
<1>1. y4 = "sources"
  BY DEF Copy!SendSource
<1>2. s \in Copy(c)!Sources(y1.rows) /\ s \in Copy(c)!Ids
  <2>1. /\ Copy(c)!ChangedSources # {} /\ Copy(c)!ChangedSources \subseteq Copy(c)!Sources(y1.rows)
        /\ Copy(c)!Sources(y1.rows) \subseteq Copy(c)!Ids
    BY DEF Copy!SendSource, Copy!ChangedSources, Copy!Sources
  <2> QED BY SMTT(60), <2>1, LeastIsOne DEF Copy!MirrorAssumption
<1>3. /\ Copy(c)!In(y1.rows) \cap Copy(c)!In(y1.sent) \subseteq Copy(c)!In(y3)
      /\ Copy(c)!Sources(y3) \subseteq Copy(c)!Sources(y1.rows)
      /\ Copy(c)!In(y3) = Copy(c)!In(y1.rows)
  BY <1>1 DEF Copy!MirrorInv, Copy!Accounted, Copy!Pushed
<1>4. id \in Copy(c)!In(y3) /\ id \in Copy(c)!Ids
  BY <1>2, <1>3, CopyHas DEF Copy!Parented, Copy!In
<1>5. Copy(c)!Request(after, "sources", known)
  <2>1. y3.posts[id] # Copy(c)!NoPost
    BY <1>4 DEF Copy!In
  <2> QED BY <2>1, CopyHas DEF Copy!SendSource, Copy!Databases
<1>6. y3 \in Copy(c)!Rows /\ y1.sent \in Copy(c)!Rows
  BY CopyHas
<1> HIDE DEF s, id
<1>7. /\ after \in Copy(c)!Rows /\ after.posts = y3.posts
      /\ Copy(c)!In(after) = Copy(c)!In(y3)
      /\ Copy(c)!Sources(after) = Copy(c)!Sources(y3) \cup {s}
      /\ Copy(c)!Parented(after)
  BY <1>2, <1>4, <1>6, SourcePut, CopyHas
<1>8. sent \in Copy(c)!Rows /\ Copy(c)!In(sent) = Copy(c)!In(y1.sent)
  BY <1>2, <1>4, <1>6, SourcePut
<1> HIDE DEF after, sent
<1>9. /\ known \in Copy(c)!Databases /\ known.rows = y1.rows /\ known.last = y1.last
      /\ known.sent = sent
  BY <1>8, CopyHas DEF Copy!Databases
<1> HIDE DEF known
<1>10. Copy(c)!Keyed(after)
  BY <1>7, CopyHas DEF Copy!Keyed
<1> QED BY <1>1, <1>2, <1>3, <1>5, <1>7, <1>8, <1>9, <1>10, RequestKeeps

LEMMA SourcesSentKeeps ==
    ASSUME NEW CONSTANT c, Copy(c)!MirrorAssumption, Copy(c)!MirrorInv,
           Copy(c)!SourcesSent
    PROVE  Copy(c)!MirrorInv'
<1> DEFINE Told == [s \in Copy(c)!Ids |->
                      IF s \in Copy(c)!Sources(y1.rows) THEN y1.sent.src[s] ELSE 0]
           sent == [y1.sent EXCEPT !.src = Told]
           d == [y1 EXCEPT !.sent = sent]
<1>1. /\ y4 = "sources" /\ y4' = "runs" /\ UNCHANGED <<y2, y3, y5, y6, y7>>
      /\ y1' = d
  BY CopyHas DEF Copy!SourcesSent, Copy!Databases, Copy!Rows
<1>2. Told \in [Copy(c)!Ids -> Copy(c)!Ids \cup {0}]
  BY CopyHas DEF Copy!Rows
<1>3. sent \in Copy(c)!Rows /\ Copy(c)!In(sent) = Copy(c)!In(y1.sent)
  <2> HIDE DEF Told
  <2> QED BY <1>2, CopyHas DEF Copy!Rows, Copy!In
<1> HIDE DEF sent
<1>4. d \in Copy(c)!Databases /\ d.rows = y1.rows /\ d.last = y1.last /\ d.sent = sent
  BY <1>3, CopyHas DEF Copy!Databases
<1> HIDE DEF d
<1>5. Copy(c)!TypeOK'
  BY <1>1, <1>4, CopyHas DEF Copy!TypeOK, Copy!MirrorInv
<1>6. Copy(c)!Accounted(d) /\ Copy(c)!Accounted(y2)
  BY <1>3, <1>4, CopyHas DEF Copy!MirrorInv, Copy!Accounted
<1>7. Copy(c)!Accounted(y1)' /\ Copy(c)!Accounted(y2)'
  BY <1>1, <1>6 DEF Copy!Accounted
<1>8. Copy(c)!Pushed'
  BY <1>1, <1>4 DEF Copy!MirrorInv, Copy!Pushed
<1> QED BY <1>1, <1>5, <1>7, <1>8, CopyHas DEF Copy!MirrorInv

LEMMA SendRunsKeeps ==
    ASSUME NEW CONSTANT c, Copy(c)!MirrorAssumption, Copy(c)!MirrorInv,
           Copy(c)!SendRuns
    PROVE  Copy(c)!MirrorInv'
<1> DEFINE after == [y3 EXCEPT !.gen = y1.rows.gen]
           sent == [y1.sent EXCEPT !.gen = y1.rows.gen]
           known == [y1 EXCEPT !.sent = sent]
<1>1. y4 = "runs" /\ Copy(c)!Request(after, "mirrored", known)
  BY CopyHas DEF Copy!SendRuns, Copy!Databases
<1>2. /\ Copy(c)!In(y1.rows) \cap Copy(c)!In(y1.sent) \subseteq Copy(c)!In(y3)
      /\ Copy(c)!Sources(y3) \subseteq Copy(c)!Sources(y1.rows)
      /\ Copy(c)!In(y3) = Copy(c)!In(y1.rows)
  BY <1>1 DEF Copy!MirrorInv, Copy!Accounted, Copy!Pushed
<1>3. y1.rows.gen \in Nat
  BY CopyHas DEF Copy!Rows
<1>4. /\ after \in Copy(c)!Rows /\ after.posts = y3.posts /\ after.src = y3.src
      /\ sent \in Copy(c)!Rows /\ Copy(c)!In(sent) = Copy(c)!In(y1.sent)
  BY <1>3, CopyHas DEF Copy!Rows, Copy!In
<1> HIDE DEF after, sent
<1>5. /\ known \in Copy(c)!Databases /\ known.rows = y1.rows /\ known.last = y1.last
      /\ known.sent = sent
  BY <1>4, CopyHas DEF Copy!Databases
<1> HIDE DEF known
<1>6. /\ Copy(c)!In(after) = Copy(c)!In(y3) /\ Copy(c)!Sources(after) = Copy(c)!Sources(y3)
      /\ Copy(c)!Keyed(after) /\ Copy(c)!Parented(after)
  BY <1>4, CopyHas DEF Copy!In, Copy!Sources, Copy!Keyed, Copy!Parented
<1> QED BY <1>1, <1>2, <1>4, <1>5, <1>6, RequestKeeps

-----------------------------------------------------------------------------
(* Where no answer is lost: what a database knows as sent.  First, of the     *)
(* rows alone: d and h are a database and the mirror, e and g what becomes of *)
(* them.                                                                      *)

(* Rows change, come and go; what was sent does not. *)
LEMMA ChangedAnswers ==
    ASSUME NEW CONSTANT c, NEW d \in Copy(c)!Databases, NEW e \in Copy(c)!Databases,
           NEW h, Copy(c)!Answered(d, h),
           e.sent = d.sent, d.last <= e.last, Copy(c)!In(d.sent) \subseteq 1..d.last,
           Copy(c)!In(e.rows) \cap (1..d.last) \subseteq Copy(c)!In(d.rows),
           Copy(c)!Sources(e.rows) \subseteq 1..e.last,
           Copy(c)!Sources(e.rows) \cap (1..d.last) \subseteq Copy(c)!Sources(d.rows)
    PROVE  Copy(c)!Answered(e, h)
<1>1. d.last \in Nat /\ e.last \in Nat /\ d.sent.src \in [Copy(c)!Ids -> Copy(c)!Ids \cup {0}]
  BY DEF Copy!Databases, Copy!Rows
<1>2. Copy(c)!Ids \subseteq Int
  BY DEF Copy!Ids
<1>3. Copy(c)!Sources(d.sent) \subseteq 1..d.last /\ \A s \in Copy(c)!Ids : d.sent.src[s] <= d.last
  BY DEF Copy!Answered
<1>4. Copy(c)!Sources(e.sent) \subseteq 1..e.last /\ \A s \in Copy(c)!Ids : e.sent.src[s] <= e.last
  BY <1>1, <1>2, <1>3
<1>5. \A id \in Copy(c)!In(e.rows) \cap Copy(c)!In(e.sent) : h.posts[id] = e.sent.posts[id]
  BY DEF Copy!Answered
<1>6. ASSUME NEW s \in Copy(c)!Sources(e.rows) \cap Copy(c)!Sources(e.sent)
      PROVE  \/ h.src[s] = e.sent.src[s]
             \/ h.src[s] = 0 /\ e.sent.src[s] \notin Copy(c)!In(e.rows)
  <2>1. s \in Copy(c)!Sources(d.rows) \cap Copy(c)!Sources(d.sent)
    BY <1>3, <1>6
  <2>2. d.sent.src[s] \in 1..d.last
    <3>1. s \in Copy(c)!Ids /\ d.sent.src[s] # 0 /\ d.sent.src[s] <= d.last
      BY <1>3, <2>1 DEF Copy!Sources
    <3>2. d.sent.src[s] \in Copy(c)!Ids
      BY <1>1, <3>1
    <3> QED BY <1>1, <3>1, <3>2 DEF Copy!Ids
  <2> QED BY <2>1, <2>2 DEF Copy!Answered
<1> QED BY <1>4, <1>5, <1>6 DEF Copy!Answered

(* The mirror loses rows the database has no more, sources with a posting. *)
LEMMA StrayAnswers ==
    ASSUME NEW CONSTANT c, NEW d, NEW h, NEW g, Copy(c)!Answered(d, h),
           \A id \in Copy(c)!In(d.rows) : g.posts[id] = h.posts[id],
           \A s \in Copy(c)!Sources(d.rows) :
               \/ g.src[s] = h.src[s]
               \/ g.src[s] = 0 /\ h.src[s] \notin Copy(c)!In(d.rows)
    PROVE  Copy(c)!Answered(d, g)
BY DEF Copy!Answered

(* A row is sent. *)
LEMMA PostAnswers ==
    ASSUME NEW CONSTANT c, NEW d \in Copy(c)!Databases, NEW h \in Copy(c)!Rows,
           Copy(c)!Answered(d, h), NEW id \in Copy(c)!In(d.rows), NEW p,
           NEW e \in Copy(c)!Databases, NEW g \in Copy(c)!Rows,
           e.rows = d.rows, e.last = d.last, e.sent.src = d.sent.src, g.src = h.src,
           e.sent.posts = [d.sent.posts EXCEPT ![id] = p], g.posts = [h.posts EXCEPT ![id] = p]
    PROVE  Copy(c)!Answered(e, g)
<1>1. /\ d.sent.posts \in [Copy(c)!Ids -> Copy(c)!Posts] /\ h.posts \in [Copy(c)!Ids -> Copy(c)!Posts]
      /\ id \in Copy(c)!Ids
  BY DEF Copy!Databases, Copy!Rows, Copy!In
<1>2. Copy(c)!Sources(e.sent) = Copy(c)!Sources(d.sent)
  BY DEF Copy!Sources
<1>3. ASSUME NEW x \in Copy(c)!In(e.rows) \cap Copy(c)!In(e.sent)
      PROVE  g.posts[x] = e.sent.posts[x]
  <2>1. CASE x = id BY <1>1, <2>1
  <2>2. CASE x # id
    <3>1. x \in Copy(c)!Ids /\ e.sent.posts[x] = d.sent.posts[x] /\ g.posts[x] = h.posts[x]
      BY <1>1, <2>2 DEF Copy!In
    <3>2. x \in Copy(c)!In(d.rows) \cap Copy(c)!In(d.sent)
      BY <3>1 DEF Copy!In
    <3> QED BY <3>1, <3>2 DEF Copy!Answered
  <2> QED BY <2>1, <2>2
<1> QED BY <1>2, <1>3 DEF Copy!Answered

LEMMA SourceAnswers ==
    ASSUME NEW CONSTANT c, NEW d \in Copy(c)!Databases, NEW h \in Copy(c)!Rows,
           Copy(c)!Answered(d, h), NEW s \in Copy(c)!Sources(d.rows), NEW id \in 1..d.last,
           NEW e \in Copy(c)!Databases, NEW g \in Copy(c)!Rows,
           e.rows = d.rows, e.last = d.last, e.sent.posts = d.sent.posts, g.posts = h.posts,
           e.sent.src = [d.sent.src EXCEPT ![s] = id], g.src = [h.src EXCEPT ![s] = id]
    PROVE  Copy(c)!Answered(e, g)
<1>1. /\ d.sent.src \in [Copy(c)!Ids -> Copy(c)!Ids \cup {0}] /\ h.src \in [Copy(c)!Ids -> Copy(c)!Ids \cup {0}]
      /\ s \in Copy(c)!Ids /\ d.last \in Nat /\ Copy(c)!Ids \subseteq Int
  BY DEF Copy!Databases, Copy!Rows, Copy!Sources, Copy!Ids
<1>2. Copy(c)!In(e.sent) = Copy(c)!In(d.sent)
  BY DEF Copy!In
<1>3. \A x \in Copy(c)!Ids : /\ e.sent.src[x] = IF x = s THEN id ELSE d.sent.src[x]
                             /\ g.src[x] = IF x = s THEN id ELSE h.src[x]
  BY <1>1
<1>4. s \in 1..d.last
  BY DEF Copy!Answered
<1>5. Copy(c)!Sources(e.sent) \subseteq 1..e.last
  BY <1>3, <1>4 DEF Copy!Answered, Copy!Sources
<1>6. \A x \in Copy(c)!Ids : e.sent.src[x] <= e.last
  BY <1>1, <1>3 DEF Copy!Answered
<1>7. ASSUME NEW x \in Copy(c)!Sources(e.rows) \cap Copy(c)!Sources(e.sent)
      PROVE  \/ g.src[x] = e.sent.src[x]
             \/ g.src[x] = 0 /\ e.sent.src[x] \notin Copy(c)!In(e.rows)
  BY <1>3 DEF Copy!Answered, Copy!Sources
<1> QED BY <1>2, <1>5, <1>6, <1>7 DEF Copy!Answered

(* What was sent of rows that are no more is forgotten. *)
LEMMA ForgottenAnswers ==
    ASSUME NEW CONSTANT c, NEW d \in Copy(c)!Databases, NEW h, Copy(c)!Answered(d, h),
           NEW e \in Copy(c)!Databases, e.rows = d.rows, e.last = d.last,
           \A id \in Copy(c)!Ids : e.sent.posts[id] \in {d.sent.posts[id], Copy(c)!NoPost},
           \A s \in Copy(c)!Ids : e.sent.src[s] \in {d.sent.src[s], 0}
    PROVE  Copy(c)!Answered(e, h)
<1>1. d.last \in Nat
  BY DEF Copy!Databases
<1>2. /\ Copy(c)!In(e.sent) \subseteq Copy(c)!In(d.sent)
      /\ \A id \in Copy(c)!In(e.sent) : e.sent.posts[id] = d.sent.posts[id]
  BY DEF Copy!In
<1>3. /\ Copy(c)!Sources(e.sent) \subseteq Copy(c)!Sources(d.sent)
      /\ \A s \in Copy(c)!Sources(e.sent) : e.sent.src[s] = d.sent.src[s]
  BY DEF Copy!Sources
<1>4. \A s \in Copy(c)!Ids : e.sent.src[s] <= e.last
  BY <1>1 DEF Copy!Answered
<1> QED BY <1>2, <1>3, <1>4 DEF Copy!Answered

(* The invariant after a step, of the values the step leaves. *)
LEMMA AsSentAfter ==
    ASSUME NEW CONSTANT c,
           y7'.failures = 0 /\ y7'.runners = 0 =>
               /\ IF y4' = "idle" THEN Copy(c)!Answered(y2', y3') ELSE Copy(c)!Answered(y1', y3')
               /\ y4' \in {"sources", "runs", "mirrored"} => y3'.posts = y1'.rows.posts
               /\ y4' \in {"runs", "mirrored"} => y3'.src = y1'.rows.src
               /\ y4' = "mirrored" => y3'.gen = y1'.rows.gen
    PROVE  Copy(c)!AsSent'
<1>1. PICK d, e, h : d = y1' /\ e = y2' /\ h = y3'
  OBVIOUS
<1>2. y7'.failures = 0 /\ y7'.runners = 0 =>
        IF y4' = "idle" THEN Copy(c)!Answered(e, h) ELSE Copy(c)!Answered(d, h)
  BY <1>1
<1>3. y7'.failures = 0 /\ y7'.runners = 0 =>
        IF y4' = "idle" THEN Copy(c)!Answered(y2, y3)' ELSE Copy(c)!Answered(y1, y3)'
  BY <1>1, <1>2 DEF Copy!Answered, Copy!In, Copy!Sources
<1> QED BY <1>3 DEF Copy!AsSent, Copy!Undisturbed

(* And before it. *)
LEMMA AsSentHas ==
    ASSUME NEW CONSTANT c, Copy(c)!AsSent, y7.failures = 0, y7.runners = 0
    PROVE  /\ y4 = "idle" => Copy(c)!Answered(y2, y3)
           /\ y4 # "idle" => Copy(c)!Answered(y1, y3)
           /\ y4 \in {"sources", "runs", "mirrored"} => y3.posts = y1.rows.posts
           /\ y4 \in {"runs", "mirrored"} => y3.src = y1.rows.src
           /\ y4 = "mirrored" => y3.gen = y1.rows.gen
BY DEF Copy!AsSent, Copy!Undisturbed

LEMMA BeginAsSent ==
    ASSUME NEW CONSTANT c, Copy(c)!MirrorAssumption, Copy(c)!MirrorInv, Copy(c)!AsSent,
           Copy(c)!Begin
    PROVE  Copy(c)!AsSent'
<1> DEFINE ended == Copy(c)!In(y3) \cup Copy(c)!Sources(y3)
<1>1. /\ y4 = "idle" /\ y4' = "cycle" /\ y3' = y3
      /\ y7' = [y7 EXCEPT !.jobs = @ + 1]
      /\ y1' = IF Copy(c)!IsCurrent THEN y2 ELSE Copy(c)!Pulled
  BY DEF Copy!Begin
<1>2. y7'.failures = y7.failures /\ y7'.runners = y7.runners
  BY <1>1, CopyHas
<1>3. Copy(c)!Last(ended) \in Nat /\ \A n \in ended : n <= Copy(c)!Last(ended)
  BY LastIs DEF Copy!In, Copy!Sources, Copy!MirrorAssumption
<1>4. /\ Copy(c)!Pulled.rows = y3 /\ Copy(c)!Pulled.sent = Copy(c)!NoRows
      /\ Copy(c)!Pulled.last = Copy(c)!Last(ended)
  BY DEF Copy!Pulled
<1>5. /\ Copy(c)!In(Copy(c)!NoRows) = {} /\ Copy(c)!Sources(Copy(c)!NoRows) = {}
      /\ \A s \in Copy(c)!Ids : Copy(c)!NoRows.src[s] = 0
  BY NothingTyped DEF Copy!NoRows
<1>6. Copy(c)!Sources(y3) \subseteq 1..Copy(c)!Last(ended)
  BY <1>3 DEF Copy!Sources, Copy!Ids
<1>7. Copy(c)!Answered(Copy(c)!Pulled, y3)
  BY <1>3, <1>4, <1>5, <1>6 DEF Copy!Answered
<1>8. y7.failures = 0 /\ y7.runners = 0 => Copy(c)!Answered(y1', y3')
  BY <1>1, <1>7, AsSentHas
<1> QED BY <1>1, <1>2, <1>8, AsSentAfter

LEMMA ChangeAsSent ==
    ASSUME NEW CONSTANT c, Copy(c)!MirrorAssumption, Copy(c)!MirrorInv, Copy(c)!AsSent,
           y4 = "cycle", UNCHANGED <<y3, y4>>, y7' = [y7 EXCEPT !.changes = @ + 1],
           NEW d \in Copy(c)!Databases, y1' = d, d.sent = y1.sent, y1.last <= d.last,
           Copy(c)!In(d.rows) \cap (1..y1.last) \subseteq Copy(c)!In(y1.rows),
           Copy(c)!Sources(y1.rows) \subseteq 1..y1.last => Copy(c)!Sources(d.rows) \subseteq 1..d.last,
           Copy(c)!Sources(d.rows) \cap (1..y1.last) \subseteq Copy(c)!Sources(y1.rows)
    PROVE  Copy(c)!AsSent'
<1>1. y7'.failures = y7.failures /\ y7'.runners = y7.runners
  BY CopyHas
<1>2. y1 \in Copy(c)!Databases /\ Copy(c)!In(y1.sent) \subseteq 1..y1.last
  BY CopyHas DEF Copy!MirrorInv, Copy!Accounted
<1>3. ASSUME y7.failures = 0, y7.runners = 0 PROVE Copy(c)!Answered(d, y3)
  <2>1. Copy(c)!Answered(y1, y3)
    BY <1>3, AsSentHas
  <2>2. Copy(c)!Sources(d.rows) \subseteq 1..d.last
    BY <2>1 DEF Copy!Answered
  <2> QED BY <1>2, <2>1, <2>2, ChangedAnswers
<1> QED BY <1>1, <1>3, AsSentAfter

LEMMA InsertAsSent ==
    ASSUME NEW CONSTANT c, Copy(c)!MirrorAssumption, Copy(c)!MirrorInv, Copy(c)!AsSent,
           NEW k \in c.keys, NEW v \in c.values, Copy(c)!Insert(k, v)
    PROVE  Copy(c)!AsSent'
<1> DEFINE id == y1.last + 1
           post == [key |-> k, value |-> v]
           put == [y1.rows EXCEPT !.posts[id] = post]
           both == [put EXCEPT !.src[id] = id]
           rows == [both EXCEPT !.gen = y7.jobs]
           d == [y1 EXCEPT !.last = id, !.rows = rows]
<1>1. y1.last \in Nat /\ id = y1.last + 1 /\ id \in Copy(c)!Ids
  BY CopyHas DEF Copy!Insert, Copy!Databases, Copy!Ids, Copy!MirrorAssumption
<1>2. post \in Copy(c)!Posts /\ post # Copy(c)!NoPost /\ post.key = k
  BY DEF Copy!Posts, Copy!NoPost, Copy!MirrorAssumption
<1>3. y1' = d /\ y4 = "cycle" /\ UNCHANGED <<y3, y4>> /\ y7' = [y7 EXCEPT !.changes = @ + 1]
  BY CopyHas DEF Copy!Insert, Copy!Databases, Copy!Rows
<1> HIDE DEF id, post
<1>4. /\ put \in Copy(c)!Rows /\ put.src = y1.rows.src
      /\ put.posts = [y1.rows.posts EXCEPT ![id] = post]
      /\ Copy(c)!In(put) = Copy(c)!In(y1.rows) \cup {id}
  <2>1. y1.rows \in Copy(c)!Rows /\ put = [y1.rows EXCEPT !.posts[id] = post]
    BY CopyHas
  <2> HIDE DEF put
  <2>2. /\ put \in Copy(c)!Rows /\ put.src = y1.rows.src
        /\ put.posts = [y1.rows.posts EXCEPT ![id] = post]
    BY <1>1, <1>2, <2>1 DEF Copy!Rows
  <2>3. \A x \in Copy(c)!Ids : put.posts[x] = IF x = id THEN post ELSE y1.rows.posts[x]
    BY <2>1, <2>2 DEF Copy!Rows
  <2> QED BY <1>1, <1>2, <2>2, <2>3 DEF Copy!In
<1>5. Copy(c)!Sources(put) = Copy(c)!Sources(y1.rows)
  BY <1>4 DEF Copy!Sources
<1> HIDE DEF put
<1>6. /\ both \in Copy(c)!Rows
      /\ Copy(c)!In(both) = Copy(c)!In(put)
      /\ Copy(c)!Sources(both) = Copy(c)!Sources(put) \cup {id}
  BY <1>1, <1>4, SourcePut
<1> HIDE DEF both
<1>7. /\ rows \in Copy(c)!Rows
      /\ Copy(c)!In(rows) = Copy(c)!In(both) /\ Copy(c)!Sources(rows) = Copy(c)!Sources(both)
  BY <1>6, CopyHas DEF Copy!Rows, Copy!In, Copy!Sources
<1> HIDE DEF rows
<1>8. d \in Copy(c)!Databases /\ d.rows = rows /\ d.sent = y1.sent /\ d.last = id
  <2>1. rows \in Copy(c)!Rows /\ id \in Nat
    BY <1>1, <1>7
  <2> QED BY <2>1, CopyHas DEF Copy!Databases
<1>9. y1.last <= id /\ id \notin 1..y1.last /\ 1..y1.last \subseteq 1..id /\ id \in 1..id
  BY <1>1
<1> HIDE DEF d
<1>10. /\ Copy(c)!In(d.rows) \cap (1..y1.last) \subseteq Copy(c)!In(y1.rows)
       /\ Copy(c)!Sources(d.rows) \cap (1..y1.last) \subseteq Copy(c)!Sources(y1.rows)
       /\ Copy(c)!Sources(y1.rows) \subseteq 1..y1.last => Copy(c)!Sources(d.rows) \subseteq 1..d.last
  BY <1>4, <1>5, <1>6, <1>7, <1>8, <1>9
<1> QED BY <1>3, <1>8, <1>9, <1>10, ChangeAsSent

LEMMA ChangesAsSent ==
    ASSUME NEW CONSTANT c, Copy(c)!MirrorAssumption, Copy(c)!MirrorInv, Copy(c)!AsSent,
           NEW rows \in Copy(c)!Rows, Copy(c)!Changes(rows),
           Copy(c)!In(rows) = Copy(c)!In(y1.rows), Copy(c)!Sources(rows) = Copy(c)!Sources(y1.rows)
    PROVE  Copy(c)!AsSent'
<1> DEFINE now == [rows EXCEPT !.gen = y7.jobs]
           d == [y1 EXCEPT !.rows = now]
<1>1. /\ now \in Copy(c)!Rows /\ Copy(c)!In(now) = Copy(c)!In(y1.rows)
      /\ Copy(c)!Sources(now) = Copy(c)!Sources(y1.rows)
  BY CopyHas DEF Copy!Rows, Copy!In, Copy!Sources
<1>2. /\ d \in Copy(c)!Databases /\ d.rows = now /\ d.sent = y1.sent
      /\ d.last = y1.last /\ y1.last \in Nat
  BY <1>1, CopyHas DEF Copy!Databases
<1>3. y1' = d /\ y4 = "cycle" /\ UNCHANGED <<y3, y4>> /\ y7' = [y7 EXCEPT !.changes = @ + 1]
  BY DEF Copy!Changes
<1> HIDE DEF d, now
<1> QED BY <1>1, <1>2, <1>3, ChangeAsSent

LEMMA PostChangeAsSent ==
    ASSUME NEW CONSTANT c, Copy(c)!MirrorAssumption, Copy(c)!MirrorInv, Copy(c)!AsSent,
           NEW id \in Copy(c)!Ids,
           \/ \E k \in c.keys : Copy(c)!Rekey(id, k)
           \/ \E v \in c.values : Copy(c)!Alter(id, v)
           \/ \E s \in Copy(c)!Ids : Copy(c)!MoveSource(s, id)
    PROVE  Copy(c)!AsSent'
<1>1. y1.rows \in Copy(c)!Rows
  BY CopyHas
<1>2. ASSUME NEW post \in Copy(c)!Posts, post # Copy(c)!NoPost, id \in Copy(c)!In(y1.rows),
             Copy(c)!Changes([y1.rows EXCEPT !.posts[id] = post])
      PROVE  Copy(c)!AsSent'
  <2> DEFINE rows == [y1.rows EXCEPT !.posts[id] = post]
  <2>1. /\ rows \in Copy(c)!Rows /\ rows.src = y1.rows.src
        /\ Copy(c)!In(rows) = Copy(c)!In(y1.rows) \cup {id}
    BY <1>1, <1>2, PostPut
  <2>2. Copy(c)!Changes(rows)
    BY <1>2
  <2> HIDE DEF rows
  <2>3. Copy(c)!In(rows) = Copy(c)!In(y1.rows) /\ Copy(c)!Sources(rows) = Copy(c)!Sources(y1.rows)
    BY <1>2, <2>1 DEF Copy!Sources
  <2> QED BY <2>1, <2>2, <2>3, ChangesAsSent
<1>3. ASSUME NEW k \in c.keys, Copy(c)!Rekey(id, k) PROVE Copy(c)!AsSent'
  <2> DEFINE post == [y1.rows.posts[id] EXCEPT !.key = k]
  <2>1. id \in Copy(c)!In(y1.rows) /\ Copy(c)!Changes([y1.rows EXCEPT !.posts[id] = post])
    BY <1>3 DEF Copy!Rekey
  <2>2. y1.rows.posts[id] \in [key : c.keys, value : c.values]
    BY <1>1, <2>1 DEF Copy!In, Copy!Posts, Copy!Rows
  <2>3. post \in Copy(c)!Posts /\ post # Copy(c)!NoPost
    BY <2>2 DEF Copy!Posts, Copy!NoPost, Copy!MirrorAssumption
  <2> QED BY <1>2, <2>1, <2>3
<1>4. ASSUME NEW v \in c.values, Copy(c)!Alter(id, v) PROVE Copy(c)!AsSent'
  <2> DEFINE post == [y1.rows.posts[id] EXCEPT !.value = v]
  <2>1. id \in Copy(c)!In(y1.rows) /\ Copy(c)!Changes([y1.rows EXCEPT !.posts[id] = post])
    BY <1>4 DEF Copy!Alter
  <2>2. y1.rows.posts[id] \in [key : c.keys, value : c.values]
    BY <1>1, <2>1 DEF Copy!In, Copy!Posts, Copy!Rows
  <2>3. post \in Copy(c)!Posts /\ post # Copy(c)!NoPost
    BY <2>2 DEF Copy!Posts, Copy!NoPost, Copy!MirrorAssumption
  <2> QED BY <1>2, <2>1, <2>3
<1>5. ASSUME NEW s \in Copy(c)!Ids, Copy(c)!MoveSource(s, id) PROVE Copy(c)!AsSent'
  <2> DEFINE rows == [y1.rows EXCEPT !.src[s] = id]
  <2>1. s \in Copy(c)!Sources(y1.rows) /\ Copy(c)!Changes(rows)
    BY <1>5 DEF Copy!MoveSource
  <2>2. /\ rows \in Copy(c)!Rows /\ rows.posts = y1.rows.posts
        /\ rows.src = [y1.rows.src EXCEPT ![s] = id]
        /\ Copy(c)!In(rows) = Copy(c)!In(y1.rows)
        /\ Copy(c)!Sources(rows) = Copy(c)!Sources(y1.rows) \cup {s}
    <3>1. rows = [y1.rows EXCEPT !.src[s] = id]
      OBVIOUS
    <3> HIDE DEF rows
    <3>2. /\ rows \in Copy(c)!Rows /\ rows.posts = y1.rows.posts
          /\ rows.src = [y1.rows.src EXCEPT ![s] = id]
      BY <1>1, <3>1 DEF Copy!Rows
    <3>3. \A x \in Copy(c)!Ids : rows.src[x] = IF x = s THEN id ELSE y1.rows.src[x]
      BY <1>1, <3>2 DEF Copy!Rows
    <3>4. id # 0
      BY DEF Copy!Ids
    <3> QED BY <3>2, <3>3, <3>4 DEF Copy!In, Copy!Sources
  <2> HIDE DEF rows
  <2>3. Copy(c)!Sources(rows) = Copy(c)!Sources(y1.rows)
    BY <2>1, <2>2
  <2> QED BY <2>1, <2>2, <2>3, ChangesAsSent
<1> QED BY <1>3, <1>4, <1>5

LEMMA MergeAsSent ==
    ASSUME NEW CONSTANT c, Copy(c)!MirrorAssumption, Copy(c)!MirrorInv, Copy(c)!AsSent,
           NEW id \in Copy(c)!Ids, NEW kept \in Copy(c)!Ids, Copy(c)!Merge(id, kept)
    PROVE  Copy(c)!AsSent'
<1> DEFINE Moved == [s \in Copy(c)!Ids |-> IF y2.rows.src[s] = id THEN kept ELSE y2.rows.src[s]]
           rows == [y2.rows EXCEPT !.posts[id] = Copy(c)!NoPost, !.src = Moved]
           d == [y2 EXCEPT !.rows = rows]
<1>1. y4 = "idle" /\ UNCHANGED <<y3, y4>> /\ y7' = [y7 EXCEPT !.changes = @ + 1]
  BY DEF Copy!Merge
<1>2. y2' = d
  BY CopyHas DEF Copy!Merge, Copy!Databases, Copy!Rows
<1>3. Moved \in [Copy(c)!Ids -> Copy(c)!Ids \cup {0}]
  BY CopyHas DEF Copy!Rows
<1>4. /\ rows \in Copy(c)!Rows /\ rows.src = Moved
      /\ rows.posts = [y2.rows.posts EXCEPT ![id] = Copy(c)!NoPost]
  <2> HIDE DEF Moved
  <2> QED BY <1>3, CopyHas DEF Copy!Rows, Copy!Posts
<1>5. Copy(c)!In(rows) \subseteq Copy(c)!In(y2.rows)
  BY <1>4, CopyHas DEF Copy!In, Copy!Rows
<1>6. Copy(c)!Sources(rows) \subseteq Copy(c)!Sources(y2.rows)
  <2>1. id # 0
    BY DEF Copy!Ids
  <2>2. \A s \in Copy(c)!Ids : rows.src[s] = IF y2.rows.src[s] = id THEN kept ELSE y2.rows.src[s]
    BY <1>4
  <2> HIDE DEF rows
  <2> QED BY <2>1, <2>2 DEF Copy!Sources
<1>7. d \in Copy(c)!Databases /\ d.rows = rows /\ d.sent = y2.sent /\ d.last = y2.last
  <2> HIDE DEF rows
  <2> QED BY <1>4, CopyHas DEF Copy!Databases
<1> HIDE DEF d, rows, Moved
<1>8. y7'.failures = y7.failures /\ y7'.runners = y7.runners
  BY <1>1, CopyHas
<1>9. ASSUME y7.failures = 0, y7.runners = 0 PROVE Copy(c)!Answered(d, y3)
  <2>1. Copy(c)!Answered(y2, y3)
    BY <1>1, <1>9, AsSentHas
  <2>2. y2 \in Copy(c)!Databases /\ y2.last <= d.last /\ Copy(c)!In(y2.sent) \subseteq 1..y2.last
    BY <1>7, CopyHas DEF Copy!MirrorInv, Copy!Accounted, Copy!Databases
  <2>3. Copy(c)!Sources(d.rows) \subseteq 1..d.last
    BY <1>6, <1>7, <2>1 DEF Copy!Answered
  <2> QED BY <1>5, <1>6, <1>7, <2>1, <2>2, <2>3, ChangedAnswers
<1> QED BY <1>1, <1>2, <1>8, <1>9, AsSentAfter

LEMMA QuietAsSent ==
    ASSUME NEW CONSTANT c, Copy(c)!MirrorAssumption, Copy(c)!MirrorInv, Copy(c)!AsSent,
           \/ Copy(c)!Cycled \/ Copy(c)!Save \/ Copy(c)!LoseRunner \/ Copy(c)!LoseCache
    PROVE  Copy(c)!AsSent'
<1>1. CASE Copy(c)!Cycled
  BY <1>1, AsSentHas, AsSentAfter DEF Copy!Cycled
<1>2. CASE Copy(c)!Save
  BY <1>2, AsSentHas, AsSentAfter DEF Copy!Save
<1>3. CASE Copy(c)!LoseRunner
  <2>1. y7'.runners = y7.runners + 1 /\ y7.runners \in Nat
    BY <1>3, CopyHas DEF Copy!LoseRunner
  <2> QED BY <2>1, AsSentAfter
<1>4. CASE Copy(c)!LoseCache
  <2>1. Copy(c)!NoDb.last = 0 /\ Copy(c)!NoDb.rows = Copy(c)!NoRows /\ Copy(c)!NoDb.sent = Copy(c)!NoRows
    BY DEF Copy!NoDb
  <2>2. Copy(c)!Answered(Copy(c)!NoDb, y3)
    BY <2>1, NothingTyped DEF Copy!Answered, Copy!NoRows
  <2>3. y2' = Copy(c)!NoDb /\ y4' = "idle" /\ y3' = y3
    BY <1>4 DEF Copy!LoseCache
  <2> QED BY <2>2, <2>3, AsSentAfter
<1> QED BY <1>1, <1>2, <1>3, <1>4

LEMMA RefuseAsSent ==
    ASSUME NEW CONSTANT c, Copy(c)!AsSent, y4 # "idle", NEW why, Copy(c)!Refuse(why)
    PROVE  Copy(c)!AsSent'
BY AsSentHas, AsSentAfter DEF Copy!Refuse

LEMMA RequestAsSent ==
    ASSUME NEW CONSTANT c, Copy(c)!MirrorInv, NEW after, NEW next, next # "idle",
           NEW known, Copy(c)!Request(after, next, known),
           y7.failures = 0 /\ y7.runners = 0 =>
               /\ Copy(c)!Answered(known, after)
               /\ next \in {"sources", "runs", "mirrored"} => after.posts = known.rows.posts
               /\ next \in {"runs", "mirrored"} => after.src = known.rows.src
               /\ next = "mirrored" => after.gen = known.rows.gen
    PROVE  Copy(c)!AsSent'
<1>1. CASE y3' = after /\ y1' = known /\ y4' = next /\ y7' = y7
  BY <1>1, AsSentAfter
<1>2. CASE y7' = [y7 EXCEPT !.failures = @ + 1]
  <2>1. y7'.failures = y7.failures + 1 /\ y7.failures \in Nat
    BY <1>2, CopyHas
  <2> QED BY <2>1, AsSentAfter
<1> QED BY <1>1, <1>2 DEF Copy!Request

LEMMA StrayAsSent ==
    ASSUME NEW CONSTANT c, Copy(c)!MirrorAssumption, Copy(c)!MirrorInv, Copy(c)!AsSent,
           Copy(c)!StraySources \/ Copy(c)!StrayPosts
    PROVE  Copy(c)!AsSent'
<1>1. CASE Copy(c)!StraySources
  <2> DEFINE Kept == [s \in Copy(c)!Ids |-> IF s \in Copy(c)!Sources(y1.rows) THEN y3.src[s] ELSE 0]
             after == [y3 EXCEPT !.src = Kept]
  <2>1. y4 = "stray sources" /\ Copy(c)!Request(after, "stray posts", y1)
    BY <1>1 DEF Copy!StraySources
  <2>2. after.posts = y3.posts /\ \A s \in Copy(c)!Sources(y1.rows) : after.src[s] = y3.src[s]
    BY CopyHas DEF Copy!Rows, Copy!Sources
  <2> HIDE DEF after
  <2>3. y7.failures = 0 /\ y7.runners = 0 => Copy(c)!Answered(y1, after)
    BY <2>1, <2>2, AsSentHas, StrayAnswers
  <2> QED BY <2>1, <2>3, RequestAsSent
<1>2. CASE Copy(c)!StrayPosts
  <2> DEFINE keep == Copy(c)!In(y1.rows)
             Posts == [id \in Copy(c)!Ids |-> IF id \in keep THEN y3.posts[id] ELSE Copy(c)!NoPost]
             Kept == [s \in Copy(c)!Ids |-> IF y3.src[s] \in keep THEN y3.src[s] ELSE 0]
             after == [y3 EXCEPT !.posts = Posts, !.src = Kept]
  <2>1. y4 = "stray posts" /\ Copy(c)!Request(after, "posts", y1)
    BY <1>2, CopyHas DEF Copy!StrayPosts, Copy!Rows
  <2>2. after.src = Kept /\ after.posts = Posts
    <3> HIDE DEF Posts, Kept
    <3> QED BY CopyHas DEF Copy!Rows
  <2>3. /\ \A id \in Copy(c)!In(y1.rows) : after.posts[id] = y3.posts[id]
        /\ \A s \in Copy(c)!Sources(y1.rows) :
              \/ after.src[s] = y3.src[s]
              \/ after.src[s] = 0 /\ y3.src[s] \notin Copy(c)!In(y1.rows)
    BY <2>2 DEF Copy!In, Copy!Sources
  <2> HIDE DEF after
  <2>4. y7.failures = 0 /\ y7.runners = 0 => Copy(c)!Answered(y1, after)
    BY <2>1, <2>3, AsSentHas, StrayAnswers
  <2> QED BY <2>1, <2>4, RequestAsSent
<1> QED BY <1>1, <1>2

LEMMA SendPostAsSent ==
    ASSUME NEW CONSTANT c, Copy(c)!MirrorAssumption, Copy(c)!MirrorInv, Copy(c)!AsSent,
           Copy(c)!SendPost
    PROVE  Copy(c)!AsSent'
<1> DEFINE id == Copy(c)!Least(Copy(c)!ChangedPosts)
           post == y1.rows.posts[id]
           after == [y3 EXCEPT !.posts[id] = post]
           sent == [y1.sent EXCEPT !.posts[id] = post]
           known == [y1 EXCEPT !.sent = sent]
           Taken == \E other \in Copy(c)!Ids \ {id} : y3.posts[other].key = post.key
<1>1. y4 = "posts" /\ (Taken => Copy(c)!Refuse("key"))
  BY DEF Copy!SendPost
<1>2. ~Taken => Copy(c)!Request(after, "posts", known)
  BY CopyHas DEF Copy!SendPost, Copy!Databases
<1>3. id \in Copy(c)!In(y1.rows) /\ id \in Copy(c)!Ids
  <2>1. Copy(c)!ChangedPosts # {} /\ Copy(c)!ChangedPosts \subseteq Copy(c)!In(y1.rows)
        /\ Copy(c)!In(y1.rows) \subseteq Copy(c)!Ids
    BY DEF Copy!SendPost, Copy!ChangedPosts, Copy!In
  <2> QED BY SMTT(60), <2>1, LeastIsOne DEF Copy!MirrorAssumption
<1>4. CASE Taken
  BY <1>1, <1>4, RefuseAsSent
<1>5. CASE ~Taken
  <2>1. post \in Copy(c)!Posts
    BY <1>3, CopyHas DEF Copy!Rows
  <2>2. Copy(c)!Request(after, "posts", known)
    BY <1>2, <1>5
  <2>3. y1 \in Copy(c)!Databases /\ y1.sent \in Copy(c)!Rows /\ y3 \in Copy(c)!Rows
    BY CopyHas
  <2> HIDE DEF id, post
  <2>4. /\ after \in Copy(c)!Rows /\ after.src = y3.src
        /\ after.posts = [y3.posts EXCEPT ![id] = post]
    BY <1>3, <2>1, <2>3 DEF Copy!Rows
  <2>5. /\ sent \in Copy(c)!Rows /\ sent.src = y1.sent.src
        /\ sent.posts = [y1.sent.posts EXCEPT ![id] = post]
    BY <1>3, <2>1, <2>3 DEF Copy!Rows
  <2> HIDE DEF after, sent
  <2>6. /\ known \in Copy(c)!Databases /\ known.rows = y1.rows /\ known.last = y1.last
        /\ known.sent = sent
    BY <2>3, <2>5 DEF Copy!Databases
  <2> HIDE DEF known
  <2>7. ASSUME y7.failures = 0, y7.runners = 0 PROVE Copy(c)!Answered(known, after)
    <3>1. Copy(c)!Answered(y1, y3)
      BY <1>1, <2>7, AsSentHas
    <3> QED BY <1>3, <2>3, <2>4, <2>5, <2>6, <3>1, PostAnswers
  <2> QED BY <2>2, <2>7, RequestAsSent
<1> QED BY <1>4, <1>5

LEMMA PostsSentAsSent ==
    ASSUME NEW CONSTANT c, Copy(c)!MirrorAssumption, Copy(c)!MirrorInv, Copy(c)!AsSent,
           Copy(c)!PostsSent
    PROVE  Copy(c)!AsSent'
<1> DEFINE Told == [id \in Copy(c)!Ids |->
                      IF id \in Copy(c)!In(y1.rows) THEN y1.sent.posts[id] ELSE Copy(c)!NoPost]
           sent == [y1.sent EXCEPT !.posts = Told]
           d == [y1 EXCEPT !.sent = sent]
<1>1. y4 = "posts" /\ y4' = "sources" /\ y3' = y3 /\ y7' = y7 /\ y1' = d
  BY CopyHas DEF Copy!PostsSent, Copy!Databases, Copy!Rows
<1>2. Told \in [Copy(c)!Ids -> Copy(c)!Posts]
  BY CopyHas DEF Copy!Rows, Copy!Posts
<1>3. sent \in Copy(c)!Rows /\ sent.posts = Told /\ sent.src = y1.sent.src
  <2> HIDE DEF Told
  <2> QED BY <1>2, CopyHas DEF Copy!Rows
<1>4. \A id \in Copy(c)!Ids : sent.posts[id] \in {y1.sent.posts[id], Copy(c)!NoPost}
  BY <1>3
<1> HIDE DEF sent
<1>5. d \in Copy(c)!Databases /\ d.rows = y1.rows /\ d.last = y1.last /\ d.sent = sent
  BY <1>3, CopyHas DEF Copy!Databases
<1> HIDE DEF d
<1>6. ASSUME y7.failures = 0, y7.runners = 0
      PROVE  Copy(c)!Answered(d, y3) /\ y3.posts = d.rows.posts
  <2>1. Copy(c)!Answered(y1, y3)
    BY <1>1, <1>6, AsSentHas
  <2>2. Copy(c)!Answered(d, y3)
    BY <1>3, <1>4, <1>5, <2>1, CopyHas, ForgottenAnswers
  <2>3. /\ y3.posts \in [Copy(c)!Ids -> Copy(c)!Posts]
        /\ y1.rows.posts \in [Copy(c)!Ids -> Copy(c)!Posts]
    BY CopyHas DEF Copy!Rows
  <2>4. Copy(c)!In(y3) \subseteq Copy(c)!In(y1.rows)
    BY <1>1 DEF Copy!MirrorInv, Copy!Pushed
  <2>5. ASSUME NEW id \in Copy(c)!Ids PROVE y3.posts[id] = y1.rows.posts[id]
    <3>1. CASE id \in Copy(c)!In(y1.rows)
      <4>1. y1.rows.posts[id] = y1.sent.posts[id]
        BY <3>1 DEF Copy!PostsSent, Copy!ChangedPosts
      <4>2. id \in Copy(c)!In(y1.sent)
        BY <3>1, <4>1 DEF Copy!In
      <4> QED BY <2>1, <3>1, <4>1, <4>2 DEF Copy!Answered
    <3>2. CASE id \notin Copy(c)!In(y1.rows)
      BY <2>4, <3>2 DEF Copy!In
    <3> QED BY <3>1, <3>2
  <2> QED BY <1>5, <2>2, <2>3, <2>5
<1> QED BY <1>1, <1>6, AsSentAfter

LEMMA SendSourceAsSent ==
    ASSUME NEW CONSTANT c, Copy(c)!MirrorAssumption, Copy(c)!MirrorInv, Copy(c)!AsSent,
           Copy(c)!SendSource
    PROVE  Copy(c)!AsSent'
<1> DEFINE s == Copy(c)!Least(Copy(c)!ChangedSources)
           id == y1.rows.src[s]
           after == [y3 EXCEPT !.src[s] = id]
           sent == [y1.sent EXCEPT !.src[s] = id]
           known == [y1 EXCEPT !.sent = sent]
<1>1. y4 = "sources"
  BY DEF Copy!SendSource
<1>2. s \in Copy(c)!Sources(y1.rows) /\ s \in Copy(c)!Ids
  <2>1. /\ Copy(c)!ChangedSources # {} /\ Copy(c)!ChangedSources \subseteq Copy(c)!Sources(y1.rows)
        /\ Copy(c)!Sources(y1.rows) \subseteq Copy(c)!Ids
    BY DEF Copy!SendSource, Copy!ChangedSources, Copy!Sources
  <2> QED BY SMTT(60), <2>1, LeastIsOne DEF Copy!MirrorAssumption
<1>3. /\ id \in Copy(c)!In(y1.rows) /\ id \in Copy(c)!Ids /\ y3.posts[id] # Copy(c)!NoPost
      /\ id \in 1..y1.last
  BY <1>1, <1>2, CopyHas
  DEF Copy!Parented, Copy!In, Copy!MirrorInv, Copy!Pushed, Copy!Accounted
<1>4. Copy(c)!Request(after, "sources", known)
  BY <1>3, CopyHas DEF Copy!SendSource, Copy!Databases
<1>5. y1 \in Copy(c)!Databases /\ y1.sent \in Copy(c)!Rows /\ y3 \in Copy(c)!Rows
  BY CopyHas
<1> HIDE DEF s, id
<1>6. /\ after \in Copy(c)!Rows /\ after.posts = y3.posts
      /\ after.src = [y3.src EXCEPT ![s] = id]
  BY <1>2, <1>3, <1>5 DEF Copy!Rows
<1>7. /\ sent \in Copy(c)!Rows /\ sent.posts = y1.sent.posts
      /\ sent.src = [y1.sent.src EXCEPT ![s] = id]
  BY <1>2, <1>3, <1>5 DEF Copy!Rows
<1> HIDE DEF after, sent
<1>8. /\ known \in Copy(c)!Databases /\ known.rows = y1.rows /\ known.last = y1.last
      /\ known.sent = sent
  BY <1>5, <1>7 DEF Copy!Databases
<1> HIDE DEF known
<1>9. ASSUME y7.failures = 0, y7.runners = 0
      PROVE  Copy(c)!Answered(known, after) /\ after.posts = known.rows.posts
  <2>1. Copy(c)!Answered(y1, y3) /\ y3.posts = y1.rows.posts
    BY <1>1, <1>9, AsSentHas
  <2>2. PICK q, n, h : q = s /\ n = id /\ h = y3
    OBVIOUS
  <2>3. /\ known.sent.posts = y1.sent.posts /\ after.posts = h.posts
        /\ known.sent.src = [y1.sent.src EXCEPT ![q] = n] /\ after.src = [h.src EXCEPT ![q] = n]
    BY <1>6, <1>7, <1>8, <2>2
  <2>4. /\ y1 \in Copy(c)!Databases /\ h \in Copy(c)!Rows /\ Copy(c)!Answered(y1, h)
        /\ q \in Copy(c)!Sources(y1.rows) /\ n \in 1..y1.last
        /\ known \in Copy(c)!Databases /\ after \in Copy(c)!Rows
        /\ known.rows = y1.rows /\ known.last = y1.last
    BY <1>2, <1>3, <1>5, <1>6, <1>8, <2>1, <2>2
  <2>5. Copy(c)!Answered(known, after)
    BY ONLY <2>3, <2>4, SourceAnswers
  <2> QED BY <1>6, <1>8, <2>1, <2>5
<1> QED BY <1>4, <1>9, RequestAsSent

LEMMA SourcesSentAsSent ==
    ASSUME NEW CONSTANT c, Copy(c)!MirrorAssumption, Copy(c)!MirrorInv, Copy(c)!AsSent,
           Copy(c)!SourcesSent
    PROVE  Copy(c)!AsSent'
<1> DEFINE Told == [s \in Copy(c)!Ids |->
                      IF s \in Copy(c)!Sources(y1.rows) THEN y1.sent.src[s] ELSE 0]
           sent == [y1.sent EXCEPT !.src = Told]
           d == [y1 EXCEPT !.sent = sent]
<1>1. y4 = "sources" /\ y4' = "runs" /\ y3' = y3 /\ y7' = y7 /\ y1' = d
  BY CopyHas DEF Copy!SourcesSent, Copy!Databases, Copy!Rows
<1>2. Told \in [Copy(c)!Ids -> Copy(c)!Ids \cup {0}]
  BY CopyHas DEF Copy!Rows
<1>3. sent \in Copy(c)!Rows /\ sent.src = Told /\ sent.posts = y1.sent.posts
  <2> HIDE DEF Told
  <2> QED BY <1>2, CopyHas DEF Copy!Rows
<1>4. \A s \in Copy(c)!Ids : sent.src[s] \in {y1.sent.src[s], 0}
  BY <1>3
<1> HIDE DEF sent
<1>5. d \in Copy(c)!Databases /\ d.rows = y1.rows /\ d.last = y1.last /\ d.sent = sent
  BY <1>3, CopyHas DEF Copy!Databases
<1> HIDE DEF d
<1>6. ASSUME y7.failures = 0, y7.runners = 0
      PROVE  Copy(c)!Answered(d, y3) /\ y3.posts = d.rows.posts /\ y3.src = d.rows.src
  <2>1. Copy(c)!Answered(y1, y3) /\ y3.posts = y1.rows.posts
    BY <1>1, <1>6, AsSentHas
  <2>2. Copy(c)!Answered(d, y3)
    BY <1>3, <1>4, <1>5, <2>1, CopyHas, ForgottenAnswers
  <2>3. /\ y3.src \in [Copy(c)!Ids -> Copy(c)!Ids \cup {0}]
        /\ y1.rows.src \in [Copy(c)!Ids -> Copy(c)!Ids \cup {0}]
    BY CopyHas DEF Copy!Rows
  <2>4. Copy(c)!Sources(y3) \subseteq Copy(c)!Sources(y1.rows)
    BY <1>1 DEF Copy!MirrorInv, Copy!Pushed
  <2>5. ASSUME NEW s \in Copy(c)!Ids PROVE y3.src[s] = y1.rows.src[s]
    <3>1. CASE s \in Copy(c)!Sources(y1.rows)
      <4>1. y1.rows.src[s] = y1.sent.src[s]
        BY <3>1 DEF Copy!SourcesSent, Copy!ChangedSources
      <4>2. s \in Copy(c)!Sources(y1.sent) /\ y1.sent.src[s] \in Copy(c)!In(y1.rows)
        BY <3>1, <4>1, CopyHas DEF Copy!Sources, Copy!Parented
      <4> QED BY <2>1, <3>1, <4>1, <4>2 DEF Copy!Answered
    <3>2. CASE s \notin Copy(c)!Sources(y1.rows)
      BY <2>4, <3>2 DEF Copy!Sources
    <3> QED BY <3>1, <3>2
  <2> QED BY <1>5, <2>1, <2>2, <2>3, <2>5
<1> QED BY <1>1, <1>6, AsSentAfter

LEMMA SendRunsAsSent ==
    ASSUME NEW CONSTANT c, Copy(c)!MirrorAssumption, Copy(c)!MirrorInv, Copy(c)!AsSent,
           Copy(c)!SendRuns
    PROVE  Copy(c)!AsSent'
<1> DEFINE after == [y3 EXCEPT !.gen = y1.rows.gen]
           sent == [y1.sent EXCEPT !.gen = y1.rows.gen]
           known == [y1 EXCEPT !.sent = sent]
<1>1. y4 = "runs" /\ Copy(c)!Request(after, "mirrored", known)
  BY CopyHas DEF Copy!SendRuns, Copy!Databases
<1>2. /\ after.posts = y3.posts /\ after.src = y3.src /\ after.gen = y1.rows.gen
      /\ sent.posts = y1.sent.posts /\ sent.src = y1.sent.src
  BY CopyHas DEF Copy!Rows
<1> HIDE DEF after, sent
<1>3. known.rows = y1.rows /\ known.last = y1.last /\ known.sent = sent
  BY CopyHas DEF Copy!Databases
<1> HIDE DEF known
<1>4. ASSUME y7.failures = 0, y7.runners = 0
      PROVE  /\ Copy(c)!Answered(known, after) /\ after.posts = known.rows.posts
             /\ after.src = known.rows.src /\ after.gen = known.rows.gen
  <2>1. Copy(c)!Answered(y1, y3) /\ y3.posts = y1.rows.posts /\ y3.src = y1.rows.src
    BY <1>1, <1>4, AsSentHas
  <2>2. /\ Copy(c)!In(known.sent) = Copy(c)!In(y1.sent)
        /\ Copy(c)!Sources(known.sent) = Copy(c)!Sources(y1.sent)
    BY <1>2, <1>3 DEF Copy!In, Copy!Sources
  <2> QED BY <1>2, <1>3, <2>1, <2>2 DEF Copy!Answered
<1> QED BY <1>1, <1>4, RequestAsSent

-----------------------------------------------------------------------------
LEMMA CopySame ==
    ASSUME NEW CONSTANT c, Copy(c)!MirrorInv, UNCHANGED Copy(c)!vars
    PROVE  Copy(c)!MirrorInv'
BY DEF Copy!vars, Copy!MirrorInv, Copy!TypeOK, Copy!Accounted, Copy!Pushed, Copy!Keyed,
       Copy!Parented, Copy!In, Copy!Sources

LEMMA CopyStart ==
    ASSUME NEW CONSTANT c, Copy(c)!MirrorAssumption, Copy(c)!Init
    PROVE  Copy(c)!MirrorInv
<1> DEFINE none == Copy(c)!NoDb
           saved == [none EXCEPT !.there = TRUE]
<1>1. /\ none \in Copy(c)!Databases /\ none.rows = Copy(c)!NoRows /\ none.sent = Copy(c)!NoRows
      /\ Copy(c)!In(none.rows) = {} /\ Copy(c)!Sources(none.rows) = {}
      /\ Copy(c)!NoRows \in Copy(c)!Rows
  BY NothingTyped
<1>2. /\ y1 = none /\ y2 = saved /\ y3 = none.rows /\ y4 = "idle" /\ y5 = {} /\ y6 = {}
      /\ y7 \in [changes : Nat, jobs : 0..c.jobs, failures : Nat, runners : Nat, caches : Nat]
  BY <1>1 DEF Copy!Init, Copy!MirrorAssumption
<1>5. y1 = Copy(c)!NoDb
  BY <1>2
<1> HIDE DEF none
<1>3. saved \in Copy(c)!Databases /\ saved.rows = none.rows /\ saved.sent = none.sent
  BY <1>1 DEF Copy!Databases
<1> HIDE DEF saved
<1>4. Copy(c)!Keyed(none.rows) /\ Copy(c)!Parented(none.rows)
  BY <1>1 DEF Copy!Keyed, Copy!Parented
<1>6. Copy(c)!TypeOK
  BY <1>1, <1>2, <1>3, <1>4 DEF Copy!TypeOK
<1> QED
  BY <1>1, <1>2, <1>3, <1>4, <1>5, <1>6 DEF Copy!MirrorInv, Copy!Accounted, Copy!Pushed

LEMMA CopyStep ==
    ASSUME NEW CONSTANT c, Copy(c)!MirrorAssumption, Copy(c)!MirrorInv,
           [Copy(c)!Next]_(Copy(c)!vars)
    PROVE  Copy(c)!MirrorInv'
<1>1. CASE Copy(c)!Begin BY <1>1, BeginKeeps
<1>2. CASE Copy(c)!Cycle
  BY <1>2, InsertKeeps, RekeyKeeps, AlterKeeps, MoveSourceKeeps, MergeKeeps DEF Copy!Cycle
<1>3. CASE Copy(c)!Push
  BY <1>3, StraySourcesKeeps, StrayPostsKeeps, SendPostKeeps, PostsSentKeeps, SendSourceKeeps,
     SourcesSentKeeps, SendRunsKeeps
  DEF Copy!Push
<1>4. CASE Copy(c)!Cycled \/ Copy(c)!Save \/ Copy(c)!LoseRunner \/ Copy(c)!LoseCache
  BY <1>4, QuietJobKeeps
<1>5. CASE UNCHANGED Copy(c)!vars BY <1>5, CopySame
<1> QED BY <1>1, <1>2, <1>3, <1>4, <1>5 DEF Copy!Next

LEMMA AsSentSame ==
    ASSUME NEW CONSTANT c, Copy(c)!AsSent, UNCHANGED Copy(c)!vars
    PROVE  Copy(c)!AsSent'
BY AsSentHas, AsSentAfter DEF Copy!vars

LEMMA AsSentStart ==
    ASSUME NEW CONSTANT c, Copy(c)!MirrorAssumption, Copy(c)!Init
    PROVE  Copy(c)!AsSent
<1> DEFINE none == Copy(c)!NoDb
           saved == [none EXCEPT !.there = TRUE]
<1>1. /\ none \in Copy(c)!Databases /\ none.rows = Copy(c)!NoRows /\ none.sent = Copy(c)!NoRows
      /\ none.last = 0
  BY NothingTyped DEF Copy!NoDb
<1>2. y2 = saved /\ y4 = "idle"
  BY DEF Copy!Init
<1> HIDE DEF none
<1>3. /\ saved.rows = Copy(c)!NoRows /\ saved.sent = Copy(c)!NoRows /\ saved.last = 0
  BY <1>1 DEF Copy!Databases
<1> HIDE DEF saved
<1>4. Copy(c)!Answered(saved, y3)
  BY <1>3, NothingTyped DEF Copy!Answered, Copy!NoRows
<1> QED BY <1>2, <1>4 DEF Copy!AsSent

LEMMA AsSentStep ==
    ASSUME NEW CONSTANT c, Copy(c)!MirrorAssumption, Copy(c)!MirrorInv, Copy(c)!AsSent,
           [Copy(c)!Next]_(Copy(c)!vars)
    PROVE  Copy(c)!AsSent'
<1>1. CASE Copy(c)!Begin BY <1>1, BeginAsSent
<1>2. CASE Copy(c)!Cycle
  BY <1>2, InsertAsSent, PostChangeAsSent, MergeAsSent DEF Copy!Cycle
<1>3. CASE Copy(c)!Push
  BY <1>3, StrayAsSent, SendPostAsSent, PostsSentAsSent, SendSourceAsSent, SourcesSentAsSent,
     SendRunsAsSent
  DEF Copy!Push
<1>4. CASE Copy(c)!Cycled \/ Copy(c)!Save \/ Copy(c)!LoseRunner \/ Copy(c)!LoseCache
  BY <1>4, QuietAsSent
<1>5. CASE UNCHANGED Copy(c)!vars BY <1>5, AsSentSame
<1> QED BY <1>1, <1>2, <1>3, <1>4, <1>5 DEF Copy!Next

LEMMA MirrorInvSuffices ==
    ASSUME NEW CONSTANT c, Copy(c)!MirrorInv, Copy(c)!AsSent
    PROVE  Copy(c)!MirrorIsComplete
<1>1. ASSUME y4 = "mirrored", Copy(c)!Undisturbed PROVE y3 = y1.rows
  <2>1. y3.posts = y1.rows.posts /\ y3.src = y1.rows.src /\ y3.gen = y1.rows.gen
    BY <1>1 DEF Copy!AsSent
  <2> QED BY <2>1, CopyHas DEF Copy!Rows
<1> QED BY <1>1 DEF Copy!MirrorInv, Copy!Pushed, Copy!MirrorIsComplete

(* Mirror: whatever requests fail and runners and caches are lost, no source  *)
(* is sent before its posting or left without it, and a push that ended well  *)
(* leaves the mirror with the postings of the database and no others, and     *)
(* with every row as it is here when no answer and no runner was lost.        *)
THEOREM MirrorAlwaysComplete ==
    ASSUME NEW CONSTANT c, Copy(c)!MirrorAssumption
    PROVE  Copy(c)!Spec => []Copy(c)!MirrorIsComplete
<1>1. Copy(c)!Init => Copy(c)!MirrorInv /\ Copy(c)!AsSent
  BY CopyStart, AsSentStart
<1>2. Copy(c)!MirrorInv /\ Copy(c)!AsSent /\ [Copy(c)!Next]_(Copy(c)!vars)
        => Copy(c)!MirrorInv' /\ Copy(c)!AsSent'
  BY CopyStep, AsSentStep
<1>3. Copy(c)!MirrorInv /\ Copy(c)!AsSent => Copy(c)!MirrorIsComplete
  BY MirrorInvSuffices
<1> QED BY <1>1, <1>2, <1>3, PTL DEF Copy!Spec

-----------------------------------------------------------------------------
(* Registry *)

LEMMA Listing ==
    ASSUME NEW S, NEW a \in S, NEW b \in S
    PROVE  <<a, b>> \in Seq(S) /\ <<a>> \in Seq(S) /\ <<>> \in Seq(S)
OBVIOUS

IsOrder(c, order) ==
    /\ order \in Seq(Roster(c)!Systems \cup {"page"}) /\ Len(order) >= 2
    /\ \A i \in 1..2 : order[i] = Roster(c)!Flat[i]

(* The order of the systems: two for every company, then what there is else. *)
LEMMA OrderIs ==
    ASSUME NEW CONSTANT c, Roster(c)!RegistryAssumption, NEW x, NEW g, NEW order,
           order = Roster(c)!Flat \o c.extra \o (IF x \in c.corporate THEN <<"workday">> ELSE <<>>)
                     \o (IF g = "studios" THEN <<"page">> ELSE <<>>)
    PROVE  IsOrder(c, order)
<1> DEFINE names == Roster(c)!Systems \cup {"page"}
           flat == Roster(c)!Flat
           corporate == IF x \in c.corporate THEN <<"workday">> ELSE <<>>
           page == IF g = "studios" THEN <<"page">> ELSE <<>>
<1>1. flat \in Seq(names) /\ Len(flat) = 2
  <2>1. flat = <<"greenhouse", "workable">>
    BY DEF Roster!Flat
  <2>2. flat[1] \in names /\ flat[2] \in names
    BY DEF Roster!Systems, Roster!Flat
  <2> HIDE DEF names
  <2> QED BY <2>1, <2>2, Listing
<1>2. c.extra \in Seq(names)
  <2>1. c.extra \in Seq(STRING \ {Roster(c)!None})
    BY DEF Roster!RegistryAssumption
  <2>2. \A i \in 1..Len(c.extra) : c.extra[i] \in names
    BY DEF Roster!Systems
  <2> QED BY <2>1, <2>2
<1>3. corporate \in Seq(names)
  <2>1. x \in c.corporate => "workday" \in names
    BY DEF Roster!Systems
  <2> HIDE DEF names
  <2> QED BY <2>1, Listing
<1>4. page \in Seq(names)
  <2>1. "page" \in names
    OBVIOUS
  <2> HIDE DEF names
  <2> QED BY <2>1, Listing
<1>5. order = ((flat \o c.extra) \o corporate) \o page
  OBVIOUS
<1> HIDE DEF names, flat, corporate, page
<1> DEFINE some == flat \o c.extra
           more == some \o corporate
<1>6. some \in Seq(names) /\ Len(some) >= 2 /\ \A i \in 1..2 : some[i] = flat[i]
  <2>1. PICK extra : extra = c.extra
    OBVIOUS
  <2>2. /\ flat \o extra \in Seq(names) /\ Len(flat \o extra) = Len(flat) + Len(extra)
        /\ \A i \in 1..Len(flat) + Len(extra) :
              (flat \o extra)[i] = IF i <= Len(flat) THEN flat[i] ELSE extra[i - Len(flat)]
    BY <1>1, <1>2, <2>1, ConcatProperties
  <2>3. Len(extra) \in Nat
    BY <1>2, <2>1
  <2> QED BY <1>1, <2>1, <2>2, <2>3
<1> HIDE DEF some
<1>7. more \in Seq(names) /\ Len(more) >= 2 /\ \A i \in 1..2 : more[i] = flat[i]
  BY <1>3, <1>6
<1> HIDE DEF more
<1>8. more \o page \in Seq(names) /\ Len(more \o page) >= 2
      /\ \A i \in 1..2 : (more \o page)[i] = flat[i]
  BY <1>4, <1>7
<1> QED BY <1>5, <1>8 DEF some, more, flat, names, IsOrder

LEMMA OrderSame ==
    ASSUME NEW CONSTANT c, NEW CONSTANT x, y5'.group = y5.group
    PROVE  Roster(c)!Order(x)' = Roster(c)!Order(x)
BY DEF Roster!Order

(* Only the system a company is on confirms it there. *)
LEMMA ConfirmedIsThere ==
    ASSUME NEW CONSTANT c, NEW x, NEW a, NEW exact,
           Roster(c)!IsConfirmed(a, Roster(c)!Served(x, a, exact))
    PROVE  y1[x].ats = a
BY DEF Roster!IsConfirmed, Roster!Served

(* And one its name leads to is confirmed as soon as it is asked. *)
LEMMA EasyIsConfirmed ==
    ASSUME NEW CONSTANT c, NEW x, Roster(c)!Easy(x)
    PROVE  Roster(c)!IsConfirmed(y1[x].ats, Roster(c)!Served(x, y1[x].ats, FALSE))
BY DEF Roster!Easy, Roster!IsConfirmed, Roster!Served

(* Seeds are companies. *)
LEMMA SeedsAre ==
    ASSUME NEW CONSTANT c, Roster(c)!RegistryAssumption, NEW r, r.yc \in Seq(c.companies),
           r.limit \in Nat,
           NEW g \in Roster(c)!Groups
    PROVE  Roster(c)!Seeds(r, g) \subseteq c.companies
<1>1. ASSUME NEW s \in Seq(c.companies), NEW n \in Nat
      PROVE  Roster(c)!First(s, n) \subseteq c.companies
  <2>1. SUFFICES ASSUME NEW i \in 1..(IF n < Len(s) THEN n ELSE Len(s))
                 PROVE  s[i] \in c.companies
    BY DEF Roster!First
  <2>2. i \in 1..Len(s)
    OBVIOUS
  <2> QED BY <2>2, ElementOfSeq
<1> QED BY <1>1 DEF Roster!Seeds, Roster!Groups, Roster!RegistryAssumption

LEMMA SystemsAre ==
    ASSUME NEW CONSTANT c, Roster(c)!RegistryAssumption
    PROVE  Roster(c)!None \notin Roster(c)!Systems
<1>1. \A i \in 1..Len(c.extra) : c.extra[i] # Roster(c)!None
  <2>1. c.extra \in Seq(STRING \ {Roster(c)!None})
    BY DEF Roster!RegistryAssumption
  <2> QED BY <2>1, ElementOfSeq
<1>2. \A i \in 1..Len(Roster(c)!Flat) : Roster(c)!Flat[i] # Roster(c)!None
  BY DEF Roster!Flat, Roster!None
<1> QED BY <1>1, <1>2 DEF Roster!Systems, Roster!None

(* What depends on some of the variables only. *)
LEMMA EasySame ==
    ASSUME NEW CONSTANT c, NEW x, y1' = y1
    PROVE  Roster(c)!Easy(x)' <=> Roster(c)!Easy(x)
BY DEF Roster!Easy, Roster!Served

LEMMA SeedsSame ==
    ASSUME NEW CONSTANT c, NEW r, NEW q, r.yc = q.yc, r.limit = q.limit, NEW g
    PROVE  Roster(c)!Seeds(r, g) = Roster(c)!Seeds(q, g)
BY DEF Roster!Seeds

(* A company opens, empties, moves or closes its board. *)
LEMMA BoardMoves ==
    ASSUME NEW CONSTANT c, Roster(c)!RegistryInv, NEW x \in c.companies,
           NEW b \in Roster(c)!Boards, Roster(c)!Move(x, b)
    PROVE  Roster(c)!RegistryInv'
<1>1. /\ y1 \in [c.companies -> Roster(c)!Boards] /\ y5 \in Roster(c)!Runs
      /\ y6 \in [runs : Nat, moves : Nat, faults : Nat]
  BY DEF Roster!RegistryInv, Roster!Typed
<1>2. /\ y1' = [y1 EXCEPT ![x] = b] /\ y5' = [y5 EXCEPT !.steady = FALSE]
      /\ y6' = [y6 EXCEPT !.moves = @ + 1] /\ y3' = y3 /\ y4' = y4
      /\ y2' = y2 \cup ({<<x, b.ats>>} \ {<<x, Roster(c)!None>>})
  BY DEF Roster!Move
<1>3. /\ y5' \in Roster(c)!Runs /\ ~y5'.steady
      /\ y5'.stage = y5.stage /\ y5'.asked = y5.asked /\ y5'.dry = y5.dry
      /\ y5'.todo = y5.todo /\ y5'.group = y5.group /\ y5'.at = y5.at
      /\ y5'.found = y5.found /\ y5'.done = y5.done /\ y5'.before = y5.before
  BY <1>1, <1>2 DEF Roster!Runs
<1>4. Roster(c)!Typed'
  BY <1>1, <1>2, <1>3 DEF Roster!RegistryInv, Roster!Typed
<1>5. Roster(c)!Seen'
  BY <1>1, <1>2, <1>3 DEF Roster!RegistryInv, Roster!Seen
<1>6. Roster(c)!InTurn'
  BY <1>3, OrderSame DEF Roster!RegistryInv, Roster!InTurn
<1>7. Roster(c)!Holds'
  BY <1>2, <1>3 DEF Roster!RegistryInv, Roster!Holds
<1>8. Roster(c)!WillFind' /\ Roster(c)!FoundIfNamed'
  BY <1>3 DEF Roster!WillFind, Roster!FoundIfNamed
<1>9. Roster(c)!NeverGuessed' /\ Roster(c)!NothingLost' /\ Roster(c)!SectionsStand'
  BY <1>2, <1>3
  DEF Roster!RegistryInv, Roster!RegistryIsSound, Roster!NeverGuessed, Roster!NothingLost,
      Roster!SectionsStand
<1> QED
  BY <1>4, <1>5, <1>6, <1>7, <1>8, <1>9 DEF Roster!RegistryInv, Roster!RegistryIsSound

(* A run begins with all that the registry has, or ends. *)
LEMMA RunBegins ==
    ASSUME NEW CONSTANT c, Roster(c)!RegistryInv, NEW asked \in SUBSET Roster(c)!Groups,
           NEW limit \in 1..2, NEW dry \in BOOLEAN, NEW quiet \in BOOLEAN,
           Roster(c)!Start(asked, limit, dry, quiet) \/ Roster(c)!Leave
    PROVE  Roster(c)!RegistryInv'
<1> DEFINE idle == Roster(c)!Idle
           begun == [idle EXCEPT !.stage = IF "yc" \in asked THEN "directory" ELSE "groups",
                           !.asked = asked, !.limit = limit, !.dry = dry,
                           !.quiet = quiet, !.todo = asked,
                           !.found = y3, !.before = <<y3, y4>>]
<1>1. Roster(c)!Typed /\ Roster(c)!Seen /\ Roster(c)!NeverGuessed
  BY DEF Roster!RegistryInv, Roster!RegistryIsSound
<1>2. /\ idle \in Roster(c)!Runs /\ idle.stage = "idle" /\ idle.group = Roster(c)!None
      /\ idle.at = [x \in c.companies |-> 0] /\ idle.todo = {} /\ idle.asked = {}
      /\ idle.done = [g \in Roster(c)!Groups |-> {}]
      /\ idle.found = [x \in c.companies |-> Roster(c)!None]
  BY DEF Roster!Idle, Roster!Runs, Roster!Files
<1>3. \/ y5' = idle /\ y6' = y6
      \/ y5' = begun /\ y6' = [y6 EXCEPT !.runs = @ + 1]
  BY DEF Roster!Start, Roster!Leave
<1>4. y1' = y1 /\ y2' = y2 /\ y3' = y3 /\ y4' = y4
  BY DEF Roster!Start, Roster!Leave
<1> HIDE DEF idle
<1>5. /\ begun \in Roster(c)!Runs /\ begun.stage \in {"directory", "groups"}
      /\ begun.group = Roster(c)!None
      /\ begun.at = idle.at /\ begun.done = idle.done /\ begun.todo = begun.asked
      /\ begun.found = y3 /\ begun.before = <<y3, y4>>
  <2>1. /\ y3 \in Roster(c)!Files /\ y4 \in Roster(c)!Reports
        /\ <<y3, y4>> \in {<<>>} \cup (Roster(c)!Files \X Roster(c)!Reports)
    BY <1>1 DEF Roster!Typed
  <2>2. (IF "yc" \in asked THEN "directory" ELSE "groups") \in {"directory", "groups"}
    OBVIOUS
  <2>3. limit \in Nat
    OBVIOUS
  <2> DEFINE stage == IF "yc" \in asked THEN "directory" ELSE "groups"
  <2>4. stage \in {"idle", "directory", "groups", "report", "ended"}
    BY <2>2
  <2> HIDE DEF stage
  <2>5. begun \in Roster(c)!Runs
    <3> DEFINE first == [idle EXCEPT !.stage = stage, !.asked = asked, !.limit = limit,
                                     !.dry = dry, !.quiet = quiet]
    <3>1. first \in Roster(c)!Runs
      BY ZenonT(60), <1>2, <2>3, <2>4 DEF Roster!Runs
    <3>2. begun = [first EXCEPT !.todo = asked, !.found = y3, !.before = <<y3, y4>>]
      BY DEF stage
    <3> HIDE DEF first, begun
    <3> QED BY <3>1, <3>2, <2>1 DEF Roster!Runs
  <2>6. /\ begun.stage = stage /\ begun.group = idle.group
        /\ begun.at = idle.at /\ begun.done = idle.done
        /\ begun.todo = asked /\ begun.asked = asked
        /\ begun.found = y3 /\ begun.before = <<y3, y4>>
    BY <1>2 DEF Roster!Runs, stage
  <2> HIDE DEF begun
  <2> QED BY <1>2, <2>2, <2>5, <2>6 DEF stage
<1> HIDE DEF begun
<1>6. Roster(c)!Typed'
  BY <1>1, <1>2, <1>3, <1>4, <1>5 DEF Roster!Typed
<1>7. Roster(c)!Seen' /\ Roster(c)!NeverGuessed'
  <2>1. ASSUME NEW x \in c.companies
        PROVE  y5'.found[x] = Roster(c)!None \/ y5'.found[x] = y3[x]
    BY <1>2, <1>3, <1>5
  <2> QED BY <1>1, <1>4, <2>1 DEF Roster!Seen, Roster!NeverGuessed
<1>8. Roster(c)!InTurn'
  BY <1>2, <1>3, <1>5, OrderSame DEF Roster!InTurn
<1>9. Roster(c)!Holds' /\ Roster(c)!NothingLost' /\ Roster(c)!SectionsStand'
  BY <1>2, <1>3, <1>4, <1>5 DEF Roster!Holds, Roster!NothingLost, Roster!SectionsStand
<1>10. Roster(c)!WillFind' /\ Roster(c)!FoundIfNamed'
  BY ZenonT(60), <1>2, <1>3, <1>5 DEF Roster!WillFind, Roster!FoundIfNamed
<1> QED
  BY <1>6, <1>7, <1>8, <1>9, <1>10 DEF Roster!RegistryInv, Roster!RegistryIsSound

(* While a run asks, only the run changes: what it finds is where it is. *)
LEMMA RunGoesOn ==
    ASSUME NEW CONSTANT c, Roster(c)!RegistryInv, UNCHANGED <<y1, y2, y3, y4>>,
           y5.stage \in {"directory", "groups"}, y5'.stage = "groups",
           y5' \in Roster(c)!Runs, y5'.before = y5.before,
           y6' \in [runs : Nat, moves : Nat, faults : Nat],
           \A x \in c.companies :
              \/ y5'.found[x] = y5.found[x]
              \/ y5.found[x] = Roster(c)!None /\ y5'.found[x] = y1[x].ats,
           Roster(c)!InTurn', Roster(c)!WillFind'
    PROVE  Roster(c)!RegistryInv'
<1>1. Roster(c)!Typed'
  BY DEF Roster!RegistryInv, Roster!Typed
<1>2. Roster(c)!Seen'
  BY DEF Roster!RegistryInv, Roster!Seen
<1>3. Roster(c)!Holds'
  BY DEF Roster!RegistryInv, Roster!Holds
<1>4. Roster(c)!RegistryIsSound'
  BY DEF Roster!RegistryInv, Roster!RegistryIsSound, Roster!NeverGuessed, Roster!NothingLost,
         Roster!FoundIfNamed, Roster!SectionsStand
<1> QED BY <1>1, <1>2, <1>3, <1>4 DEF Roster!RegistryInv

(* The directory answers, or does not. *)
LEMMA DirectoryRead ==
    ASSUME NEW CONSTANT c, Roster(c)!RegistryAssumption, Roster(c)!RegistryInv,
           \/ Roster(c)!DirectoryFails
           \/ \E s \in {<<>>} \cup {<<x>> : x \in c.listed} : Roster(c)!Directory(s)
    PROVE  Roster(c)!RegistryInv'
<1>1. /\ y5 \in Roster(c)!Runs /\ y6 \in [runs : Nat, moves : Nat, faults : Nat]
      /\ Roster(c)!InTurn
  BY DEF Roster!RegistryInv, Roster!Typed
<1>2. PICK s \in Seq(c.companies) :
        \/ y5' = [y5 EXCEPT !.stage = "groups", !.yc = s] /\ y6' = y6
        \/ /\ y5' = [y5 EXCEPT !.stage = "groups", !.steady = FALSE]
           /\ y6' = [y6 EXCEPT !.faults = @ + 1]
  <2>1. \A s \in {<<>>} \cup {<<x>> : x \in c.listed} : s \in Seq(c.companies)
    <3>1. c.listed \subseteq c.companies
      BY DEF Roster!RegistryAssumption
    <3>2. ASSUME NEW x \in c.listed PROVE <<x>> \in Seq(c.companies)
      <4>1. x \in c.companies
        BY <3>1
      <4> QED BY <4>1, Listing
    <3>3. <<>> \in Seq(c.companies)
      OBVIOUS
    <3> QED BY <3>2, <3>3
  <2>2. <<>> \in Seq(c.companies)
    OBVIOUS
  <2> QED BY <2>1, <2>2 DEF Roster!Directory, Roster!DirectoryFails
<1>3. y5.stage = "directory" /\ UNCHANGED <<y1, y2, y3, y4>>
  BY DEF Roster!Directory, Roster!DirectoryFails
<1>4. /\ y5' \in Roster(c)!Runs /\ y5'.stage = "groups" /\ y5'.before = y5.before
      /\ y5'.group = y5.group /\ y5'.asked = y5.asked /\ y5'.todo = y5.todo
      /\ y5'.at = y5.at /\ y5'.done = y5.done /\ y5'.found = y5.found
  <2>1. CASE y5' = [y5 EXCEPT !.stage = "groups", !.yc = s]
    BY <1>1, <2>1 DEF Roster!Runs
  <2>2. CASE y5' = [y5 EXCEPT !.stage = "groups", !.steady = FALSE]
    BY <1>1, <2>2 DEF Roster!Runs
  <2> QED BY <1>2, <2>1, <2>2
<1>5. y6' \in [runs : Nat, moves : Nat, faults : Nat]
  BY <1>1, <1>2
<1>6. y5.group = Roster(c)!None /\ \A g \in Roster(c)!Groups : y5.done[g] = {}
  BY <1>1, <1>3 DEF Roster!InTurn
<1>7. Roster(c)!InTurn'
  BY <1>1, <1>4, <1>6, OrderSame DEF Roster!InTurn
<1>8. Roster(c)!WillFind'
  BY <1>4, <1>6 DEF Roster!WillFind
<1> QED BY <1>3, <1>4, <1>5, <1>7, <1>8, RunGoesOn

(* A group is opened: whom the registry does not know yet is asked for. *)
LEMMA GroupOpens ==
    ASSUME NEW CONSTANT c, Roster(c)!RegistryAssumption, Roster(c)!RegistryInv,
           Roster(c)!OpenGroup
    PROVE  Roster(c)!RegistryInv'
<1>1. /\ y5 \in Roster(c)!Runs /\ y6 \in [runs : Nat, moves : Nat, faults : Nat]
      /\ Roster(c)!InTurn /\ Roster(c)!WillFind
  BY DEF Roster!RegistryInv, Roster!Typed
<1>2. PICK i \in 1..3 :
        /\ Roster(c)!Turn[i] \in y5.todo
        /\ y5' = [y5 EXCEPT !.group = Roster(c)!Turn[i], !.todo = @ \ {Roster(c)!Turn[i]},
                     !.at = [x \in c.companies |->
                               IF /\ x \in Roster(c)!Seeds(y5, Roster(c)!Turn[i]) \ c.excluded
                                  /\ y5.found[x] = Roster(c)!None
                               THEN 1 ELSE 0]]
  BY DEF Roster!OpenGroup
<1> DEFINE g == Roster(c)!Turn[i]
           at == [x \in c.companies |->
                    IF x \in Roster(c)!Seeds(y5, g) \ c.excluded /\ y5.found[x] = Roster(c)!None
                    THEN 1 ELSE 0]
<1>3. g \in y5.todo /\ g \in y5.asked /\ g \in Roster(c)!Groups
  BY <1>1, <1>2 DEF Roster!Runs, Roster!InTurn
<1>4. /\ y5' = [y5 EXCEPT !.group = g, !.todo = @ \ {g}, !.at = at]
      /\ at \in [c.companies -> Nat]
  BY <1>2
<1>5. y5.stage = "groups" /\ UNCHANGED <<y1, y2, y3, y4, y6>>
  BY DEF Roster!OpenGroup
<1>6. Roster(c)!Seeds(y5, g) \subseteq c.companies
  BY <1>1, <1>3, SeedsAre DEF Roster!Runs
<1> HIDE DEF g
<1>7. \A x \in c.companies :
        /\ at[x] <= 1
        /\ x \in Roster(c)!Seeds(y5, g) \ c.excluded /\ y5.found[x] = Roster(c)!None
              => at[x] = 1
  OBVIOUS
<1> HIDE DEF at
<1>8. /\ y5' \in Roster(c)!Runs /\ y5'.stage = y5.stage /\ y5'.before = y5.before
      /\ y5'.group = g /\ y5'.asked = y5.asked /\ y5'.todo = y5.todo \ {g}
      /\ y5'.at = at /\ y5'.done = y5.done /\ y5'.found = y5.found
      /\ y5'.steady = y5.steady /\ y5'.yc = y5.yc /\ y5'.limit = y5.limit
  BY <1>1, <1>3, <1>4 DEF Roster!Runs
<1>9. g # Roster(c)!None
  BY <1>3 DEF Roster!Groups, Roster!None
<1>10. Roster(c)!InTurn'
  <2>1. ASSUME NEW CONSTANT x \in c.companies
        PROVE  /\ y5'.at[x] <= Len(Roster(c)!Order(x))'
               /\ y5'.at[x] > 0 => y5'.found[x] = Roster(c)!None
    <3>1. PICK order : order = Roster(c)!Order(x)'
      OBVIOUS
    <3>2. order \in Seq(Roster(c)!Systems \cup {"page"}) /\ Len(order) >= 2
      BY ZenonT(60), <3>1, OrderIs DEF Roster!Order, IsOrder
    <3>3. at[x] \in Nat /\ at[x] <= 1 /\ y5'.at[x] = at[x]
      BY <1>4, <1>7, <1>8
    <3>4. at[x] > 0 => y5.found[x] = Roster(c)!None
      BY DEF at
    <3> QED BY <1>8, <3>1, <3>2, <3>3, <3>4
  <2> QED BY <1>1, <1>3, <1>5, <1>8, <1>9, <2>1 DEF Roster!InTurn
<1>11. Roster(c)!WillFind'
  <2>1. Roster(c)!Seeds(y5', g) = Roster(c)!Seeds(y5, g)
    BY <1>8 DEF Roster!Seeds
  <2>2. \A x \in c.companies : Roster(c)!Easy(x)' <=> Roster(c)!Easy(x)
    BY <1>5 DEF Roster!Easy, Roster!Served
  <2>3. ASSUME NEW x \in Roster(c)!Seeds(y5, g) \ c.excluded, Roster(c)!Easy(x),
               y5.found[x] = Roster(c)!None
        PROVE  at[x] = 1 /\ \E k \in 1..2 : Roster(c)!Flat[k] = y1[x].ats /\ 1 <= k
    <3>1. at[x] = 1
      BY <1>6, <1>7, <2>3
    <3> QED BY <2>3, <3>1 DEF Roster!Easy
  <2>4. \A x \in Roster(c)!Seeds(y5', g) \ c.excluded :
           Roster(c)!Easy(x)' /\ y5'.found[x] = Roster(c)!None =>
              y5'.at[x] > 0 /\ \E k \in 1..2 : Roster(c)!Flat[k] = y1'[x].ats /\ y5'.at[x] <= k
    BY <1>5, <1>6, <1>8, <2>1, <2>2, <2>3
  <2>5. y5'.steady => \A h \in Roster(c)!Groups : \A x \in y5'.done[h] \ c.excluded :
           Roster(c)!Easy(x)' => y5'.found[x] # Roster(c)!None
    BY <1>1, <1>5, <1>8, <2>2 DEF Roster!WillFind, Roster!Runs
  <2> QED BY <1>8, <2>4, <2>5 DEF Roster!WillFind
<1> QED BY <1>1, <1>5, <1>8, <1>10, <1>11, RunGoesOn

(* A company is asked for at the next system, or found. *)
LEMMA CompanyAsked ==
    ASSUME NEW CONSTANT c, Roster(c)!RegistryAssumption, Roster(c)!RegistryInv,
           NEW x \in c.companies, Roster(c)!Probe(x) \/ Roster(c)!ProbeFails(x)
    PROVE  Roster(c)!RegistryInv'
<1>1. /\ y5 \in Roster(c)!Runs /\ y6 \in [runs : Nat, moves : Nat, faults : Nat]
      /\ Roster(c)!InTurn /\ Roster(c)!WillFind
  BY DEF Roster!RegistryInv, Roster!Typed
<1> DEFINE a == Roster(c)!Order(x)[y5.at[x]]
           found(b) == [y5 EXCEPT !.at[x] = 0, !.again = @ \ {x}, !.found[x] = b]
           next == Roster(c)!Next1(y5, x)
           passed == IF y5.at[x] = Len(Roster(c)!Order(x)) THEN 0 ELSE y5.at[x] + 1
<1>2. /\ y5.at[x] > 0 /\ UNCHANGED <<y1, y2, y3, y4>>
      /\ y6' \in [runs : Nat, moves : Nat, faults : Nat]
  BY <1>1 DEF Roster!Probe, Roster!ProbeFails
<1>3. /\ y5.group # Roster(c)!None /\ y5.stage = "groups" /\ y5.group \in y5.asked
      /\ y5.found[x] = Roster(c)!None
  BY <1>1, <1>2 DEF Roster!InTurn
<1>4. /\ Len(Roster(c)!Order(x)) \in Nat /\ Len(Roster(c)!Order(x)) >= 2
      /\ a \in Roster(c)!Systems \cup {"page"} /\ y5.at[x] \in Nat
      /\ \A i \in 1..2 : y5.at[x] = i => a = Roster(c)!Flat[i]
  <2>1. PICK order, n : order = Roster(c)!Order(x) /\ n = y5.at[x]
    OBVIOUS
  <2>2. /\ order \in Seq(Roster(c)!Systems \cup {"page"}) /\ Len(order) >= 2
        /\ \A i \in 1..2 : order[i] = Roster(c)!Flat[i]
    <3> HIDE DEF a, found, next, passed
    <3>1. PICK g : g = y5.group
      OBVIOUS
    <3>2. order = Roster(c)!Flat \o c.extra \o (IF x \in c.corporate THEN <<"workday">> ELSE <<>>)
                     \o (IF g = "studios" THEN <<"page">> ELSE <<>>)
      BY ONLY <2>1, <3>1 DEF Roster!Order
    <3>3. IsOrder(c, order)
      BY <3>2, OrderIs
    <3> QED BY <3>3 DEF IsOrder
  <2>3. n \in 1..Len(order)
    BY <1>1, <1>2, <2>1, <2>2 DEF Roster!InTurn, Roster!Runs
  <2> QED BY <2>1, <2>2, <2>3, ElementOfSeq
<1>5. ASSUME NEW b \in Roster(c)!Systems, y1[x].ats = b, y5' = found(b)
      PROVE  Roster(c)!RegistryInv'
  <2>1. /\ y5' \in Roster(c)!Runs /\ y5'.stage = y5.stage /\ y5'.before = y5.before
        /\ y5'.group = y5.group /\ y5'.asked = y5.asked /\ y5'.todo = y5.todo
        /\ y5'.done = y5.done /\ y5'.steady = y5.steady /\ y5'.yc = y5.yc
        /\ y5'.limit = y5.limit
        /\ y5'.at = [y5.at EXCEPT ![x] = 0] /\ y5'.found = [y5.found EXCEPT ![x] = b]
    BY <1>1, <1>5 DEF Roster!Runs, Roster!Files
  <2>2. \A z \in c.companies : /\ y5'.at[z] = IF z = x THEN 0 ELSE y5.at[z]
                               /\ y5'.found[z] = IF z = x THEN b ELSE y5.found[z]
    BY <1>1, <2>1 DEF Roster!Runs, Roster!Files
  <2>3. b # Roster(c)!None
    BY SystemsAre
  <2>4. Roster(c)!InTurn'
    <3>1. ASSUME NEW CONSTANT z \in c.companies
          PROVE  y5'.at[z] <= Len(Roster(c)!Order(z))'
      <4>1. Len(Roster(c)!Order(z))' = Len(Roster(c)!Order(z))
        BY <2>1, OrderSame
      <4>2. y5.at[z] <= Len(Roster(c)!Order(z)) /\ (z = x => 0 <= Len(Roster(c)!Order(z)))
        BY <1>1, <1>4 DEF Roster!InTurn
      <4> QED BY <2>2, <4>1, <4>2
    <3> QED BY <1>1, <1>3, <2>1, <2>2, <3>1 DEF Roster!InTurn
  <2>5. Roster(c)!WillFind'
    BY <1>1, <1>2, <1>3, <2>1, <2>2, <2>3, EasySame, SeedsSame DEF Roster!WillFind
  <2> QED BY <1>2, <1>3, <1>5, <2>1, <2>2, <2>4, <2>5, RunGoesOn
<1>6. ASSUME NEW s \in BOOLEAN, s => y5.steady,
             s => (Roster(c)!Easy(x) => a # y1[x].ats \/ y5.at[x] \notin 1..2),
             y5' = [next EXCEPT !.steady = s]
      PROVE  Roster(c)!RegistryInv'
  <2>1. /\ y5' \in Roster(c)!Runs /\ y5'.stage = y5.stage /\ y5'.before = y5.before
        /\ y5'.group = y5.group /\ y5'.asked = y5.asked /\ y5'.todo = y5.todo
        /\ y5'.done = y5.done /\ y5'.steady = s /\ y5'.yc = y5.yc
        /\ y5'.limit = y5.limit /\ y5'.found = y5.found
        /\ y5'.at = [y5.at EXCEPT ![x] = passed]
    <3>1. next = [y5 EXCEPT !.at = [y5.at EXCEPT ![x] = passed], !.again = y5.again \ {x}]
      BY <1>1 DEF Roster!Next1, Roster!Runs
    <3>2. passed \in Nat
      BY <1>4
    <3> HIDE DEF next, passed
    <3> QED BY <1>1, <1>6, <3>1, <3>2 DEF Roster!Runs
  <2>2. \A z \in c.companies : y5'.at[z] = IF z = x THEN passed ELSE y5.at[z]
    BY <1>1, <2>1 DEF Roster!Runs
  <2>3. passed <= Len(Roster(c)!Order(x))
    <3>1. y5.at[x] <= Len(Roster(c)!Order(x))
      BY <1>1 DEF Roster!InTurn
    <3> QED BY <1>4, <3>1
  <2>4. Roster(c)!InTurn'
    <3>1. ASSUME NEW CONSTANT z \in c.companies
          PROVE  /\ y5'.at[z] <= Len(Roster(c)!Order(z))'
                 /\ y5'.at[z] > 0 => y5'.found[z] = Roster(c)!None
      <4>1. Len(Roster(c)!Order(z))' = Len(Roster(c)!Order(z))
        BY <2>1, OrderSame
      <4>2. y5.at[z] <= Len(Roster(c)!Order(z)) /\ (y5.at[z] > 0 => y5.found[z] = Roster(c)!None)
        BY <1>1 DEF Roster!InTurn
      <4> HIDE DEF passed
      <4> QED BY <1>3, <2>1, <2>2, <2>3, <4>1, <4>2
    <3> HIDE DEF passed
    <3> QED BY <1>1, <1>3, <2>1, <2>2, <3>1 DEF Roster!InTurn
  <2>5. Roster(c)!WillFind'
    <3>1. ASSUME s PROVE Roster(c)!WillFind
      BY <1>1
    <3>2. ASSUME s, Roster(c)!Easy(x), x \in Roster(c)!Seeds(y5, y5.group) \ c.excluded
          PROVE  passed > 0 /\ \E i \in 1..2 : Roster(c)!Flat[i] = y1[x].ats /\ passed <= i
      <4>1. PICK i \in 1..2 : Roster(c)!Flat[i] = y1[x].ats /\ y5.at[x] <= i
        BY <1>1, <1>2, <1>3, <1>6, <3>2 DEF Roster!WillFind
      <4>2. y5.at[x] # i
        BY <1>4, <1>6, <3>2, <4>1
      <4>3. passed = y5.at[x] + 1
        BY <1>2, <1>4, <4>1, <4>2
      <4> QED BY <1>2, <1>4, <4>1, <4>2, <4>3
    <3> HIDE DEF passed, next, a
    <3>3. \A z \in c.companies : Roster(c)!Easy(z)' <=> Roster(c)!Easy(z)
      BY <1>2, EasySame
    <3>4. \A g \in Roster(c)!Groups : Roster(c)!Seeds(y5', g) = Roster(c)!Seeds(y5, g)
      BY <2>1, SeedsSame
    <3>5. y5.group \in Roster(c)!Groups
      BY <1>1, <1>3 DEF Roster!Runs
    <3>6. Roster(c)!Seeds(y5, y5.group) \subseteq c.companies
      BY <1>1, <3>5, SeedsAre DEF Roster!Runs
    <3>7. ASSUME s, NEW g \in Roster(c)!Groups, NEW z \in y5.done[g] \ c.excluded,
                 Roster(c)!Easy(z)'
          PROVE  y5'.found[z] # Roster(c)!None
      <4>1. z \in c.companies
        BY <1>1, <3>7 DEF Roster!Runs
      <4> QED BY <1>3, <1>6, <2>1, <3>1, <3>3, <3>7, <4>1 DEF Roster!WillFind
    <3>8. ASSUME s, NEW z \in Roster(c)!Seeds(y5, y5.group) \ c.excluded,
                 Roster(c)!Easy(z)', y5'.found[z] = Roster(c)!None
          PROVE  y5'.at[z] > 0 /\ \E i \in 1..2 :
                    Roster(c)!Flat[i] = y1'[z].ats /\ y5'.at[z] <= i
      <4>1. z \in c.companies /\ Roster(c)!Easy(z)
        BY <3>3, <3>6, <3>8
      <4>2. CASE z = x
        BY <1>2, <2>2, <3>2, <3>8, <4>1, <4>2
      <4>3. CASE z # x
        <5>1. y5.at[z] > 0 /\ \E i \in 1..2 : Roster(c)!Flat[i] = y1[z].ats /\ y5.at[z] <= i
          BY <1>3, <1>6, <2>1, <3>1, <3>8, <4>1 DEF Roster!WillFind
        <5> QED BY <1>2, <2>2, <4>1, <4>3, <5>1
      <4> QED BY <4>2, <4>3
    <3> QED BY <2>1, <3>4, <3>5, <3>7, <3>8 DEF Roster!WillFind
  <2> HIDE DEF passed, next, a
  <2> QED BY <1>2, <1>3, <2>1, <2>4, <2>5, RunGoesOn
<1>7. ASSUME y5' = [y5 EXCEPT !.again = @ \cup {x}]
      PROVE  Roster(c)!RegistryInv'
  <2>1. /\ y5' \in Roster(c)!Runs /\ y5'.stage = y5.stage /\ y5'.before = y5.before
        /\ y5'.group = y5.group /\ y5'.asked = y5.asked /\ y5'.todo = y5.todo
        /\ y5'.done = y5.done /\ y5'.steady = y5.steady /\ y5'.yc = y5.yc
        /\ y5'.limit = y5.limit /\ y5'.found = y5.found /\ y5'.at = y5.at
    BY <1>1, <1>7 DEF Roster!Runs
  <2>2. Roster(c)!InTurn'
    BY <1>1, <1>3, <2>1, OrderSame DEF Roster!InTurn
  <2>3. Roster(c)!WillFind'
    BY <1>1, <1>2, <2>1, EasySame, SeedsSame DEF Roster!WillFind
  <2> QED BY <1>2, <1>3, <2>1, <2>2, <2>3, RunGoesOn
<1>8. next = [next EXCEPT !.steady = y5.steady] /\ y5.steady \in BOOLEAN
  BY <1>1 DEF Roster!Next1, Roster!Runs
<1>9. CASE Roster(c)!ProbeFails(x)
  <2>1. \/ y5' = [y5 EXCEPT !.again = @ \cup {x}]
        \/ y5' = [next EXCEPT !.steady = FALSE]
    BY <1>9 DEF Roster!ProbeFails
  <2> HIDE DEF next, a
  <2> QED BY <1>6, <1>7, <2>1
<1>10. CASE Roster(c)!Probe(x) /\ a = "page"
  <2>1. PICK named \in SUBSET Roster(c)!Systems : Roster(c)!Follow(x, named)
    BY <1>10 DEF Roster!Probe, Roster!Pointers
  <2>2. \/ \E b \in named : Roster(c)!IsConfirmed(b, Roster(c)!Served(x, b, TRUE)) /\ y5' = found(b)
        \/ y5' = next
    BY <2>1 DEF Roster!Follow
  <2>3. CASE y5' = next
    <3>1. y5.at[x] \notin 1..2
      BY <1>4, <1>10 DEF Roster!Flat
    <3> HIDE DEF next, a
    <3> QED BY <1>6, <1>8, <2>3, <3>1
  <2>4. ASSUME NEW b \in named, Roster(c)!IsConfirmed(b, Roster(c)!Served(x, b, TRUE)),
               y5' = found(b)
        PROVE  Roster(c)!RegistryInv'
    <3>1. y1[x].ats = b /\ b \in Roster(c)!Systems
      BY <2>4, ConfirmedIsThere
    <3> HIDE DEF found
    <3> QED BY <1>5, <2>4, <3>1
  <2> HIDE DEF next, a, found
  <2> QED BY <2>2, <2>3, <2>4
<1>11. CASE Roster(c)!Probe(x) /\ a # "page"
  <2>1. Roster(c)!Judge(x, a) /\ a \in Roster(c)!Systems
    BY <1>4, <1>11 DEF Roster!Probe
  <2>2. CASE Roster(c)!IsConfirmed(a, Roster(c)!Served(x, a, FALSE))
    <3>1. y5' = found(a)
      BY <2>1, <2>2 DEF Roster!Judge
    <3>2. y1[x].ats = a
      BY <2>2, ConfirmedIsThere
    <3> HIDE DEF found, a
    <3> QED BY <1>5, <2>1, <3>1, <3>2
  <2>3. CASE ~Roster(c)!IsConfirmed(a, Roster(c)!Served(x, a, FALSE))
    <3>1. y5' = next
      BY <2>1, <2>3 DEF Roster!Judge
    <3>2. Roster(c)!Easy(x) => a # y1[x].ats
      BY <2>3, EasyIsConfirmed
    <3> HIDE DEF next, a
    <3> QED BY <1>6, <1>8, <3>1, <3>2
  <2> QED BY <2>2, <2>3
<1> QED BY <1>9, <1>10, <1>11
(* A group is over when no company of it is asked for any more. *)
LEMMA GroupCloses ==
    ASSUME NEW CONSTANT c, Roster(c)!RegistryAssumption, Roster(c)!RegistryInv,
           Roster(c)!CloseGroup
    PROVE  Roster(c)!RegistryInv'
<1>1. /\ y5 \in Roster(c)!Runs /\ y6 \in [runs : Nat, moves : Nat, faults : Nat]
      /\ Roster(c)!InTurn /\ Roster(c)!WillFind
  BY DEF Roster!RegistryInv, Roster!Typed
<1> DEFINE seeds == Roster(c)!Seeds(y5, y5.group)
<1>2. /\ y5.group # Roster(c)!None /\ \A x \in c.companies : y5.at[x] = 0
      /\ y5' = [y5 EXCEPT !.group = Roster(c)!None, !.done[y5.group] = seeds]
      /\ UNCHANGED <<y1, y2, y3, y4, y6>>
  BY DEF Roster!CloseGroup
<1>3. /\ y5.stage = "groups" /\ y5.group \in y5.asked /\ y5.group \in Roster(c)!Groups
  BY <1>1, <1>2 DEF Roster!InTurn, Roster!Runs
<1>4. seeds \subseteq c.companies
  BY <1>1, <1>3, SeedsAre DEF Roster!Runs
<1> HIDE DEF seeds
<1>5. /\ y5' \in Roster(c)!Runs /\ y5'.stage = y5.stage /\ y5'.before = y5.before
      /\ y5'.group = Roster(c)!None /\ y5'.asked = y5.asked /\ y5'.todo = y5.todo
      /\ y5'.steady = y5.steady /\ y5'.found = y5.found /\ y5'.at = y5.at
      /\ y5'.done = [y5.done EXCEPT ![y5.group] = seeds]
  BY <1>1, <1>2, <1>3, <1>4 DEF Roster!Runs
<1>6. \A g \in Roster(c)!Groups : y5'.done[g] = IF g = y5.group THEN seeds ELSE y5.done[g]
  BY <1>1, <1>3, <1>5 DEF Roster!Runs
<1>7. Roster(c)!InTurn'
  <2>1. ASSUME NEW CONSTANT x \in c.companies
        PROVE  /\ y5'.at[x] <= Len(Roster(c)!Order(x))'
               /\ y5'.at[x] > 0 => y5'.found[x] = Roster(c)!None
    <3>1. PICK order : order = Roster(c)!Order(x)'
      OBVIOUS
    <3>2. order \in Seq(Roster(c)!Systems \cup {"page"}) /\ Len(order) >= 2
      BY ZenonT(60), <3>1, OrderIs DEF Roster!Order, IsOrder
    <3>3. y5'.at[x] = 0
      BY <1>2, <1>5
    <3> QED BY <3>1, <3>2, <3>3
  <2> QED BY <1>1, <1>2, <1>3, <1>5, <1>6, <2>1 DEF Roster!InTurn
<1>8. Roster(c)!WillFind'
  <2>1. ASSUME y5.steady, NEW g \in Roster(c)!Groups, NEW x \in y5'.done[g] \ c.excluded,
               Roster(c)!Easy(x)'
        PROVE  y5'.found[x] # Roster(c)!None
    <3>1. Roster(c)!Easy(x)
      BY <1>2, <2>1, EasySame
    <3>2. CASE g = y5.group
      <4>1. x \in seeds \ c.excluded /\ x \in c.companies /\ y5.at[x] = 0
        BY <1>2, <1>4, <1>6, <2>1, <3>2
      <4> QED BY <1>1, <1>2, <1>3, <1>5, <2>1, <3>1, <4>1 DEF Roster!WillFind, seeds
    <3>3. CASE g # y5.group
      BY <1>1, <1>3, <1>5, <1>6, <2>1, <3>1, <3>3 DEF Roster!WillFind
    <3> QED BY <3>2, <3>3
  <2> QED BY <1>5, <2>1 DEF Roster!WillFind
<1> QED BY <1>1, <1>2, <1>3, <1>5, <1>7, <1>8, RunGoesOn

(* The registry is written with all that it had. *)
LEMMA RegistryWritten ==
    ASSUME NEW CONSTANT c, Roster(c)!RegistryAssumption, Roster(c)!RegistryInv,
           Roster(c)!WriteRegistry
    PROVE  Roster(c)!RegistryInv'
<1>1. /\ y5 \in Roster(c)!Runs /\ y3 \in Roster(c)!Files
      /\ Roster(c)!Typed /\ Roster(c)!Seen /\ Roster(c)!InTurn /\ Roster(c)!Holds
      /\ Roster(c)!WillFind /\ Roster(c)!NeverGuessed
  BY DEF Roster!RegistryInv, Roster!Typed, Roster!RegistryIsSound
<1> DEFINE writes == Roster(c)!Writes(y5)
           kept == Roster(c)!Kept(y5.found)
<1>2. /\ y5.stage = "groups" /\ y5.group = Roster(c)!None
      /\ y3' = IF writes THEN kept ELSE y3
      /\ y5' = [y5 EXCEPT !.stage = IF writes /\ ~y5.quiet THEN "report" ELSE "ended"]
      /\ UNCHANGED <<y1, y2, y4, y6>>
  BY DEF Roster!WriteRegistry, Roster!Finished
<1>3. /\ y5' \in Roster(c)!Runs /\ y5'.before = y5.before
      /\ y5'.stage \in {"report", "ended"} /\ (y5'.stage = "report" => writes)
      /\ y5'.group = y5.group /\ y5'.asked = y5.asked /\ y5'.todo = y5.todo
      /\ y5'.done = y5.done /\ y5'.steady = y5.steady /\ y5'.dry = y5.dry
      /\ y5'.found = y5.found /\ y5'.at = y5.at
  BY <1>1, <1>2 DEF Roster!Runs
<1>4. /\ writes => ~y5.dry
      /\ \A g \in Roster(c)!Groups : \A x \in y5.done[g] \ c.excluded :
            ~y5.dry /\ y5.found[x] # Roster(c)!None => writes
  BY DEF Roster!Writes, Roster!Resolved
<1>5. /\ kept \in Roster(c)!Files
      /\ \A x \in c.companies : kept[x] = IF x \in c.excluded THEN Roster(c)!None ELSE y5.found[x]
  BY <1>1 DEF Roster!Kept, Roster!Files, Roster!Runs
<1>6. /\ y5.before = <<y3, y4>>
      /\ \A x \in c.companies : y3[x] # Roster(c)!None => y5.found[x] = y3[x]
  BY <1>1, <1>2 DEF Roster!Holds
<1>7. Roster(c)!Holds'
  <2>1. Roster(c)!Kept(y5.found)' = kept
    BY <1>3 DEF Roster!Kept
  <2> HIDE DEF writes
  <2> QED BY <1>2, <1>3, <1>4, <1>6 DEF Roster!Holds, Roster!Kept
<1> HIDE DEF writes, kept
<1>8. Roster(c)!Typed'
  BY <1>1, <1>2, <1>3, <1>5 DEF Roster!Typed
<1>9. Roster(c)!Seen' /\ Roster(c)!NeverGuessed'
  <2>1. \A x \in c.companies : y3'[x] \in {y3[x], y5.found[x], Roster(c)!None}
    BY <1>2, <1>5
  <2> QED BY ZenonT(60), <1>1, <1>2, <1>3, <2>1 DEF Roster!Seen, Roster!NeverGuessed
<1>10. Roster(c)!InTurn'
  BY <1>1, <1>2, <1>3, OrderSame DEF Roster!InTurn
<1>11. Roster(c)!WillFind'
  BY <1>3 DEF Roster!WillFind
<1>12. Roster(c)!NothingLost'
  BY <1>2, <1>3, <1>4, <1>5, <1>6 DEF Roster!NothingLost
<1>13. Roster(c)!SectionsStand'
  BY <1>2, <1>3, <1>6 DEF Roster!SectionsStand
<1>14. Roster(c)!FoundIfNamed'
  <2>1. SUFFICES ASSUME y5.steady, ~y5.dry, NEW g \in Roster(c)!Groups,
                        NEW x \in c.companies \ c.excluded, x \in y5.done[g],
                        Roster(c)!Easy(x)'
                 PROVE  y3'[x] # Roster(c)!None
    BY <1>3 DEF Roster!FoundIfNamed, Roster!Easy
  <2>2. Roster(c)!Easy(x)
    BY <1>2, <2>1, EasySame
  <2>3. y5.found[x] # Roster(c)!None
    BY <1>1, <1>2, <2>1, <2>2 DEF Roster!WillFind
  <2> QED BY <1>2, <1>4, <1>5, <2>1, <2>3
<1> QED
  BY <1>7, <1>8, <1>9, <1>10, <1>11, <1>12, <1>13, <1>14
  DEF Roster!RegistryInv, Roster!RegistryIsSound

(* The report says of the groups asked for what the registry has. *)
LEMMA ReportWritten ==
    ASSUME NEW CONSTANT c, Roster(c)!RegistryAssumption, Roster(c)!RegistryInv,
           Roster(c)!WriteReport
    PROVE  Roster(c)!RegistryInv'
<1>1. /\ y5 \in Roster(c)!Runs /\ y4 \in Roster(c)!Reports /\ y6.runs \in Nat
      /\ Roster(c)!Typed /\ Roster(c)!Seen /\ Roster(c)!InTurn /\ Roster(c)!Holds
      /\ Roster(c)!NeverGuessed /\ Roster(c)!NothingLost /\ Roster(c)!FoundIfNamed
  BY DEF Roster!RegistryInv, Roster!Typed, Roster!RegistryIsSound
<1>2. /\ y5.stage = "report"
      /\ y4' = [g \in Roster(c)!Groups |->
                   IF Roster(c)!Fresh(y5, g)
                   THEN [listed |-> Roster(c)!Resolved(y5, g), written |-> y6.runs]
                   ELSE y4[g]]
      /\ y5' = [y5 EXCEPT !.stage = "ended"]
      /\ UNCHANGED <<y1, y2, y3, y6>>
  BY DEF Roster!WriteReport
<1>3. /\ y5' \in Roster(c)!Runs /\ y5'.before = y5.before /\ y5'.stage = "ended"
      /\ y5'.group = y5.group /\ y5'.asked = y5.asked /\ y5'.todo = y5.todo
      /\ y5'.done = y5.done /\ y5'.steady = y5.steady /\ y5'.dry = y5.dry
      /\ y5'.found = y5.found /\ y5'.at = y5.at
  BY <1>1, <1>2 DEF Roster!Runs
<1>4. ASSUME NEW g \in Roster(c)!Groups
      PROVE  /\ Roster(c)!Fresh(y5, g) => g \in y5.asked
             /\ Roster(c)!Resolved(y5, g) \subseteq {x \in c.companies : y3[x] # Roster(c)!None}
  <2>1. Roster(c)!Fresh(y5, g) => g \in y5.asked
    BY <1>1 DEF Roster!Fresh, Roster!InTurn
  <2>2. ASSUME NEW x \in Roster(c)!Resolved(y5, g)
        PROVE  x \in c.companies /\ y3[x] # Roster(c)!None
    <3>1. x \in c.companies /\ x \notin c.excluded /\ y5.found[x] # Roster(c)!None
      BY <1>1 DEF Roster!Resolved, Roster!Runs
    <3>2. y3 = Roster(c)!Kept(y5.found)
      BY <1>1, <1>2 DEF Roster!Holds
    <3> QED BY <3>1, <3>2 DEF Roster!Kept
  <2> QED BY <2>1, <2>2
<1>5. Roster(c)!Typed'
  <2>1. \A g \in Roster(c)!Groups :
           /\ [listed |-> Roster(c)!Resolved(y5, g), written |-> y6.runs]
                \in [listed : SUBSET c.companies, written : Nat]
           /\ y4[g] \in [listed : SUBSET c.companies, written : Nat]
    BY <1>1, <1>4 DEF Roster!Reports
  <2>2. y4' \in Roster(c)!Reports
    BY <1>2, <2>1 DEF Roster!Reports
  <2> QED BY <1>1, <1>2, <1>3, <2>2 DEF Roster!Typed
<1>6. Roster(c)!Seen' /\ Roster(c)!NeverGuessed'
  BY <1>1, <1>2, <1>3 DEF Roster!Seen, Roster!NeverGuessed
<1>7. Roster(c)!InTurn'
  <2>1. y5.group = Roster(c)!None
    BY <1>1, <1>2 DEF Roster!InTurn
  <2> QED BY <1>1, <1>3, <2>1, OrderSame DEF Roster!InTurn
<1>8. Roster(c)!Holds' /\ Roster(c)!WillFind'
  BY <1>3 DEF Roster!Holds, Roster!WillFind
<1>9. Roster(c)!NothingLost'
  BY <1>1, <1>2, <1>3 DEF Roster!NothingLost
<1>10. Roster(c)!FoundIfNamed'
  BY <1>1, <1>2, <1>3 DEF Roster!FoundIfNamed, Roster!Served
<1>11. Roster(c)!SectionsStand'
  <2>1. y4 = y5.before[2]
    BY <1>1, <1>2 DEF Roster!Holds
  <2>2. ASSUME NEW g \in Roster(c)!Groups
        PROVE  /\ g \notin y5.asked => y4'[g] = y4[g]
               /\ y4'[g] # y4[g] => \A x \in y4'[g].listed : y3[x] # Roster(c)!None
    BY <1>2, <1>4
  <2> QED BY <1>2, <1>3, <2>1, <2>2 DEF Roster!SectionsStand
<1> QED
  BY <1>5, <1>6, <1>7, <1>8, <1>9, <1>10, <1>11
  DEF Roster!RegistryInv, Roster!RegistryIsSound

LEMMA RosterStart ==
    ASSUME NEW CONSTANT c, Roster(c)!RegistryAssumption, Roster(c)!Init
    PROVE  Roster(c)!RegistryInv
<1>1. Roster(c)!None \notin Roster(c)!Systems
  BY SystemsAre
<1>2. "greenhouse" \in Roster(c)!Systems
  BY DEF Roster!Systems, Roster!Flat
<1>3. /\ y1 = [x \in c.companies |->
                  IF x \in c.early THEN [ats |-> "greenhouse", open |-> TRUE, named |-> TRUE]
                  ELSE Roster(c)!NoBoard]
      /\ y2 = c.early \X {"greenhouse"} /\ y3 = [x \in c.companies |-> Roster(c)!None]
      /\ y4 = [g \in Roster(c)!Groups |-> Roster(c)!Absent]
      /\ y5 = Roster(c)!Idle /\ y6 = [runs |-> 0, moves |-> 0, faults |-> 0]
  BY DEF Roster!Init
<1>4. y1 \in [c.companies -> Roster(c)!Boards]
  <2>1. [ats |-> "greenhouse", open |-> TRUE, named |-> TRUE]
          \in [ats : Roster(c)!Systems, open : BOOLEAN, named : BOOLEAN]
    BY <1>2
  <2> QED BY <1>3, <2>1 DEF Roster!Boards
<1>5. /\ y5 \in Roster(c)!Runs /\ y5.stage = "idle" /\ y5.group = Roster(c)!None
      /\ y5.at = [x \in c.companies |-> 0] /\ y5.todo = {} /\ y5.asked = {}
      /\ y5.done = [g \in Roster(c)!Groups |-> {}]
      /\ y5.found = [x \in c.companies |-> Roster(c)!None]
  BY <1>3 DEF Roster!Idle, Roster!Runs, Roster!Files
<1>6. Roster(c)!Typed
  BY <1>3, <1>4, <1>5 DEF Roster!Typed, Roster!Files, Roster!Reports, Roster!Absent
<1>7. Roster(c)!Seen /\ Roster(c)!NeverGuessed
  BY <1>3, <1>5 DEF Roster!Seen, Roster!NeverGuessed, Roster!NoBoard, Roster!None
<1>8. Roster(c)!InTurn
  <2>1. ASSUME NEW CONSTANT x \in c.companies
        PROVE  /\ y5.at[x] <= Len(Roster(c)!Order(x))
               /\ y5.at[x] > 0 => y5.found[x] = Roster(c)!None
    <3>1. PICK order : order = Roster(c)!Order(x)
      OBVIOUS
    <3>2. order \in Seq(Roster(c)!Systems \cup {"page"}) /\ Len(order) >= 2
      BY ZenonT(60), <3>1, OrderIs DEF Roster!Order, IsOrder
    <3>3. y5.at[x] = 0
      BY <1>5
    <3> QED BY <3>1, <3>2, <3>3
  <2> QED BY <1>5, <2>1 DEF Roster!InTurn
<1>9. Roster(c)!Holds /\ Roster(c)!WillFind /\ Roster(c)!NothingLost
      /\ Roster(c)!FoundIfNamed /\ Roster(c)!SectionsStand
  BY <1>5 DEF Roster!Holds, Roster!WillFind, Roster!NothingLost, Roster!FoundIfNamed,
              Roster!SectionsStand
<1> QED
  BY <1>6, <1>7, <1>8, <1>9 DEF Roster!RegistryInv, Roster!RegistryIsSound

LEMMA RosterSame ==
    ASSUME NEW CONSTANT c, Roster(c)!RegistryInv, UNCHANGED Roster(c)!vars
    PROVE  Roster(c)!RegistryInv'
<1>1. UNCHANGED <<y1, y2, y3, y4, y5, y6>>
  BY DEF Roster!vars
<1>2. Roster(c)!Typed' /\ Roster(c)!Seen' /\ Roster(c)!NeverGuessed'
  BY <1>1 DEF Roster!RegistryInv, Roster!RegistryIsSound, Roster!Typed, Roster!Seen,
              Roster!NeverGuessed
<1>3. Roster(c)!InTurn'
  BY <1>1, OrderSame DEF Roster!RegistryInv, Roster!InTurn
<1>4. Roster(c)!Holds' /\ Roster(c)!NothingLost' /\ Roster(c)!SectionsStand'
  BY <1>1 DEF Roster!RegistryInv, Roster!RegistryIsSound, Roster!Holds, Roster!NothingLost,
              Roster!SectionsStand, Roster!Kept
<1>5. Roster(c)!WillFind'
  BY <1>1 DEF Roster!RegistryInv, Roster!WillFind, Roster!Easy, Roster!Served
<1>6. Roster(c)!FoundIfNamed'
  BY <1>1 DEF Roster!RegistryInv, Roster!RegistryIsSound, Roster!FoundIfNamed, Roster!Served
<1> QED
  BY <1>2, <1>3, <1>4, <1>5, <1>6 DEF Roster!RegistryInv, Roster!RegistryIsSound

LEMMA RosterStep ==
    ASSUME NEW CONSTANT c, Roster(c)!RegistryAssumption, Roster(c)!RegistryInv,
           Roster(c)!Next
    PROVE  Roster(c)!RegistryInv'
<1>1. CASE \E x \in c.companies, b \in Roster(c)!Boards : Roster(c)!Move(x, b)
  BY <1>1, BoardMoves
<1>2. ASSUME Roster(c)!Leave PROVE Roster(c)!RegistryInv'
  <2>1. 1 \in 1..2 /\ {} \in SUBSET Roster(c)!Groups /\ TRUE \in BOOLEAN
    OBVIOUS
  <2> QED BY ONLY Roster(c)!RegistryInv, <1>2, <2>1, RunBegins
<1>3. CASE \E asked \in (SUBSET Roster(c)!Groups) \ {{}}, limit \in 1..2, dry, quiet \in BOOLEAN :
              Roster(c)!Start(asked, limit, dry, quiet)
  BY <1>3, RunBegins
<1>4. CASE \/ Roster(c)!DirectoryFails
           \/ \E s \in {<<>>} \cup {<<x>> : x \in c.listed} : Roster(c)!Directory(s)
  BY <1>4, DirectoryRead
<1>5. CASE \E x \in c.companies : Roster(c)!Probe(x) \/ Roster(c)!ProbeFails(x)
  BY <1>5, CompanyAsked
<1>6. CASE \/ Roster(c)!OpenGroup \/ Roster(c)!CloseGroup \/ Roster(c)!WriteRegistry
           \/ Roster(c)!WriteReport
  BY <1>6, GroupOpens, GroupCloses, RegistryWritten, ReportWritten
<1> QED BY <1>1, <1>2, <1>3, <1>4, <1>5, <1>6 DEF Roster!Next

(* RegistryIsSound, for every company, group, order, limit and bound: no entry *)
(* was guessed, nothing known is lost, a board that the company's name leads   *)
(* to is found, and the report keeps the sections that were not asked for.     *)
THEOREM RegistryAlwaysSound ==
    ASSUME NEW CONSTANT c, Roster(c)!RegistryAssumption
    PROVE  Roster(c)!Spec => [](Roster(c)!Typed /\ Roster(c)!RegistryIsSound)
<1>1. Roster(c)!Init => Roster(c)!RegistryInv
  BY RosterStart
<1>2. Roster(c)!RegistryInv /\ [Roster(c)!Next]_(Roster(c)!vars) => Roster(c)!RegistryInv'
  BY RosterStep, RosterSame
<1>3. Roster(c)!RegistryInv => Roster(c)!Typed /\ Roster(c)!RegistryIsSound
  BY DEF Roster!RegistryInv
<1> QED BY <1>1, <1>2, <1>3, PTL DEF Roster!Spec

-----------------------------------------------------------------------------
(* PoliteFetch *)

(* A request goes on, and books nothing. *)
LEMMA RequestMoves ==
    ASSUME NEW CONSTANT c, Net(c)!PoliteInv, NEW x \in c.callers, NEW q \in Net(c)!Requests,
           y2' = [y2 EXCEPT ![x] = q], UNCHANGED <<y1, y3, y4, y5, y6>>,
           q.phase # "slot", q.tries <= c.retries, q.hops <= c.hops,
           q.phase \notin {"idle", "done"} => Net(c)!LooksAt(q),
           q.phase \in {"sent", "backoff"} /\ q.respects =>
              y5[q.load].status = "open" /\ y3[q.host] >= y5[q.load].delay,
           q.phase = "sent" => q.at <= y1
    PROVE  Net(c)!PoliteInv'
<1>1. Net(c)!Typed
  BY DEF Net!PoliteInv
<1>2. Net(c)!Typed'
  BY <1>1 DEF Net!Typed
<1>3. \A z \in c.callers : y2'[z] = IF z = x THEN q ELSE y2[z]
  BY <1>1 DEF Net!Typed
<1>4. Net(c)!Looked'
  BY <1>3 DEF Net!PoliteInv, Net!Looked, Net!LooksAt, Net!Is
<1>5. Net(c)!Loaded' /\ Net(c)!OneLoad'
  BY DEF Net!PoliteInv, Net!Loaded, Net!OneLoad
<1>6. Net(c)!AskedFirst'
  BY <1>3 DEF Net!PoliteInv, Net!AskedFirst, Net!Is, Net!LooksAt
<1>7. Net(c)!FewTries'
  BY <1>3 DEF Net!PoliteInv, Net!FewTries
<1>8. Net(c)!Spacing'
  BY <1>3 DEF Net!PoliteInv, Net!Spacing, Net!SlotOf, Net!Apart, Net!Is, Net!Spaced
<1> QED BY <1>2, <1>4, <1>5, <1>6, <1>7, <1>8 DEF Net!PoliteInv

(* Of the loads like one another one at most is good, and it is the one that is kept. *)
LEMMA CachedIsOne ==
    ASSUME NEW CONSTANT c, Net(c)!PoliteInv, NEW host, NEW guarded
    PROVE  LET n == Net(c)!Cached(host, guarded)
           IN /\ n # 0 => /\ n \in 1..Len(y5) /\ y5[n].host = host /\ y5[n].guarded = guarded
              /\ n = 0 => \A k \in 1..Len(y5) :
                             ~(y5[k].host = host /\ y5[k].guarded = guarded /\ y5[k].expires > y1)
<1> DEFINE good == {n \in 1..Len(y5) : /\ y5[n].host = host /\ y5[n].guarded = guarded
                                       /\ y5[n].expires > y1}
<1>1. Net(c)!Typed /\ Net(c)!Loaded /\ Net(c)!OneLoad
  BY DEF Net!PoliteInv
<1>2. \A n \in 1..Len(y5) : y5[n].from \in Nat /\ y5[n].expires \in Nat /\ y1 \in Nat
  <2>1. y1 \in Nat /\ y5 \in Seq(Net(c)!Loads)
    BY <1>1 DEF Net!Typed
  <2>2. \A n \in 1..Len(y5) : y5[n] \in Net(c)!Loads
    BY <2>1, ElementOfSeq
  <2> QED BY <2>1, <2>2 DEF Net!Loads
<1>3. ASSUME NEW m \in good, NEW n \in good PROVE m = n
  <2>1. m < n => y5[n].from >= y5[m].expires
    BY <1>1 DEF Net!OneLoad
  <2>2. n < m => y5[m].from >= y5[n].expires
    BY <1>1 DEF Net!OneLoad
  <2>3. y5[m].from <= y1 /\ y5[n].from <= y1
    BY <1>1 DEF Net!Loaded
  <2> QED BY <1>2, <2>1, <2>2, <2>3
<1>4. ASSUME NEW n \in good PROVE Net(c)!Max(good) = n
  <2>1. \A m \in good : m = n
    BY <1>3, <1>4
  <2>2. n \in Nat
    OBVIOUS
  <2> HIDE DEF good
  <2>3. n \in good /\ \A m \in good : n >= m
    BY <1>4, <2>1, <2>2
  <2>4. Net(c)!Max(good) \in good
    BY <2>3 DEF Net!Max
  <2> QED BY <2>1, <2>4
<1>5. Net(c)!Cached(host, guarded) = IF good = {} THEN 0 ELSE Net(c)!Max(good)
  BY DEF Net!Cached
<1>6. \A n \in good : /\ n # 0 /\ n \in 1..Len(y5)
                      /\ y5[n].host = host /\ y5[n].guarded = guarded
  OBVIOUS
<1>7. good = {} => \A k \in 1..Len(y5) :
         ~(y5[k].host = host /\ y5[k].guarded = guarded /\ y5[k].expires > y1)
  OBVIOUS
<1> HIDE DEF good
<1> QED BY <1>4, <1>5, <1>6, <1>7

(* The rules of a host are asked for when none of its loads are good any more. *)
LEMMA LoadBegins ==
    ASSUME NEW CONSTANT c, Net(c)!PoliteAssumption, Net(c)!PoliteInv, NEW x \in c.callers,
           NEW q \in Net(c)!Requests, q.phase = "robots", q.load = Len(y5) + 1,
           q.host \in c.hosts, q.guarded => q.host \in c.public /\ q.away = 0,
           q.tries <= c.retries, q.hops <= c.hops, ~Net(c)!Known(q.host, q.guarded),
           y2' = [y2 EXCEPT ![x] = q], UNCHANGED <<y1, y3, y4, y6>>,
           y5' = Append(y5, [host |-> q.host, guarded |-> q.guarded, status |-> "loading",
                             delay |-> 0, from |-> y1, expires |-> y1 + c.ttl])
    PROVE  Net(c)!PoliteInv'
<1>1. Net(c)!Typed /\ Net(c)!Loaded /\ Net(c)!OneLoad
  BY DEF Net!PoliteInv
<1> DEFINE load == [host |-> q.host, guarded |-> q.guarded, status |-> "loading",
                    delay |-> 0, from |-> y1, expires |-> y1 + c.ttl]
           alike(n) == y5[n].host = q.host /\ y5[n].guarded = q.guarded
<1>2. load \in Net(c)!Loads
  <2>1. y1 \in Nat /\ y1 + c.ttl \in Nat /\ q.guarded \in BOOLEAN
    <3>1. y1 \in Nat /\ c.ttl \in Nat
      BY <1>1 DEF Net!Typed, Net!PoliteAssumption
    <3>2. q.guarded \in BOOLEAN
      BY DEF Net!Requests
    <3> QED BY <3>1, <3>2
  <2> QED BY <2>1 DEF Net!Loads
<1>3. /\ y5' = Append(y5, load) /\ load.host = q.host /\ load.guarded = q.guarded
      /\ load.from = y1
  OBVIOUS
<1> HIDE DEF load
<1>4. /\ y5' \in Seq(Net(c)!Loads) /\ Len(y5') = Len(y5) + 1 /\ Len(y5) \in Nat
      /\ y5'[Len(y5) + 1] = load /\ \A n \in 1..Len(y5) : y5'[n] = y5[n]
  BY <1>1, <1>2, <1>3 DEF Net!Typed
<1>5. Net(c)!Typed'
  BY <1>1, <1>4 DEF Net!Typed
<1>6. \A z \in c.callers : y2'[z] = IF z = x THEN q ELSE y2[z]
  BY <1>1 DEF Net!Typed
<1>7. Net(c)!Looked'
  BY <1>3, <1>4, <1>6 DEF Net!PoliteInv, Net!Looked, Net!LooksAt, Net!Is
<1>8. Net(c)!Loaded'
  <2>1. y1 \in Nat
    BY <1>1 DEF Net!Typed
  <2>2. \A n \in 1..Len(y5') : n \in 1..Len(y5) \/ n = Len(y5) + 1
    BY <1>4
  <2> QED BY <1>1, <1>3, <1>4, <2>1, <2>2 DEF Net!Loaded
<1>9. \A n \in 1..Len(y5) : alike(n) => y5[n].expires <= y1
  <2>1. SUFFICES ASSUME NEW n \in 1..Len(y5), alike(n) PROVE ~(y5[n].expires > y1)
    <3>1. \A n \in 1..Len(y5) : y5[n].expires \in Nat
      <4>1. \A n \in 1..Len(y5) : y5[n] \in Net(c)!Loads
        BY <1>1, ElementOfSeq DEF Net!Typed
      <4> QED BY <4>1 DEF Net!Loads
    <3>2. y1 \in Nat
      BY <1>1 DEF Net!Typed
    <3> QED BY <3>1, <3>2
  <2>2. Net(c)!Cached(q.host, q.guarded) = 0
    BY DEF Net!Known
  <2> QED BY <2>1, <2>2, CachedIsOne
<1>10. Net(c)!OneLoad'
  <2>1. SUFFICES ASSUME NEW m \in 1..Len(y5'), NEW n \in 1..Len(y5'), m < n,
                        y5'[m].host = y5'[n].host, y5'[m].guarded = y5'[n].guarded
                 PROVE  y5'[n].from >= y5'[m].expires
    BY DEF Net!OneLoad
  <2>2. m \in 1..Len(y5)
    BY <1>4, <2>1
  <2>3. CASE n \in 1..Len(y5)
    BY <1>1, <1>4, <2>1, <2>2, <2>3 DEF Net!OneLoad
  <2>4. CASE n = Len(y5) + 1
    <3>1. y1 \in Nat /\ y5[m].expires \in Nat
      <4>1. y5[m] \in Net(c)!Loads
        BY <1>1, <2>2, ElementOfSeq DEF Net!Typed
      <4> QED BY <1>1, <4>1 DEF Net!Typed, Net!Loads
    <3> QED BY <1>3, <1>4, <1>9, <2>1, <2>2, <2>4, <3>1
  <2> QED BY <1>4, <2>3, <2>4
<1>11. Net(c)!AskedFirst'
  <2>1. \A n \in 1..Len(y5') : y5'[n].guarded => y5'[n].host \in c.public
    BY <1>3, <1>4 DEF Net!PoliteInv, Net!AskedFirst
  <2> QED
    BY <1>4, <1>6, <2>1 DEF Net!PoliteInv, Net!AskedFirst, Net!Is, Net!LooksAt, Net!Looked
<1>12. Net(c)!FewTries'
  BY <1>6 DEF Net!PoliteInv, Net!FewTries
<1>13. Net(c)!Spacing'
  BY <1>6 DEF Net!PoliteInv, Net!Spacing, Net!SlotOf, Net!Apart, Net!Is, Net!Spaced
<1> QED BY <1>5, <1>7, <1>8, <1>10, <1>11, <1>12, <1>13 DEF Net!PoliteInv

(* A slot is booked after all that the host has, as far apart as it asks. *)
LEMMA SlotIsBooked ==
    ASSUME NEW CONSTANT c, Net(c)!PoliteAssumption, Net(c)!PoliteInv, NEW x \in c.callers,
           NEW r \in Net(c)!Requests, Net(c)!Books(x, r), UNCHANGED <<y1, y5, y6>>,
           r.host \in c.hosts, r.guarded => r.host \in c.public /\ r.away = 0,
           r.respects => /\ r.load \in 1..Len(y5) /\ y5[r.load].host = r.host
                         /\ y5[r.load].guarded = r.guarded /\ y5[r.load].status = "open"
                         /\ y3[r.host] >= y5[r.load].delay \/ r.delay = y5[r.load].delay,
           r.tries <= c.retries, r.hops <= c.hops, y2[x].phase # "slot"
    PROVE  Net(c)!PoliteInv'
<1>1. /\ Net(c)!Typed /\ Net(c)!Loaded /\ Net(c)!OneLoad /\ Net(c)!Looked
      /\ Net(c)!AskedFirst /\ Net(c)!FewTries /\ Net(c)!Spacing
  BY DEF Net!PoliteInv
<1> DEFINE h == r.host
           gap == Net(c)!Larger(y3[h], Net(c)!Larger(c.gap, r.delay))
           at == Net(c)!Slot(h, gap)
           q == [r EXCEPT !.phase = "slot", !.at = at, !.gap = gap]
<1>2. /\ y3' = [y3 EXCEPT ![h] = gap] /\ y4' = [y4 EXCEPT ![h] = at]
      /\ y2' = [y2 EXCEPT ![x] = q]
  BY DEF Net!Books, Net!Goes
<1>3. /\ y1 \in Nat /\ y3 \in [c.hosts -> {0, c.gap, c.delay}] /\ h \in c.hosts
      /\ y4 \in [c.hosts -> Nat \cup {Net(c)!Never}] /\ y2 \in [c.callers -> Net(c)!Requests]
      /\ y5 \in Seq(Net(c)!Loads) /\ y6.used \in [c.hosts -> SUBSET Net(c)!Slots]
  BY <1>1 DEF Net!Typed
<1>4. r.delay \in {0, c.delay} /\ c.gap \in Nat /\ c.delay \in Nat
  BY DEF Net!Requests, Net!PoliteAssumption
<1>5. /\ gap \in {0, c.gap, c.delay} /\ gap \in Nat /\ gap >= y3[h] /\ gap >= r.delay
      /\ y3[h] \in Nat
  BY SMTT(60), <1>3, <1>4 DEF Net!Larger
<1> HIDE DEF gap
<1>6. /\ at \in Nat /\ at >= y1
      /\ y4[h] # Net(c)!Never => y4[h] \in Nat /\ at >= y4[h] + gap
  BY <1>3, <1>5 DEF Net!Slot, Net!Larger
<1> HIDE DEF at
<1>7. /\ q \in Net(c)!Requests /\ q.phase = "slot" /\ q.at = at /\ q.gap = gap
      /\ q.host = h /\ q.guarded = r.guarded /\ q.respects = r.respects /\ q.load = r.load
      /\ q.tries = r.tries /\ q.hops = r.hops /\ q.away = r.away
  BY <1>5, <1>6 DEF Net!Requests
<1> HIDE DEF q
<1>8. /\ \A z \in c.callers : y2'[z] = IF z = x THEN q ELSE y2[z]
      /\ \A k \in c.hosts : y3'[k] = IF k = h THEN gap ELSE y3[k]
      /\ \A k \in c.hosts : y4'[k] = IF k = h THEN at ELSE y4[k]
  BY <1>2, <1>3
<1>9. Net(c)!Typed'
  BY <1>1, <1>2, <1>5, <1>6, <1>7 DEF Net!Typed
<1>10. Net(c)!Looked'
  BY <1>1, <1>7, <1>8 DEF Net!Looked, Net!LooksAt, Net!Is
<1>11. Net(c)!Loaded' /\ Net(c)!OneLoad'
  BY <1>1 DEF Net!Loaded, Net!OneLoad
<1>12. Net(c)!AskedFirst'
  <2>1. ASSUME NEW z \in c.callers, z # x, y2[z].phase \in {"slot", "sent", "backoff"}
        PROVE  /\ y2[z].guarded => y2[z].host \in c.public /\ y2[z].away = 0
               /\ y2[z].respects => /\ y5[y2[z].load].host = y2[z].host
                                    /\ y5[y2[z].load].guarded = y2[z].guarded
                                    /\ y5[y2[z].load].status = "open"
                                    /\ y3'[y2[z].host] >= y5[y2[z].load].delay
    <3>1. y2[z].host \in c.hosts /\ (y2[z].respects => y2[z].load \in 1..Len(y5))
      BY <1>1, <2>1 DEF Net!Looked, Net!LooksAt, Net!Is
    <3>2. y2[z].respects => y5[y2[z].load].delay \in Nat
      <4>1. y2[z].respects => y5[y2[z].load] \in Net(c)!Loads
        BY <1>3, <3>1, ElementOfSeq
      <4> QED BY <1>4, <4>1 DEF Net!Loads
    <3>3. y3[y2[z].host] \in Nat /\ y3'[y2[z].host] >= y3[y2[z].host]
      BY <1>3, <1>4, <1>5, <1>8, <3>1
    <3>4. y3'[y2[z].host] \in Nat
      BY <1>3, <1>4, <1>5, <1>8, <3>1
    <3>5. y2[z].respects => y3[y2[z].host] >= y5[y2[z].load].delay
      BY <1>1, <2>1 DEF Net!AskedFirst, Net!Is
    <3>6. y2[z].respects => y3'[y2[z].host] >= y5[y2[z].load].delay
      BY <3>2, <3>3, <3>4, <3>5
    <3> QED BY <1>1, <2>1, <3>6 DEF Net!AskedFirst, Net!Is
  <2>2. r.respects => gap >= y5[r.load].delay
    <3>1. r.respects => y5[r.load].delay \in Nat
      <4>1. r.respects => y5[r.load] \in Net(c)!Loads
        BY <1>3, ElementOfSeq
      <4> QED BY <1>4, <4>1 DEF Net!Loads
    <3> QED BY <1>5, <3>1
  <2>3. \A n \in 1..Len(y5') : y5'[n].guarded => y5'[n].host \in c.public
    BY <1>1 DEF Net!AskedFirst
  <2>4. ASSUME NEW z \in c.callers, y2'[z].phase \in {"slot", "sent", "backoff"}
        PROVE  /\ y2'[z].guarded => y2'[z].host \in c.public /\ y2'[z].away = 0
               /\ y2'[z].respects => /\ y5'[y2'[z].load].host = y2'[z].host
                                     /\ y5'[y2'[z].load].guarded = y2'[z].guarded
                                     /\ y5'[y2'[z].load].status = "open"
                                     /\ y3'[y2'[z].host] >= y5'[y2'[z].load].delay
    <3>1. CASE z = x
      BY <1>3, <1>7, <1>8, <2>2, <3>1
    <3>2. CASE z # x
      BY <1>8, <2>1, <2>4, <3>2
    <3> QED BY <3>1, <3>2
  <2> QED BY <2>3, <2>4 DEF Net!AskedFirst, Net!Is
<1>13. Net(c)!FewTries'
  BY <1>1, <1>7, <1>8 DEF Net!FewTries
<1>14. Net(c)!Spacing'
  <2>1. ASSUME NEW s, NEW k \in c.hosts, s.at \in Nat, s.gap \in Nat, Net(c)!SlotOf(s, k)
        PROVE  /\ y4'[k] # Net(c)!Never /\ s.at <= y4'[k] /\ s.gap <= y3'[k]
               /\ k = h => at >= s.at + gap
    <3>1. y4[k] # Net(c)!Never /\ s.at <= y4[k] /\ s.gap <= y3[k]
      BY <2>1 DEF Net!SlotOf
    <3>2. y4[k] \in Nat /\ y3[k] \in Nat
      BY <1>3, <1>4, <3>1
    <3>3. at # Net(c)!Never
      BY <1>6 DEF Net!Never
    <3>4. CASE k = h
      BY <1>5, <1>6, <1>8, <2>1, <3>1, <3>2, <3>3, <3>4
    <3>5. CASE k # h
      BY <1>8, <3>1, <3>5
    <3> QED BY <3>4, <3>5
  <2>2. ASSUME NEW z \in c.callers, z # x, y2[z].phase = "slot"
        PROVE  /\ y2[z].host \in c.hosts /\ y2[z].at \in Nat /\ y2[z].gap \in Nat
               /\ Net(c)!SlotOf(y2[z], y2[z].host)
    BY <1>1, <1>3, <2>2
    DEF Net!Requests, Net!Looked, Net!LooksAt, Net!Is, Net!Spacing
  <2>3. ASSUME NEW k \in c.hosts, NEW s \in y6.used[k]
        PROVE  s.at \in Nat /\ s.gap \in Nat /\ Net(c)!SlotOf(s, k)
    BY <1>1, <1>3 DEF Net!Slots, Net!Spacing
  <2>4. ASSUME NEW z \in c.callers, y2'[z].phase = "slot"
        PROVE  /\ Net(c)!SlotOf(y2[z], y2[z].host)'
               /\ \A s \in y6.used[y2'[z].host] : Net(c)!Apart(y2'[z], s)
    <3>1. CASE z = x
      <4>1. y2'[z] = q /\ h \in c.hosts
        BY <1>8, <3>1, <1>3
      <4>2. \A s \in y6.used[h] : at >= s.at + gap
        BY <2>1, <2>3, <1>3
      <4>3. y4'[h] = at /\ y3'[h] = gap /\ at # Net(c)!Never /\ at <= at /\ gap <= gap
        BY <1>3, <1>5, <1>6, <1>8 DEF Net!Never
      <4> QED BY <1>7, <4>1, <4>2, <4>3 DEF Net!SlotOf, Net!Apart
    <3>2. CASE z # x
      <4>1. y2'[z] = y2[z] /\ y2[z].phase = "slot"
        BY <1>8, <2>4, <3>2
      <4>2. Net(c)!SlotOf(y2[z], y2[z].host)'
        BY <2>1, <2>2, <3>2, <4>1 DEF Net!SlotOf
      <4>3. \A s \in y6.used[y2[z].host] : Net(c)!Apart(y2[z], s)
        BY <1>1, <4>1 DEF Net!Spacing, Net!Is
      <4> QED BY <4>1, <4>2, <4>3
    <3> QED BY <3>1, <3>2
  <2>5. ASSUME NEW z \in c.callers, z # x, y2[z].phase = "slot", y2[z].host = h
        PROVE  Net(c)!Apart(q, y2[z]) /\ Net(c)!Apart(y2[z], q)
    BY <1>7, <2>1, <2>2, <2>5 DEF Net!Apart
  <2>6. ASSUME NEW z \in c.callers, NEW w \in c.callers, y2'[z].phase = "slot",
               y2'[w].phase = "slot", z # w, y2'[z].host = y2'[w].host
        PROVE  Net(c)!Apart(y2'[z], y2'[w])
    <3>1. CASE z = x
      BY <1>7, <1>8, <2>5, <2>6, <3>1
    <3>2. CASE w = x
      BY <1>7, <1>8, <2>5, <2>6, <3>2
    <3>3. CASE z # x /\ w # x
      BY <1>1, <1>8, <2>6, <3>3 DEF Net!Spacing, Net!Is
    <3> QED BY <3>1, <3>2, <3>3
  <2>7. \A k \in c.hosts : \A s \in y6.used[k] :
           y4'[k] # Net(c)!Never /\ s.at <= y4'[k] /\ s.gap <= y3'[k]
    BY <2>1, <2>3
  <2>8. Net(c)!Spaced'
    BY <1>1, <1>7, <1>8 DEF Net!Spacing, Net!Spaced, Net!Is
  <2> QED BY <2>4, <2>6, <2>7, <2>8 DEF Net!Spacing, Net!Is, Net!SlotOf
<1> QED BY <1>9, <1>10, <1>11, <1>12, <1>13, <1>14 DEF Net!PoliteInv

(* A request ends, answered or given up. *)
LEMMA RequestEnds ==
    ASSUME NEW CONSTANT c, Net(c)!PoliteAssumption, Net(c)!PoliteInv, NEW x \in c.callers,
           Net(c)!Ended(x), UNCHANGED <<y1, y6>>
    PROVE  Net(c)!PoliteInv'
<1> DEFINE q == [Net(c)!NoCaller EXCEPT !.phase = "done"]
<1>1. q \in Net(c)!Requests /\ q.phase = "done" /\ q.tries = 0 /\ q.hops = 0
  BY DEF Net!NoCaller, Net!Requests
<1>2. y2' = [y2 EXCEPT ![x] = q] /\ UNCHANGED <<y3, y4, y5>>
  BY DEF Net!Ended, Net!Goes
<1>3. 0 <= c.retries /\ 0 <= c.hops
  BY DEF Net!PoliteAssumption
<1> HIDE DEF q
<1> QED BY <1>1, <1>2, <1>3, RequestMoves

(* What is asked: the rules of a host, or, for one that does not respect them, a slot. *)
LEMMA RequestAsks ==
    ASSUME NEW CONSTANT c, Net(c)!PoliteAssumption, Net(c)!PoliteInv, NEW x \in c.callers,
           NEW r \in Net(c)!Requests, Net(c)!Asks(x, r), UNCHANGED <<y1, y6>>,
           r.host \in c.hosts, r.guarded => r.away = 0, r.tries <= c.retries, r.hops <= c.hops,
           y2[x].phase # "slot"
    PROVE  Net(c)!PoliteInv'
<1>1. y5 \in Seq(Net(c)!Loads) /\ Len(y5) \in Nat
  BY DEF Net!PoliteInv, Net!Typed
<1>2. CASE Net(c)!Ended(x)
  BY <1>2, RequestEnds
<1>3. ASSUME ~Net(c)!Mutes(r) PROVE r.guarded => r.host \in c.public /\ r.away = 0
  BY <1>3 DEF Net!Mutes, Net!IsPublic
<1>4. CASE ~Net(c)!Mutes(r) /\ r.respects /\ Net(c)!AsksRobots(x, r)
  <2>1. CASE Net(c)!Known(r.host, r.guarded)
    <3> DEFINE n == Net(c)!Cached(r.host, r.guarded)
               q == [r EXCEPT !.phase = "robots", !.load = n]
    <3>1. n \in 1..Len(y5) /\ y5[n].host = r.host /\ y5[n].guarded = r.guarded
      BY <2>1, CachedIsOne DEF Net!Known
    <3>2. n \in Nat
      BY <1>1, <3>1
    <3>3. y2' = [y2 EXCEPT ![x] = q] /\ UNCHANGED <<y3, y4, y5>>
      BY <1>4, <2>1 DEF Net!AsksRobots, Net!Goes
    <3> HIDE DEF n
    <3>4. /\ q \in Net(c)!Requests /\ q.phase = "robots" /\ q.load = n
          /\ q.host = r.host /\ q.guarded = r.guarded /\ q.tries = r.tries /\ q.hops = r.hops
          /\ q.away = r.away
      BY <3>2 DEF Net!Requests
    <3> HIDE DEF q
    <3>5. Net(c)!LooksAt(q)
      BY <1>3, <1>4, <3>1, <3>4 DEF Net!LooksAt
    <3> QED BY <3>3, <3>4, <3>5, RequestMoves
  <2>2. CASE ~Net(c)!Known(r.host, r.guarded)
    <3> DEFINE q == [r EXCEPT !.phase = "robots", !.load = Len(y5) + 1]
               load == [host |-> r.host, guarded |-> r.guarded, status |-> "loading",
                        delay |-> 0, from |-> y1, expires |-> y1 + c.ttl]
    <3>1. y2' = [y2 EXCEPT ![x] = q] /\ y5' = Append(y5, load) /\ UNCHANGED <<y3, y4>>
      BY <1>4, <2>2 DEF Net!AsksRobots, Net!Goes
    <3>2. Len(y5) + 1 \in Nat
      BY <1>1
    <3>3. /\ q \in Net(c)!Requests /\ q.phase = "robots" /\ q.load = Len(y5) + 1
          /\ q.host = r.host /\ q.guarded = r.guarded /\ q.tries = r.tries /\ q.hops = r.hops
          /\ q.away = r.away
      BY <3>2 DEF Net!Requests
    <3> HIDE DEF q
    <3>4. load = [host |-> q.host, guarded |-> q.guarded, status |-> "loading",
                  delay |-> 0, from |-> y1, expires |-> y1 + c.ttl]
      BY <3>3
    <3> HIDE DEF load
    <3> QED BY <1>3, <1>4, <2>2, <3>1, <3>3, <3>4, LoadBegins
  <2> QED BY <2>1, <2>2
<1>5. CASE ~Net(c)!Mutes(r) /\ ~r.respects /\ Net(c)!Books(x, r) /\ UNCHANGED y5
  BY <1>3, <1>5, SlotIsBooked
<1> QED BY <1>2, <1>4, <1>5 DEF Net!Asks

(* The rules of a load come once, and do not change. *)
LEMMA RulesArrive ==
    ASSUME NEW CONSTANT c, Net(c)!PoliteAssumption, Net(c)!PoliteInv, NEW n \in 1..Len(y5),
           NEW v \in Net(c)!Verdicts, Net(c)!RobotsAnswers(n, v)
    PROVE  Net(c)!PoliteInv'
<1>1. /\ Net(c)!Typed /\ y5 \in Seq(Net(c)!Loads) /\ Len(y5) \in Nat
  BY DEF Net!PoliteInv, Net!Typed
<1>2. y5[n] \in Net(c)!Loads
  BY <1>1, ElementOfSeq
<1>3. v.status \in {"open", "shut"} /\ v.delay \in {0, c.delay}
  BY DEF Net!Verdicts
<1>4. PICK load : load = [y5[n] EXCEPT !.status = v.status, !.delay = v.delay]
  OBVIOUS
<1>5. /\ load \in Net(c)!Loads /\ load.host = y5[n].host /\ load.guarded = y5[n].guarded
      /\ load.from = y5[n].from /\ load.expires = y5[n].expires
  BY <1>2, <1>3, <1>4 DEF Net!Loads
<1>6. y5[n].status = "loading" /\ y5' = [y5 EXCEPT ![n] = load] /\ UNCHANGED <<y1, y2, y3, y4, y6>>
  <2>1. y5' = [y5 EXCEPT ![n].status = v.status, ![n].delay = v.delay]
    BY DEF Net!RobotsAnswers
  <2>2. [y5 EXCEPT ![n].status = v.status, ![n].delay = v.delay] = [y5 EXCEPT ![n] = load]
    BY <1>1, <1>2, <1>4 DEF Net!Loads
  <2> QED BY <2>1, <2>2 DEF Net!RobotsAnswers
<1>7. /\ y5' \in Seq(Net(c)!Loads) /\ Len(y5') = Len(y5)
      /\ \A k \in 1..Len(y5) : y5'[k] = IF k = n THEN load ELSE y5[k]
  BY <1>1, <1>5, <1>6
<1>8. Net(c)!Typed'
  BY <1>1, <1>6, <1>7 DEF Net!Typed
<1>9. Net(c)!Looked'
  BY <1>5, <1>6, <1>7 DEF Net!PoliteInv, Net!Looked, Net!LooksAt, Net!Is
<1>10. Net(c)!Loaded' /\ Net(c)!OneLoad'
  BY <1>5, <1>6, <1>7 DEF Net!PoliteInv, Net!Loaded, Net!OneLoad
<1>11. Net(c)!AskedFirst'
  <2>1. ASSUME NEW z \in c.callers, y2[z].phase \in {"slot", "sent", "backoff"}, y2[z].respects
        PROVE  y2[z].load \in 1..Len(y5) /\ y2[z].load # n
    BY <1>6, <2>1 DEF Net!PoliteInv, Net!Looked, Net!LooksAt, Net!Is, Net!AskedFirst
  <2>2. \A k \in 1..Len(y5') : y5'[k].guarded => y5'[k].host \in c.public
    BY <1>5, <1>7 DEF Net!PoliteInv, Net!AskedFirst
  <2> QED BY <1>6, <1>7, <2>1, <2>2 DEF Net!PoliteInv, Net!AskedFirst, Net!Is
<1>12. Net(c)!FewTries' /\ Net(c)!Spacing'
  BY <1>6 DEF Net!PoliteInv, Net!FewTries, Net!Spacing, Net!SlotOf, Net!Apart, Net!Is, Net!Spaced
<1> QED BY <1>8, <1>9, <1>10, <1>11, <1>12 DEF Net!PoliteInv

(* A request goes out in its slot. *)
LEMMA RequestSent ==
    ASSUME NEW CONSTANT c, Net(c)!PoliteAssumption, Net(c)!PoliteInv, NEW x \in c.callers,
           Net(c)!Send(x)
    PROVE  Net(c)!PoliteInv'
<1>1. /\ Net(c)!Typed /\ Net(c)!Looked /\ Net(c)!Loaded /\ Net(c)!OneLoad
      /\ Net(c)!AskedFirst /\ Net(c)!FewTries /\ Net(c)!Spacing
  BY DEF Net!PoliteInv
<1>2. /\ y1 \in Nat /\ y2 \in [c.callers -> Net(c)!Requests]
      /\ y6 \in [used : [c.hosts -> SUBSET Net(c)!Slots], close : BOOLEAN]
  BY <1>1 DEF Net!Typed
<1> DEFINE q == [y2[x] EXCEPT !.phase = "sent"]
           h == y2[x].host
           slot == [at |-> y2[x].at, gap |-> y2[x].gap]
           close == y6.close \/ \E s \in y6.used[h] : ~Net(c)!Apart(slot, s)
           used == [y6.used EXCEPT ![h] = @ \cup {slot}]
<1>3. /\ y2[x].phase = "slot" /\ y2[x].at <= y1 /\ y2' = [y2 EXCEPT ![x] = q]
      /\ y6' = [used |-> used, close |-> close]
      /\ UNCHANGED <<y1, y3, y4, y5>>
  BY DEF Net!Send, Net!Goes, Net!Is
<1>4. y2[x] \in Net(c)!Requests /\ h \in c.hosts /\ y2[x].at \in Nat /\ y2[x].gap \in Nat
  BY <1>1, <1>2, <1>3 DEF Net!Looked, Net!LooksAt, Net!Is, Net!Requests
<1>5. /\ q \in Net(c)!Requests /\ q.phase = "sent" /\ q.host = h /\ q.guarded = y2[x].guarded
      /\ q.respects = y2[x].respects /\ q.load = y2[x].load /\ q.tries = y2[x].tries
      /\ q.hops = y2[x].hops /\ q.away = y2[x].away /\ q.at = y2[x].at
  BY <1>4 DEF Net!Requests
<1> HIDE DEF q
<1>6. \A z \in c.callers : y2'[z] = IF z = x THEN q ELSE y2[z]
  BY <1>2, <1>3
<1>7. slot \in Net(c)!Slots /\ slot.at = y2[x].at /\ slot.gap = y2[x].gap
  BY <1>4 DEF Net!Slots
<1>8. ~close
  <2>1. ~y6.close /\ \A s \in y6.used[h] : Net(c)!Apart(y2[x], s)
    BY <1>1, <1>3 DEF Net!Spacing, Net!Spaced, Net!Is
  <2> QED BY <1>7, <2>1 DEF Net!Apart
<1> HIDE DEF slot, close
<1>9. /\ used \in [c.hosts -> SUBSET Net(c)!Slots]
      /\ \A k \in c.hosts : used[k] = IF k = h THEN y6.used[k] \cup {slot} ELSE y6.used[k]
  BY <1>2, <1>4, <1>7
<1> HIDE DEF used
<1>10. y6'.used = used /\ ~y6'.close
  BY <1>3, <1>8
<1>11. Net(c)!Typed'
  <2>1. y6' \in [used : [c.hosts -> SUBSET Net(c)!Slots], close : BOOLEAN]
    <3>1. close \in BOOLEAN
      BY DEF close
    <3> QED BY <1>3, <1>9, <3>1
  <2> QED BY <1>1, <1>2, <1>3, <1>5, <2>1 DEF Net!Typed
<1>12. Net(c)!Looked'
  BY <1>1, <1>3, <1>5, <1>6 DEF Net!Looked, Net!LooksAt, Net!Is
<1>13. Net(c)!Loaded' /\ Net(c)!OneLoad'
  BY <1>1, <1>3 DEF Net!Loaded, Net!OneLoad
<1>14. Net(c)!AskedFirst' /\ Net(c)!FewTries'
  BY <1>1, <1>3, <1>5, <1>6 DEF Net!AskedFirst, Net!FewTries, Net!Is
<1>15. Net(c)!Spacing'
  <2>1. ASSUME NEW z \in c.callers, y2'[z].phase = "slot"
        PROVE  z # x /\ y2'[z] = y2[z] /\ y2[z].phase = "slot"
    BY <1>5, <1>6, <2>1
  <2>2. ASSUME NEW z \in c.callers, y2'[z].phase = "slot"
        PROVE  /\ Net(c)!SlotOf(y2[z], y2[z].host)'
               /\ \A s \in y6'.used[y2'[z].host] : Net(c)!Apart(y2'[z], s)
    <3>1. y2[z].host \in c.hosts
      BY <1>1, <2>1, <2>2 DEF Net!Looked, Net!LooksAt, Net!Is
    <3>2. Net(c)!SlotOf(y2[z], y2[z].host)'
      BY <1>1, <1>3, <2>1, <2>2 DEF Net!Spacing, Net!SlotOf, Net!Is
    <3>3. \A s \in y6.used[y2[z].host] : Net(c)!Apart(y2[z], s)
      BY <1>1, <2>1, <2>2 DEF Net!Spacing, Net!Is
    <3>4. y2[z].host = h => Net(c)!Apart(y2[z], slot)
      <4>1. y2[z].host = h => Net(c)!Apart(y2[z], y2[x])
        BY <1>1, <1>3, <2>1, <2>2 DEF Net!Spacing, Net!Is
      <4> QED BY <1>7, <4>1 DEF Net!Apart
    <3>5. \A s \in used[y2[z].host] : Net(c)!Apart(y2[z], s)
      <4>1. CASE y2[z].host = h
        BY <1>9, <3>1, <3>3, <3>4, <4>1
      <4>2. CASE y2[z].host # h
        BY <1>9, <3>1, <3>3, <4>2
      <4> QED BY <4>1, <4>2
    <3> QED BY <1>10, <2>1, <2>2, <3>2, <3>5
  <2>3. ASSUME NEW z \in c.callers, NEW w \in c.callers, y2'[z].phase = "slot",
               y2'[w].phase = "slot", z # w, y2'[z].host = y2'[w].host
        PROVE  Net(c)!Apart(y2'[z], y2'[w])
    BY <1>1, <2>1, <2>3 DEF Net!Spacing, Net!Is
  <2>4. ASSUME NEW k \in c.hosts, NEW s \in y6'.used[k]
        PROVE  y4'[k] # Net(c)!Never /\ s.at <= y4'[k] /\ s.gap <= y3'[k]
    <3>1. CASE s \in y6.used[k]
      BY <1>1, <1>3, <3>1 DEF Net!Spacing, Net!SlotOf
    <3>2. CASE k = h /\ s = slot
      BY <1>1, <1>3, <1>7, <3>2 DEF Net!Spacing, Net!SlotOf, Net!Is
    <3> QED BY <1>9, <1>10, <2>4, <3>1, <3>2
  <2>5. Net(c)!Spaced'
    BY <1>1, <1>3, <1>5, <1>6, <1>10 DEF Net!Spacing, Net!Spaced, Net!Is
  <2> QED BY <2>2, <2>3, <2>4, <2>5 DEF Net!Spacing, Net!Is, Net!SlotOf
<1> QED BY <1>11, <1>12, <1>13, <1>14, <1>15 DEF Net!PoliteInv

(* Time goes on, whoever is due. *)
LEMMA TimeGoesOn ==
    ASSUME NEW CONSTANT c, Net(c)!PoliteAssumption, Net(c)!PoliteInv, Net(c)!Tick
    PROVE  Net(c)!PoliteInv'
<1>1. /\ Net(c)!Typed /\ Net(c)!Looked /\ Net(c)!Loaded /\ Net(c)!OneLoad
      /\ Net(c)!AskedFirst /\ Net(c)!FewTries /\ Net(c)!Spacing
  BY DEF Net!PoliteInv
<1>2. y1 \in Nat /\ y1' = y1 + 1 /\ UNCHANGED <<y2, y3, y4, y5, y6>>
  BY <1>1 DEF Net!Typed, Net!Tick
<1>3. Net(c)!Typed' /\ Net(c)!Looked' /\ Net(c)!OneLoad' /\ Net(c)!AskedFirst' /\ Net(c)!FewTries'
  BY <1>1, <1>2
  DEF Net!Typed, Net!Looked, Net!LooksAt, Net!OneLoad, Net!AskedFirst, Net!FewTries, Net!Is
<1>4. Net(c)!Loaded'
  <2>1. \A n \in 1..Len(y5) : y5[n].from \in Nat
    <3>1. \A n \in 1..Len(y5) : y5[n] \in Net(c)!Loads
      BY <1>1, ElementOfSeq DEF Net!Typed
    <3> QED BY <3>1 DEF Net!Loads
  <2> QED BY <1>1, <1>2, <2>1 DEF Net!Loaded
<1>5. Net(c)!Spacing'
  <2>1. \A z \in c.callers : y2[z].at \in Nat
    BY <1>1 DEF Net!Typed, Net!Requests
  <2>2. Net(c)!Spaced'
    BY <1>1, <1>2, <2>1 DEF Net!Spacing, Net!Spaced, Net!Is
  <2> QED BY <1>1, <1>2, <2>2 DEF Net!Spacing, Net!SlotOf, Net!Is, Net!Apart
<1> QED BY <1>1, <1>3, <1>4, <1>5 DEF Net!PoliteInv

(* A request begins, and is followed to a destination that it is led to. *)
LEMMA RequestBegins ==
    ASSUME NEW CONSTANT c, Net(c)!PoliteAssumption, Net(c)!PoliteInv, NEW x \in c.callers,
           NEW h \in c.hosts, NEW g \in BOOLEAN, NEW r \in BOOLEAN, Net(c)!Begin(x, h, g, r)
    PROVE  Net(c)!PoliteInv'
<1> DEFINE q == [Net(c)!NoCaller EXCEPT !.host = h, !.guarded = g, !.respects = r]
<1>1. q \in Net(c)!Requests /\ q.host = h /\ q.tries = 0 /\ q.hops = 0 /\ q.away = 0
  BY DEF Net!NoCaller, Net!Requests
<1>2. y2[x].phase # "slot" /\ Net(c)!Asks(x, q) /\ UNCHANGED <<y1, y6>>
  BY DEF Net!Begin, Net!Is
<1>3. 0 <= c.retries /\ 0 <= c.hops
  BY DEF Net!PoliteAssumption
<1> HIDE DEF q
<1> QED BY <1>1, <1>2, <1>3, RequestAsks

LEMMA RequestLedOn ==
    ASSUME NEW CONSTANT c, Net(c)!PoliteAssumption, Net(c)!PoliteInv, NEW x \in c.callers,
           NEW h \in c.hosts, Net(c)!Redirects(x, h)
    PROVE  Net(c)!PoliteInv'
<1> DEFINE q == [y2[x] EXCEPT !.host = h, !.hops = @ + 1]
<1>1. /\ y2[x] \in Net(c)!Requests /\ y2[x].tries <= c.retries
  BY DEF Net!PoliteInv, Net!Typed, Net!FewTries
<1>2. y2[x].phase = "sent" /\ UNCHANGED <<y1, y6>> /\ y2[x].away = 0
  BY DEF Net!Redirects, Net!Is, Net!PoliteInv, Net!Looked, Net!LooksAt
<1>3. CASE y2[x].hops >= c.hops
  BY <1>2, <1>3, RequestEnds DEF Net!Redirects
<1>4. CASE ~(y2[x].hops >= c.hops)
  <2>1. y2[x].hops \in Nat /\ c.hops \in Nat
    BY <1>1 DEF Net!Requests, Net!PoliteAssumption
  <2>2. /\ q \in Net(c)!Requests /\ q.host = h /\ q.tries = y2[x].tries
        /\ q.hops <= c.hops /\ q.away = y2[x].away
    <3>1. PICK n \in Nat : n = y2[x].hops + 1 /\ n <= c.hops
      BY <1>4, <2>1
    <3>2. q = [y2[x] EXCEPT !.host = h, !.hops = n]
      BY <3>1
    <3> HIDE DEF q
    <3> QED BY <1>1, <3>1, <3>2 DEF Net!Requests
  <2>3. Net(c)!Asks(x, q)
    BY <1>4 DEF Net!Redirects, Net!Hop
  <2> HIDE DEF q
  <2> QED BY <1>1, <1>2, <2>2, <2>3, RequestAsks
<1> QED BY <1>3, <1>4

(* fetch leads a request on that is not guarded. *)
LEMMA RequestFollowed ==
    ASSUME NEW CONSTANT c, Net(c)!PoliteInv, NEW x \in c.callers, NEW h \in c.hosts,
           Net(c)!Follows(x, h)
    PROVE  Net(c)!PoliteInv'
<1> DEFINE q == [y2[x] EXCEPT !.away = h]
<1>1. /\ y2[x] \in Net(c)!Requests /\ y2[x].phase = "sent" /\ ~y2[x].guarded
      /\ y2[x].tries <= c.retries /\ y2[x].hops <= c.hops /\ y2[x].at <= y1
      /\ Net(c)!LooksAt(y2[x])
      /\ y2[x].respects => /\ y5[y2[x].load].status = "open"
                           /\ y3[y2[x].host] >= y5[y2[x].load].delay
  BY DEF Net!Follows, Net!PoliteInv, Net!Typed, Net!FewTries, Net!Looked, Net!AskedFirst,
         Net!Spacing, Net!Spaced, Net!Is
<1>2. y2' = [y2 EXCEPT ![x] = q] /\ UNCHANGED <<y1, y3, y4, y5, y6>>
  BY DEF Net!Follows, Net!Goes
<1>3. /\ q \in Net(c)!Requests /\ q.phase = "sent" /\ q.guarded = y2[x].guarded
      /\ q.tries = y2[x].tries /\ q.hops = y2[x].hops /\ q.at = y2[x].at
      /\ q.host = y2[x].host /\ q.respects = y2[x].respects /\ q.load = y2[x].load
  BY <1>1 DEF Net!Requests
<1> HIDE DEF q
<1>4. Net(c)!LooksAt(q)
  BY <1>1, <1>3 DEF Net!LooksAt
<1> QED BY <1>1, <1>2, <1>3, <1>4, RequestMoves

(* The rules are read: the request is given up, or waits for its slot. *)
LEMMA RulesRead ==
    ASSUME NEW CONSTANT c, Net(c)!PoliteAssumption, Net(c)!PoliteInv, NEW x \in c.callers,
           Net(c)!ReadsRobots(x)
    PROVE  Net(c)!PoliteInv'
<1> DEFINE n == y2[x].load
           r == [y2[x] EXCEPT !.delay = y5[n].delay]
<1>1. y2[x].phase = "robots" /\ UNCHANGED <<y1, y6>>
  BY DEF Net!ReadsRobots, Net!Is
<1>2. /\ y2[x] \in Net(c)!Requests /\ y2[x].tries <= c.retries /\ y2[x].hops <= c.hops
      /\ y5 \in Seq(Net(c)!Loads) /\ Net(c)!LooksAt(y2[x])
  BY <1>1 DEF Net!PoliteInv, Net!Typed, Net!FewTries, Net!Looked, Net!Is
<1>3. /\ y2[x].host \in c.hosts
      /\ y2[x].guarded => y2[x].host \in c.public /\ y2[x].away = 0
      /\ n \in 1..Len(y5) /\ y5[n].host = y2[x].host /\ y5[n].guarded = y2[x].guarded
  BY <1>1, <1>2 DEF Net!LooksAt
<1>4. y5[n].delay \in {0, c.delay}
  <2>1. y5[n] \in Net(c)!Loads
    BY <1>2, <1>3, ElementOfSeq
  <2> QED BY <2>1 DEF Net!Loads
<1>5. /\ r \in Net(c)!Requests /\ r.delay = y5[n].delay /\ r.host = y2[x].host
      /\ r.guarded = y2[x].guarded /\ r.respects = y2[x].respects /\ r.load = n
      /\ r.tries = y2[x].tries /\ r.hops = y2[x].hops /\ r.away = y2[x].away
  BY <1>2, <1>4 DEF Net!Requests
<1>6. \/ Net(c)!Ended(x)
      \/ y5[n].status = "open" /\ Net(c)!Books(x, r) /\ UNCHANGED y5
  BY DEF Net!ReadsRobots
<1> HIDE DEF r, n
<1>7. CASE Net(c)!Ended(x)
  BY <1>1, <1>7, RequestEnds
<1>8. CASE y5[n].status = "open" /\ Net(c)!Books(x, r) /\ UNCHANGED y5
  BY <1>1, <1>2, <1>3, <1>5, <1>8, SlotIsBooked
<1> QED BY <1>6, <1>7, <1>8

(* A busy host is asked again after a pause, so many times. *)
LEMMA HostIsBusy ==
    ASSUME NEW CONSTANT c, Net(c)!PoliteAssumption, Net(c)!PoliteInv, NEW x \in c.callers,
           NEW wait \in 1..2, Net(c)!Busy(x, wait)
    PROVE  Net(c)!PoliteInv'
<1> DEFINE q == [y2[x] EXCEPT !.phase = "backoff", !.tries = @ + 1, !.at = y1 + wait,
                           !.away = 0]
<1>1. y2[x].phase = "sent" /\ UNCHANGED <<y1, y6>>
  BY DEF Net!Busy, Net!Is
<1>2. CASE ~Net(c)!MayRetry(y2[x])
  BY <1>1, <1>2, RequestEnds DEF Net!Busy
<1>3. CASE Net(c)!MayRetry(y2[x])
  <2>1. /\ y2[x] \in Net(c)!Requests /\ y2[x].hops <= c.hops /\ y1 \in Nat
        /\ Net(c)!LooksAt(y2[x])
        /\ y2[x].respects => /\ y5[y2[x].load].status = "open"
                             /\ y3[y2[x].host] >= y5[y2[x].load].delay
    BY <1>1 DEF Net!PoliteInv, Net!Typed, Net!FewTries, Net!Looked, Net!AskedFirst, Net!Is
  <2>2. y2[x].tries \in Nat /\ c.retries \in Nat /\ y2[x].tries < c.retries /\ y1 + wait \in Nat
    BY <1>3, <2>1 DEF Net!MayRetry, Net!Requests, Net!PoliteAssumption
  <2>3. y2' = [y2 EXCEPT ![x] = q] /\ UNCHANGED <<y3, y4, y5>>
    BY <1>3 DEF Net!Busy, Net!Goes
  <2>4. /\ q \in Net(c)!Requests /\ q.phase = "backoff" /\ q.tries <= c.retries
        /\ q.hops = y2[x].hops /\ q.host = y2[x].host /\ q.guarded = y2[x].guarded
        /\ q.respects = y2[x].respects /\ q.load = y2[x].load /\ q.away = 0
    <3>1. PICK n \in Nat, at \in Nat : n = y2[x].tries + 1 /\ n <= c.retries /\ at = y1 + wait
      BY <2>2
    <3>2. q = [y2[x] EXCEPT !.phase = "backoff", !.tries = n, !.at = at, !.away = 0]
      BY <3>1
    <3> HIDE DEF q
    <3> QED BY <2>1, <3>1, <3>2 DEF Net!Requests
  <2> HIDE DEF q
  <2>5. Net(c)!LooksAt(q)
    BY <1>1, <2>1, <2>4 DEF Net!LooksAt
  <2> QED BY <1>1, <2>1, <2>3, <2>4, <2>5, RequestMoves
<1> QED BY <1>2, <1>3

LEMMA RequestWakes ==
    ASSUME NEW CONSTANT c, Net(c)!PoliteAssumption, Net(c)!PoliteInv, NEW x \in c.callers,
           Net(c)!Wake(x)
    PROVE  Net(c)!PoliteInv'
<1>1. y2[x].phase = "backoff" /\ Net(c)!Books(x, y2[x]) /\ UNCHANGED <<y1, y5, y6>>
  BY DEF Net!Wake, Net!Is
<1>2. /\ y2[x] \in Net(c)!Requests /\ y2[x].tries <= c.retries /\ y2[x].hops <= c.hops
      /\ Net(c)!LooksAt(y2[x])
      /\ y2[x].respects => /\ y5[y2[x].load].status = "open"
                           /\ y3[y2[x].host] >= y5[y2[x].load].delay
  BY <1>1 DEF Net!PoliteInv, Net!Typed, Net!FewTries, Net!Looked, Net!AskedFirst, Net!Is
<1>3. /\ y2[x].host \in c.hosts
      /\ y2[x].guarded => y2[x].host \in c.public /\ y2[x].away = 0
      /\ y2[x].respects => /\ y2[x].load \in 1..Len(y5)
                           /\ y5[y2[x].load].host = y2[x].host
                           /\ y5[y2[x].load].guarded = y2[x].guarded
  BY <1>2 DEF Net!LooksAt
<1> QED BY <1>1, <1>2, <1>3, SlotIsBooked

LEMMA NetStart ==
    ASSUME NEW CONSTANT c, Net(c)!PoliteAssumption, Net(c)!Init
    PROVE  Net(c)!PoliteInv
<1>1. /\ y1 = 0 /\ y2 = [x \in c.callers |-> Net(c)!NoCaller] /\ y3 = [h \in c.hosts |-> 0]
      /\ y4 = [h \in c.hosts |-> Net(c)!Never] /\ y5 = <<>>
      /\ y6 = [used |-> [h \in c.hosts |-> {}], close |-> FALSE]
  BY DEF Net!Init
<1>2. /\ Net(c)!NoCaller \in Net(c)!Requests /\ Net(c)!NoCaller.phase = "idle"
      /\ Net(c)!NoCaller.tries = 0 /\ Net(c)!NoCaller.hops = 0
  BY DEF Net!NoCaller, Net!Requests
<1>3. Net(c)!Typed
  BY <1>1, <1>2 DEF Net!Typed
<1>4. Len(y5) = 0 /\ \A x \in c.callers : y2[x] = Net(c)!NoCaller
  BY <1>1
<1>5. Net(c)!Looked /\ Net(c)!Loaded /\ Net(c)!OneLoad /\ Net(c)!AskedFirst
  BY <1>2, <1>4 DEF Net!Looked, Net!Loaded, Net!OneLoad, Net!AskedFirst, Net!Is
<1>6. Net(c)!FewTries
  BY <1>2, <1>4 DEF Net!FewTries, Net!PoliteAssumption
<1>7. Net(c)!Spacing
  BY <1>1, <1>2, <1>4 DEF Net!Spacing, Net!Is, Net!Spaced
<1> QED BY <1>3, <1>5, <1>6, <1>7 DEF Net!PoliteInv

LEMMA NetSame ==
    ASSUME NEW CONSTANT c, Net(c)!PoliteInv, UNCHANGED Net(c)!vars
    PROVE  Net(c)!PoliteInv'
BY DEF Net!vars, Net!PoliteInv, Net!Typed, Net!Looked, Net!LooksAt, Net!Loaded, Net!OneLoad,
       Net!AskedFirst, Net!FewTries, Net!Spacing, Net!SlotOf, Net!Is, Net!Spaced

LEMMA NetStep ==
    ASSUME NEW CONSTANT c, Net(c)!PoliteAssumption, Net(c)!PoliteInv, Net(c)!Next
    PROVE  Net(c)!PoliteInv'
<1>1. CASE \E x \in c.callers, h \in c.hosts, g, r \in BOOLEAN : Net(c)!Begin(x, h, g, r)
  BY <1>1, RequestBegins
<1>2. CASE \E n \in 1..Len(y5), v \in Net(c)!Verdicts : Net(c)!RobotsAnswers(n, v)
  BY <1>2, RulesArrive
<1>3. ASSUME NEW x \in c.callers, \/ Net(c)!ReadsRobots(x) \/ Net(c)!Send(x) \/ Net(c)!Answers(x)
                                  \/ Net(c)!Wake(x)
      PROVE  Net(c)!PoliteInv'
  BY <1>3, RulesRead, RequestSent, RequestEnds, RequestWakes DEF Net!Answers
<1>4. CASE \E x \in c.callers : \/ \E h \in c.hosts : Net(c)!Redirects(x, h) \/ Net(c)!Follows(x, h)
                                \/ \E w \in 1..2 : Net(c)!Busy(x, w)
  BY <1>4, RequestLedOn, RequestFollowed, HostIsBusy
<1>5. CASE Net(c)!Tick
  BY <1>5, TimeGoesOn
<1> QED BY <1>1, <1>2, <1>3, <1>4, <1>5 DEF Net!Next

LEMMA PoliteInvSuffices ==
    ASSUME NEW CONSTANT c, Net(c)!PoliteInv
    PROVE  Net(c)!Polite
BY DEF Net!PoliteInv, Net!Polite, Net!Spacing

(* Polite, for any requests, hosts, gaps, delays, retries and hops, and however late  *)
(* timers fire: what is sent is allowed by the rules of its host, and a guarded       *)
(* request is nowhere but at public hosts; a host's rules are read once while they    *)
(* hold; and its slots are as far apart as it asks.                                   *)
THEOREM AlwaysPolite ==
    ASSUME NEW CONSTANT c, Net(c)!PoliteAssumption
    PROVE  Net(c)!Spec => [](Net(c)!Typed /\ Net(c)!Polite)
<1>1. Net(c)!Init => Net(c)!PoliteInv
  BY NetStart
<1>2. Net(c)!PoliteInv /\ [Net(c)!Next]_(Net(c)!vars) => Net(c)!PoliteInv'
  BY NetStep, NetSame
<1>3. Net(c)!PoliteInv => Net(c)!Typed /\ Net(c)!Polite
  BY PoliteInvSuffices DEF Net!PoliteInv
<1> QED BY <1>1, <1>2, <1>3, PTL DEF Net!Spec

-----------------------------------------------------------------------------
(* OffsetScan *)

(* What is on a board is what some place of it has. *)
LEMMA OnBoardIs ==
    ASSUME NEW CONSTANT c, Paged(c)!Shaped
    PROVE  /\ y2 \in Seq(c.jobs) /\ Len(y2) \in Nat /\ DOMAIN y2 = 1..Len(y2)
           /\ Paged(c)!OnBoard = {y2[i] : i \in 1..Len(y2)}
<1>1. y2 \in Seq(c.jobs)
  BY DEF Paged!Shaped
<1>2. Paged(c)!OnBoard = {y2[i] : i \in DOMAIN y2}
  BY DEF Paged!OnBoard, Paged!Range
<1> QED BY <1>1, <1>2

(* The least of two numbers. *)
LEMMA LeastOfTwo ==
    ASSUME NEW CONSTANT c, NEW m \in Nat, NEW n \in Nat
    PROVE  Paged(c)!Min({m, n}) = IF m <= n THEN m ELSE n
BY DEF Paged!Min

(* A page has what stands at its places, and is full unless the board ends on it. *)
LEMMA PageHas ==
    ASSUME NEW CONSTANT c, Paged(c)!OffsetAssumption, Paged(c)!Shaped, NEW page \in Nat
    PROVE  LET rows == Paged(c)!PageOf(1, page)
               start == page * c.page
           IN /\ Len(rows) \in Nat /\ Len(rows) <= c.page /\ start \in Nat
              /\ \A i \in 1..Len(y2) : i > start /\ i <= start + c.page =>
                    y2[i] \in Paged(c)!Range(rows) /\ i - start <= Len(rows)
<1> DEFINE start == page * c.page
           size == Len(y2)
           stop == IF start + c.page <= size THEN start + c.page ELSE size
           rows == Paged(c)!PageOf(1, page)
<1>1. c.page \in Nat /\ size \in Nat /\ start \in Nat /\ (page + 1) * c.page = start + c.page
  <2>1. c.page \in Nat /\ size \in Nat
    BY OnBoardIs DEF Paged!OffsetAssumption
  <2> QED BY <2>1
<1>2. rows = SubSeq(y2, start + 1, stop)
  <2> HIDE DEF stop, start
  <2>1. Paged(c)!Min({start + c.page, size}) = stop
    BY <1>1, LeastOfTwo DEF stop
  <2>2. Paged(c)!Searched(1) = y2
    BY DEF Paged!Searched
  <2>3. rows = SubSeq(y2, start + 1, Paged(c)!Min({(page + 1) * c.page, Len(y2)}))
    BY <2>2 DEF Paged!PageOf, start
  <2> QED BY <1>1, <2>1, <2>3
<1>3. y2 \in Seq(c.jobs) /\ \A i \in 1..size : y2[i] \in c.jobs
  <2>1. y2 \in Seq(c.jobs)
    BY OnBoardIs
  <2> QED BY <2>1
<1>4. stop \in Nat /\ stop <= size /\ stop <= start + c.page
  BY <1>1
<1>5. /\ Len(rows) = IF start + 1 <= stop THEN stop - start ELSE 0
      /\ DOMAIN rows = 1..Len(rows)
      /\ \A i \in 1..Len(rows) : rows[i] = y2[start + i]
  <2> HIDE DEF stop, start, rows
  <2>1. CASE start + 1 <= stop
    <3>1. /\ Len(SubSeq(y2, start + 1, stop)) = stop - (start + 1) + 1
          /\ SubSeq(y2, start + 1, stop) \in Seq(c.jobs)
          /\ \A i \in 1..(stop - (start + 1) + 1) : SubSeq(y2, start + 1, stop)[i] = y2[start + 1 + i - 1]
      <4>1. start + 1 \in Int /\ stop \in Int /\ \A i \in (start + 1)..stop : y2[i] \in c.jobs
        BY <1>1, <1>3, <1>4
      <4>2. /\ SubSeq(y2, start + 1, stop) \in Seq(c.jobs)
            /\ Len(SubSeq(y2, start + 1, stop))
                 = IF start + 1 <= stop THEN stop - (start + 1) + 1 ELSE 0
            /\ \A i \in 1..(stop - (start + 1) + 1) :
                  SubSeq(y2, start + 1, stop)[i] = y2[start + 1 + i - 1]
        <5> DEFINE first == start + 1
        <5>1. first \in Int /\ stop \in Int /\ \A i \in first..stop : y2[i] \in c.jobs
          BY <4>1
        <5> HIDE DEF first
        <5>2. /\ SubSeq(y2, first, stop) \in Seq(c.jobs)
              /\ Len(SubSeq(y2, first, stop)) = IF first <= stop THEN stop - first + 1 ELSE 0
              /\ \A i \in 1..(stop - first + 1) : SubSeq(y2, first, stop)[i] = y2[first + i - 1]
          <6>1. SubSeq(y2, first, stop) \in Seq(c.jobs)
            BY <5>1, SubSeqProperties
          <6>2. Len(SubSeq(y2, first, stop)) = IF first <= stop THEN stop - first + 1 ELSE 0
            BY <5>1, SubSeqProperties
          <6>3. \A i \in 1..(stop - first + 1) : SubSeq(y2, first, stop)[i] = y2[first + i - 1]
            BY <5>1, SubSeqProperties
          <6> QED BY <6>1, <6>2, <6>3
        <5> QED BY <5>2 DEF first
      <4> QED BY <2>1, <4>2
    <3>2. stop - (start + 1) + 1 = stop - start
      BY <1>1, <1>4
    <3>3. Len(rows) = stop - start /\ rows \in Seq(c.jobs)
      BY <1>2, <3>1, <3>2
    <3>4. \A i \in 1..(stop - start) : start + 1 + i - 1 = start + i
      BY <1>1, <1>4
    <3>5. DOMAIN rows = 1..Len(rows)
      BY <3>3
    <3> QED BY <1>2, <2>1, <3>1, <3>2, <3>3, <3>4, <3>5
  <2>2. CASE ~(start + 1 <= stop)
    <3>1. rows = << >>
      BY <1>1, <1>2, <1>3, <1>4, <2>2
    <3> QED BY <2>2, <3>1
  <2> QED BY <2>1, <2>2
<1>6. ASSUME NEW i \in 1..size, i > start, i <= start + c.page
      PROVE  y2[i] \in Paged(c)!Range(rows) /\ i - start <= Len(rows)
  <2>1. i <= stop /\ start + 1 <= stop
    BY <1>1, <1>6
  <2> HIDE DEF stop, start, rows
  <2>2. PICK k : k = i - start /\ k \in 1..(stop - start) /\ start + k = i
    BY <1>1, <1>4, <1>6, <2>1
  <2>3. k \in DOMAIN rows /\ rows[k] = y2[i] /\ k <= Len(rows)
    BY <1>5, <2>1, <2>2
  <2> QED BY <2>2, <2>3 DEF Paged!Range
<1>7. Len(rows) \in Nat /\ Len(rows) <= c.page
  BY SMTT(60), <1>1, <1>4, <1>5
<1> QED BY <1>1, <1>6, <1>7

(* The next page is read: the scan has all up to the next place, or all there is. *)
LEMMA PageIsRead ==
    ASSUME NEW CONSTANT c, Paged(c)!OffsetAssumption, Paged(c)!OffsetInv,
           NEW tells \in BOOLEAN, Paged(c)!ReadPage(tells)
    PROVE  Paged(c)!OffsetInv'
<1> DEFINE rows == Paged(c)!PageOf(y3.part, y3.page)
           got == y3.got + Len(rows)
           total == Paged(c)!Total(tells)
           over == \/ Paged(c)!IsLast(rows, got, total) \/ Paged(c)!EndsOnZero(total)
                   \/ y3.page + 1 >= c.cap
           tell == y3.page = 0 => tells
           cut == over /\ Paged(c)!Truncated(y3.page + 1, got, total)
           next == IF over
                   THEN IF y3.part < Paged(c)!Parts THEN [Paged(c)!NoScan EXCEPT !.part = y3.part + 1]
                        ELSE [Paged(c)!NoScan EXCEPT !.part = 3]
                   ELSE [y3 EXCEPT !.page = @ + 1, !.got = got, !.total = total]
<1>1. Paged(c)!Shaped /\ Paged(c)!ReadSoFar
  BY DEF Paged!OffsetInv
<1>2. y3.part \in 1..Paged(c)!Parts /\ y3.part \in {1, 2}
  BY <1>1 DEF Paged!ReadPage, Paged!Shaped, Paged!Parts
<1>3. /\ y4' = [y4 EXCEPT !.jobs = @ \cup Paged(c)!Range(rows), !.degraded = @ \/ cut,
                            !.told = @ /\ tell]
      /\ y3' = next /\ UNCHANGED <<y1, y2>>
  BY DEF Paged!ReadPage, Paged!Ends
<1>4. over \in BOOLEAN /\ cut \in BOOLEAN /\ tell \in BOOLEAN
  BY DEF Paged!IsLast, Paged!EndsOnZero, Paged!Truncated
<1> HIDE DEF over, cut, next, tell
<1>5. /\ y4'.jobs = y4.jobs \cup Paged(c)!Range(rows) /\ y4'.degraded = (y4.degraded \/ cut)
      /\ y4'.steady = y4.steady /\ y4'.told = (y4.told /\ tell)
      /\ y4' = [jobs |-> y4'.jobs, degraded |-> y4'.degraded, steady |-> y4'.steady, told |-> y4'.told]
  <2> HIDE DEF rows
  <2>1. PICK jobs, degraded, steady, told :
          y4 = [jobs |-> jobs, degraded |-> degraded, steady |-> steady, told |-> told]
    BY <1>1 DEF Paged!Shaped
  <2> QED BY <1>3, <2>1
<1>6. /\ over => y3' = [part |-> y3'.part, page |-> 0, total |-> 0, got |-> 0]
                 /\ y3'.part \in {2, 3}
      /\ ~over => /\ y3'.part = y3.part /\ y3'.page = y3.page + 1 /\ y3'.got = got
                  /\ y3'.total = total
                  /\ y3' = [part |-> y3'.part, page |-> y3'.page, total |-> y3'.total,
                            got |-> y3'.got]
  <2> HIDE DEF rows, got, total
  <2>1. PICK part, page, sum, n : y3 = [part |-> part, page |-> page, total |-> sum, got |-> n]
    BY <1>1 DEF Paged!Shaped
  <2>2. Paged(c)!Parts \in {1, 2}
    BY DEF Paged!Parts
  <2>3. CASE over
    BY <1>2, <1>3, <2>2, <2>3 DEF next, Paged!NoScan
  <2>4. CASE ~over
    BY <1>3, <2>1, <2>4 DEF next
  <2> QED BY <1>4, <2>3, <2>4
<1>7. Paged(c)!Shaped'
  <2> HIDE DEF rows, got, total
  <2>1. y4'.degraded \in BOOLEAN /\ y4'.steady \in BOOLEAN /\ y4'.told \in BOOLEAN
    BY <1>1, <1>4, <1>5 DEF Paged!Shaped
  <2>2. y3'.part \in 0..3
    BY <1>1, <1>4, <1>6 DEF Paged!Shaped
  <2>3. y3' = [part |-> y3'.part, page |-> y3'.page, total |-> y3'.total, got |-> y3'.got]
    BY <1>4, <1>6
  <2> QED BY <1>1, <1>3, <1>5, <2>1, <2>2, <2>3 DEF Paged!Shaped
<1>8. ASSUME y4.steady, y4'.told, ~y4'.degraded
      PROVE  /\ y3'.part = 1 =>
                  /\ y3'.page \in Nat /\ y3'.got = y3'.page * c.page
                  /\ y3'.total = IF y3'.page > 0 THEN Len(y2) ELSE 0
                  /\ \A i \in 1..Len(y2) : i <= y3'.got => y2[i] \in y4'.jobs
             /\ y3'.part \in {2, 3} => Paged(c)!OnBoard \subseteq y4'.jobs
  <2>1. ~y4.degraded /\ ~cut /\ y4.told /\ tell
    BY <1>1, <1>4, <1>5, <1>8 DEF Paged!Shaped
  <2>2. CASE y3.part = 2
    BY <1>1, <1>4, <1>5, <1>6, <1>8, <2>1, <2>2 DEF Paged!ReadSoFar
  <2>3. CASE y3.part = 1
    <3> DEFINE start == y3.page * c.page
    <3>1. /\ y3.page \in Nat /\ y3.got = start /\ total = Len(y2)
          /\ \A i \in 1..Len(y2) : i <= start => y2[i] \in y4.jobs
      <4>1. /\ y3.page \in Nat /\ y3.got = start
            /\ y3.total = IF y3.page > 0 THEN Len(y2) ELSE 0
            /\ \A i \in 1..Len(y2) : i <= start => y2[i] \in y4.jobs
        BY <1>1, <1>8, <2>1, <2>3 DEF Paged!ReadSoFar
      <4>2. Paged(c)!Searched(y3.part) = y2
        BY <2>3 DEF Paged!Searched
      <4>3. CASE y3.page = 0
        BY <2>1, <4>1, <4>2, <4>3 DEF tell, Paged!Total
      <4>4. CASE y3.page > 0
        BY <4>1, <4>2, <4>4 DEF Paged!Total
      <4> QED BY <4>1, <4>3, <4>4
    <3>2. /\ Len(rows) \in Nat /\ Len(rows) <= c.page /\ start \in Nat
          /\ \A i \in 1..Len(y2) : i > start /\ i <= start + c.page =>
                y2[i] \in Paged(c)!Range(rows) /\ i - start <= Len(rows)
      BY <1>1, <2>3, <3>1, PageHas
    <3>3. Len(y2) \in Nat /\ c.page \in Nat /\ c.cap \in Nat
      BY <1>1, OnBoardIs DEF Paged!OffsetAssumption
    <3>4. \A i \in 1..Len(y2) : i <= start + c.page => y2[i] \in y4'.jobs
      <4> HIDE DEF start, rows
      <4>1. SUFFICES ASSUME NEW i \in 1..Len(y2), i <= start + c.page PROVE y2[i] \in y4'.jobs
        OBVIOUS
      <4>2. CASE i <= start
        BY <1>5, <3>1, <4>2
      <4>3. CASE i > start
        <5>1. y2[i] \in Paged(c)!Range(rows)
          BY <3>2, <4>1, <4>3
        <5> QED BY <1>5, <5>1
      <4> QED BY <3>2, <3>3, <4>2, <4>3
    <3>5. CASE ~over
      <4>1. Len(rows) = c.page
        BY <3>2, <3>3, <3>5 DEF over, Paged!IsLast
      <4>2. (y3.page + 1) * c.page = start + c.page
        BY <3>1, <3>3
      <4> HIDE DEF start, rows
      <4> QED BY <1>2, <1>6, <2>3, <3>1, <3>2, <3>3, <3>4, <3>5, <4>1, <4>2 DEF start
    <3>6. CASE over
      <4>1. Len(rows) < c.page \/ got >= total
        BY <2>1, <3>1, <3>2, <3>3, <3>6
        DEF cut, over, Paged!Truncated, Paged!IsLast, Paged!EndsOnZero
      <4>2. \A i \in 1..Len(y2) : i <= start + c.page
        <5>1. SUFFICES ASSUME NEW i \in 1..Len(y2), i > start + c.page PROVE FALSE
          BY <3>2, <3>3
        <5>2. start + c.page \in 1..Len(y2) /\ start + c.page > start
          BY <3>2, <3>3, <5>1 DEF Paged!OffsetAssumption
        <5>3. c.page <= Len(rows)
          BY <3>2, <3>3, <5>2
        <5> QED BY <3>1, <3>2, <3>3, <4>1, <5>1, <5>3
      <4>3. Paged(c)!OnBoard \subseteq y4'.jobs
        BY <1>1, <3>4, <4>2, OnBoardIs
      <4> QED BY <1>6, <3>6, <4>3
    <3> QED BY <3>5, <3>6
  <2> QED BY <1>2, <2>2, <2>3
<1>9. Paged(c)!OnBoard' = Paged(c)!OnBoard
  BY <1>3 DEF Paged!OnBoard
<1>10. Paged(c)!ReadSoFar'
  <2> HIDE DEF rows, got, total
  <2> QED BY <1>3, <1>5, <1>8, <1>9 DEF Paged!ReadSoFar
<1> QED BY <1>7, <1>10 DEF Paged!OffsetInv

(* One job is a sequence of jobs. *)
LEMMA OneIsSeq ==
    ASSUME NEW S, NEW e \in S
    PROVE  <<e>> \in Seq(S)
OBVIOUS

(* A job opens or closes: nothing is claimed of the answer any more. *)
LEMMA BoardChanges ==
    ASSUME NEW CONSTANT c, Paged(c)!OffsetInv, NEW j \in c.jobs, Paged(c)!Change(j)
    PROVE  Paged(c)!OffsetInv'
<1>1. Paged(c)!Shaped /\ y2 \in Seq(c.jobs)
  BY DEF Paged!OffsetInv, Paged!Shaped
<1>2. y4' = [y4 EXCEPT !.steady = FALSE] /\ UNCHANGED <<y1, y3>>
  BY DEF Paged!Change
<1>3. /\ y4'.jobs = y4.jobs /\ y4'.degraded = y4.degraded /\ ~y4'.steady
      /\ y4'.steady \in BOOLEAN /\ y4'.told = y4.told
      /\ y4' = [jobs |-> y4'.jobs, degraded |-> y4'.degraded, steady |-> y4'.steady, told |-> y4'.told]
  <2>1. PICK jobs, degraded, steady, told :
          y4 = [jobs |-> jobs, degraded |-> degraded, steady |-> steady, told |-> told]
    BY <1>1 DEF Paged!Shaped
  <2> QED BY <1>2, <2>1
<1>4. y2' \in Seq(c.jobs)
  <2>1. CASE y2' = <<j>> \o y2
    <3>1. <<j>> \in Seq(c.jobs)
      BY OneIsSeq
    <3> QED BY <1>1, <2>1, <3>1, ConcatProperties
  <2>2. ASSUME NEW i \in 1..Len(y2), y2' = SubSeq(y2, 1, i - 1) \o SubSeq(y2, i + 1, Len(y2)) PROVE y2' \in Seq(c.jobs)
    <3>1. SubSeq(y2, 1, i - 1) \in Seq(c.jobs)
      <4>1. 1 \in Int /\ i - 1 \in Int /\ \A k \in 1..(i - 1) : y2[k] \in c.jobs
        BY <1>1
      <4> QED BY <4>1, SubSeqProperties
    <3>2. SubSeq(y2, i + 1, Len(y2)) \in Seq(c.jobs)
      <4>1. i + 1 \in Int /\ Len(y2) \in Int /\ \A k \in (i + 1)..Len(y2) : y2[k] \in c.jobs
        BY <1>1
      <4> QED BY <4>1, SubSeqProperties
    <3> QED BY <2>2, <3>1, <3>2, ConcatProperties
  <2> QED BY <2>1, <2>2 DEF Paged!Change
<1>5. Paged(c)!Shaped'
  BY <1>1, <1>2, <1>3, <1>4 DEF Paged!Shaped
<1> QED BY <1>3, <1>5 DEF Paged!OffsetInv, Paged!ReadSoFar

(* A scan begins, is kept or fails. *)
LEMMA ScanGoesOn ==
    ASSUME NEW CONSTANT c, Paged(c)!OffsetAssumption, Paged(c)!OffsetInv,
           Paged(c)!Start \/ Paged(c)!Keep \/ Paged(c)!PageFails
    PROVE  Paged(c)!OffsetInv'
<1>1. Paged(c)!Shaped /\ Paged(c)!ReadSoFar /\ c.page \in Nat
  BY DEF Paged!OffsetInv, Paged!OffsetAssumption
<1>2. y1' = y1 /\ y2' = y2
  BY DEF Paged!Start, Paged!Keep, Paged!PageFails
<1>3. CASE \/ Paged(c)!Start \/ Paged(c)!Keep
           \/ y3' = Paged(c)!NoScan /\ UNCHANGED y4
  <2>1. /\ y3' = [part |-> y3'.part, page |-> 0, total |-> 0, got |-> 0] /\ y3'.part \in {0, 1}
        /\ y3'.page = 0 /\ y3'.got = 0 /\ y3'.total = 0
    BY <1>3 DEF Paged!Start, Paged!Keep, Paged!NoScan
  <2>2. y4' = y4 \/ y4' = [jobs |-> {}, degraded |-> FALSE, steady |-> TRUE, told |-> TRUE]
    BY <1>3 DEF Paged!Start, Paged!Keep, Paged!NoAnswer
  <2>3. Paged(c)!Shaped'
    <3>1. /\ y4' = [jobs |-> y4'.jobs, degraded |-> y4'.degraded, steady |-> y4'.steady, told |-> y4'.told]
          /\ y4'.degraded \in BOOLEAN /\ y4'.steady \in BOOLEAN /\ y4'.told \in BOOLEAN
      <4>1. CASE y4' = y4
        BY <1>1, <4>1 DEF Paged!Shaped
      <4>2. CASE y4' = [jobs |-> {}, degraded |-> FALSE, steady |-> TRUE, told |-> TRUE]
        BY <4>2
      <4> QED BY <2>2, <4>1, <4>2
    <3>2. y3' = [part |-> y3'.part, page |-> y3'.page, total |-> y3'.total, got |-> y3'.got]
      BY <2>1
    <3> QED BY <1>1, <1>2, <2>1, <3>1, <3>2 DEF Paged!Shaped
  <2>4. Paged(c)!ReadSoFar'
    BY <1>1, <1>2, <2>1, OnBoardIs DEF Paged!ReadSoFar
  <2> QED BY <2>3, <2>4 DEF Paged!OffsetInv
<1>4. CASE y4' = [y4 EXCEPT !.degraded = TRUE] /\ Paged(c)!Ends(3) /\ y3.part \in 1..Paged(c)!Parts
  <2>1. /\ y4'.jobs = y4.jobs /\ y4'.degraded /\ y4'.degraded \in BOOLEAN /\ y4'.steady = y4.steady
        /\ y4'.told = y4.told
        /\ y4' = [jobs |-> y4'.jobs, degraded |-> y4'.degraded, steady |-> y4'.steady, told |-> y4'.told]
    <3>1. PICK jobs, degraded, steady, told :
            y4 = [jobs |-> jobs, degraded |-> degraded, steady |-> steady, told |-> told]
      BY <1>1 DEF Paged!Shaped
    <3> QED BY <1>4, <3>1
  <2>2. y3' = [part |-> y3'.part, page |-> 0, total |-> 0, got |-> 0] /\ y3'.part \in 0..3
    BY <1>1, <1>4 DEF Paged!Ends, Paged!NoScan, Paged!Parts, Paged!Shaped
  <2>3. Paged(c)!Shaped'
    BY <1>1, <1>2, <2>1, <2>2 DEF Paged!Shaped
  <2> QED BY <2>1, <2>3 DEF Paged!OffsetInv, Paged!ReadSoFar
<1> QED BY <1>3, <1>4 DEF Paged!PageFails

LEMMA PagedStart ==
    ASSUME NEW CONSTANT c, Paged(c)!OffsetAssumption, Paged(c)!Init
    PROVE  Paged(c)!OffsetInv
<1>1. PICK n \in c.jobs : y2 = [i \in 1..n |-> n + 1 - i]
  BY DEF Paged!Init
<1>2. PICK m \in Nat : c.jobs = 1..m
  BY DEF Paged!OffsetAssumption
<1>3. y2 \in Seq(c.jobs)
  <2>1. n \in Nat /\ \A i \in 1..n : n + 1 - i \in 1..m
    BY <1>1, <1>2
  <2> QED BY <1>1, <1>2, <2>1
<1> QED BY <1>3 DEF Paged!Init, Paged!OffsetInv, Paged!Shaped, Paged!ReadSoFar, Paged!NoScan, Paged!NoAnswer

LEMMA PagedSame ==
    ASSUME NEW CONSTANT c, Paged(c)!OffsetInv, UNCHANGED Paged(c)!vars
    PROVE  Paged(c)!OffsetInv'
BY DEF Paged!vars, Paged!OffsetInv, Paged!Shaped, Paged!ReadSoFar, Paged!OnBoard

LEMMA PagedStep ==
    ASSUME NEW CONSTANT c, Paged(c)!OffsetAssumption, Paged(c)!OffsetInv, Paged(c)!Next
    PROVE  Paged(c)!OffsetInv'
BY PageIsRead, BoardChanges, ScanGoesOn DEF Paged!Next

LEMMA OffsetInvSuffices ==
    ASSUME NEW CONSTANT c, Paged(c)!OffsetInv
    PROVE  Paged(c)!WholeIfSteady
BY DEF Paged!OffsetInv, Paged!ReadSoFar, Paged!WholeIfSteady, Paged!PassesForWhole

(* WholeIfSteady, for any jobs, categories, page size and cap: what passes for a *)
(* whole answer of a board that did not change is one.                           *)
THEOREM AlwaysWholeIfSteady ==
    ASSUME NEW CONSTANT c, Paged(c)!OffsetAssumption
    PROVE  Paged(c)!Spec => []Paged(c)!WholeIfSteady
<1>1. Paged(c)!Init => Paged(c)!OffsetInv
  BY PagedStart
<1>2. Paged(c)!OffsetInv /\ [Paged(c)!Next]_(Paged(c)!vars) => Paged(c)!OffsetInv'
  BY PagedStep, PagedSame
<1>3. Paged(c)!OffsetInv => Paged(c)!WholeIfSteady
  BY OffsetInvSuffices
<1> QED BY <1>1, <1>2, <1>3, PTL DEF Paged!Spec

-----------------------------------------------------------------------------
(* CatalogScan *)

(* What is past stays so. *)
LEMMA PastStays ==
    ASSUME NEW CONSTANT c, NEW e, NEW f, e.past \subseteq f.past
    PROVE  /\ \A s, n : Muse(c)!Past(e, s, n) => Muse(c)!Past(f, s, n)
           /\ \A co, k, ls : Muse(c)!LevelsPast(e, co, k, ls) => Muse(c)!LevelsPast(f, co, k, ls)
           /\ \A co, k : Muse(c)!CategoryPast(e, co, k) => Muse(c)!CategoryPast(f, co, k)
           /\ \A co : Muse(c)!CompanyPast(e, co) => Muse(c)!CompanyPast(f, co)
<1>1. \A s, n : Muse(c)!Past(e, s, n) => Muse(c)!Past(f, s, n)
  BY DEF Muse!Past
<1>2. \A co, k, ls : Muse(c)!LevelsPast(e, co, k, ls) => Muse(c)!LevelsPast(f, co, k, ls)
  BY <1>1 DEF Muse!LevelsPast
<1>3. \A co, k : Muse(c)!CategoryPast(e, co, k) => Muse(c)!CategoryPast(f, co, k)
  BY <1>1, <1>2 DEF Muse!CategoryPast
<1> QED BY <1>1, <1>2, <1>3 DEF Muse!CompanyPast

(* The cursor before and after a step of it. *)
LEMMA CursorHas ==
    ASSUME NEW CONSTANT c, NEW e, Muse(c)!IsCursor(e)
    PROVE  /\ DOMAIN e = {"page", "index", "company", "category", "level", "at", "complete", "past"}
           /\ e.page \in Nat /\ e.index \in Nat /\ e.company \in c.companies \cup {0}
           /\ e.category \in Nat /\ e.category >= 1 /\ e.level \in c.levels \cup {0}
           /\ e.at \in Nat /\ e.at >= 1 /\ e.complete \in BOOLEAN
BY DEF Muse!IsCursor

(* The places of the directory, in order. *)
LEMMA PlacesInOrder ==
    ASSUME NEW CONSTANT c, Muse(c)!CatalogAssumption, NEW page \in Nat, NEW i \in Nat
    PROVE  /\ Muse(c)!Nth(page, i) \in Nat /\ Muse(c)!Nth(page, i) >= 1
           /\ Muse(c)!Nth(page, i + 1) = Muse(c)!Nth(page, i) + 1
           /\ ~Muse(c)!Listed(page, i) =>
                 \A co \in c.companies : co < Muse(c)!Nth(page + 1, 0) => co < Muse(c)!Nth(page, i)
           /\ ~Muse(c)!Listed(page, i) /\ Muse(c)!IsLastPage(page) =>
                 \A co \in c.companies : co < Muse(c)!Nth(page, i)
<1>1. PICK n \in Nat \ {0} : c.companies = 1..n
  BY DEF Muse!CatalogAssumption
<1>2. c.perPage \in Nat /\ c.perPage > 0
  BY DEF Muse!CatalogAssumption
<1>3. PICK start \in Nat : start = page * c.perPage
  BY <1>2
<1>4. (page + 1) * c.perPage = start + c.perPage
  BY <1>2, <1>3
<1>5. /\ Muse(c)!Nth(page, i) = start + i + 1 /\ Muse(c)!Nth(page, i + 1) = start + (i + 1) + 1
      /\ Muse(c)!Nth(page + 1, 0) = start + c.perPage + 0 + 1
  BY <1>3, <1>4 DEF Muse!Nth
<1>6. ASSUME ~Muse(c)!Listed(page, i), NEW co \in c.companies,
             co < Muse(c)!Nth(page + 1, 0) \/ Muse(c)!IsLastPage(page)
      PROVE  co < Muse(c)!Nth(page, i)
  <2>1. i >= c.perPage \/ ~(start + i + 1 \in 1..n)
    BY <1>1, <1>2, <1>5, <1>6 DEF Muse!Listed
  <2>2. co < start + c.perPage + 1
    <3>1. CASE Muse(c)!IsLastPage(page)
      BY SMTT(60), <1>1, <1>2, <1>5, <3>1 DEF Muse!IsLastPage, Muse!Listed
    <3> QED BY <1>1, <1>2, <1>5, <1>6, <3>1
  <2> QED BY <1>1, <1>2, <1>5, <2>1, <2>2
<1> QED BY <1>5, <1>6

(* The cursor takes the company of its place in the directory. *)
LEMMA CompanyIsTaken ==
    ASSUME NEW CONSTANT c, Muse(c)!CatalogAssumption, NEW e, Muse(c)!IsCursor(e),
           Muse(c)!Behind(e), e.company = 0, Muse(c)!Listed(e.page, e.index), NEW f,
           f = [e EXCEPT !.company = Muse(c)!Nth(e.page, e.index), !.category = 1,
                          !.level = 0, !.at = 1]
    PROVE  Muse(c)!IsCursor(f) /\ Muse(c)!Behind(f) /\ f.past = e.past
<1>1. /\ \A co \in c.companies : co < Muse(c)!Nth(e.page, e.index) => Muse(c)!CompanyPast(e, co)
      /\ e.complete => \A co \in c.companies : Muse(c)!CompanyPast(e, co)
  BY DEF Muse!Behind
<1>2. /\ f.page = e.page /\ f.index = e.index /\ f.complete = e.complete /\ f.past = e.past
      /\ f.company = Muse(c)!Nth(e.page, e.index) /\ f.category = 1 /\ f.level = 0 /\ f.at = 1
      /\ DOMAIN f = DOMAIN e
  BY CursorHas
<1>2a. Muse(c)!Nth(e.page, e.index) \in c.companies
  BY DEF Muse!Listed
<1>3. Muse(c)!IsCursor(f)
  BY <1>2a, <1>2 DEF Muse!IsCursor
<1>4. \A co \in c.companies : Muse(c)!CompanyPast(e, co) => Muse(c)!CompanyPast(f, co)
  <2>1. e.past \subseteq f.past
    BY <1>2
  <2> QED BY <2>1, PastStays
<1>5. \A k \in c.categories : ~(k < 1)
  BY DEF Muse!CatalogAssumption
<1>6. Muse(c)!Past(f, <<f.company, f.category, f.level>>, 1 - 1)
  BY DEF Muse!Past
<1> QED BY <1>1, <1>2, <1>3, <1>4, <1>5, <1>6 DEF Muse!Behind

(* The directory is at its end, and so is the catalog. *)
LEMMA DirectoryEnds ==
    ASSUME NEW CONSTANT c, Muse(c)!CatalogAssumption, NEW e, Muse(c)!IsCursor(e),
           Muse(c)!Behind(e), e.company = 0, ~Muse(c)!Listed(e.page, e.index),
           Muse(c)!IsLastPage(e.page), NEW f,
           f = [e EXCEPT !.complete = TRUE]
    PROVE  Muse(c)!IsCursor(f) /\ Muse(c)!Behind(f) /\ f.past = e.past
<1>1. /\ \A co \in c.companies : co < Muse(c)!Nth(e.page, e.index) => Muse(c)!CompanyPast(e, co)
      /\ e.complete => \A co \in c.companies : Muse(c)!CompanyPast(e, co)
  BY DEF Muse!Behind
<1>2. /\ f.page = e.page /\ f.index = e.index /\ f.complete = TRUE /\ f.past = e.past
      /\ f.company = 0 /\ f.category = e.category /\ f.level = e.level /\ f.at = e.at
      /\ DOMAIN f = DOMAIN e
  BY CursorHas
<1>3. Muse(c)!IsCursor(f)
  BY <1>2 DEF Muse!IsCursor
<1>4. \A co \in c.companies : Muse(c)!CompanyPast(e, co) => Muse(c)!CompanyPast(f, co)
  <2>1. e.past \subseteq f.past
    BY <1>2
  <2> QED BY <2>1, PastStays
<1>5. \A co \in c.companies : Muse(c)!CompanyPast(e, co)
  BY <1>1, CursorHas, PlacesInOrder
<1> QED BY <1>2, <1>3, <1>4, <1>5 DEF Muse!Behind

(* The cursor goes on to the next page of the directory. *)
LEMMA DirectoryGoesOn ==
    ASSUME NEW CONSTANT c, Muse(c)!CatalogAssumption, NEW e, Muse(c)!IsCursor(e),
           Muse(c)!Behind(e), e.company = 0, ~Muse(c)!Listed(e.page, e.index), NEW f,
           f = [e EXCEPT !.page = @ + 1, !.index = 0]
    PROVE  Muse(c)!IsCursor(f) /\ Muse(c)!Behind(f) /\ f.past = e.past
<1>1. /\ \A co \in c.companies : co < Muse(c)!Nth(e.page, e.index) => Muse(c)!CompanyPast(e, co)
      /\ e.complete => \A co \in c.companies : Muse(c)!CompanyPast(e, co)
  BY DEF Muse!Behind
<1>2. /\ f.page = e.page + 1 /\ f.index = 0 /\ f.complete = e.complete /\ f.past = e.past
      /\ f.company = 0 /\ f.category = e.category /\ f.level = e.level /\ f.at = e.at
      /\ DOMAIN f = DOMAIN e
  BY CursorHas
<1>3. Muse(c)!IsCursor(f)
  BY <1>2 DEF Muse!IsCursor
<1>4. \A co \in c.companies : Muse(c)!CompanyPast(e, co) => Muse(c)!CompanyPast(f, co)
  <2>1. e.past \subseteq f.past
    BY <1>2
  <2> QED BY <2>1, PastStays
<1>5. \A co \in c.companies : co < Muse(c)!Nth(f.page, f.index) => Muse(c)!CompanyPast(e, co)
  BY <1>1, <1>2, CursorHas, PlacesInOrder
<1> QED BY <1>1, <1>2, <1>3, <1>4, <1>5 DEF Muse!Behind

(* The categories of a company are read: the cursor is before the next. *)
LEMMA CompanyIsRead ==
    ASSUME NEW CONSTANT c, Muse(c)!CatalogAssumption, NEW e, Muse(c)!IsCursor(e),
           Muse(c)!Behind(e), e.company # 0, e.category \notin c.categories, NEW f,
           f = [e EXCEPT !.index = @ + 1, !.company = 0, !.category = 1, !.level = 0, !.at = 1]
    PROVE  Muse(c)!IsCursor(f) /\ Muse(c)!Behind(f) /\ f.past = e.past
<1>1. /\ \A co \in c.companies : co < Muse(c)!Nth(e.page, e.index) => Muse(c)!CompanyPast(e, co)
      /\ e.complete => \A co \in c.companies : Muse(c)!CompanyPast(e, co)
      /\ e.company = Muse(c)!Nth(e.page, e.index)
      /\ \A k \in c.categories : k < e.category => Muse(c)!CategoryPast(e, e.company, k)
  BY DEF Muse!Behind
<1>2. /\ e.page \in Nat /\ e.index \in Nat /\ e.category \in Nat /\ e.category >= 1
      /\ e.company \in c.companies
  BY CursorHas
<1>3. /\ f.page = e.page /\ f.index = e.index + 1 /\ f.complete = e.complete /\ f.past = e.past
      /\ f.company = 0
  BY CursorHas
<1>4. Muse(c)!IsCursor(f)
  BY DEF Muse!IsCursor
<1>5. \A co \in c.companies : Muse(c)!CompanyPast(e, co) => Muse(c)!CompanyPast(f, co)
  <2>1. e.past \subseteq f.past
    BY <1>3
  <2> QED BY <2>1, PastStays
<1>6. Muse(c)!CompanyPast(e, e.company)
  <2>1. PICK n \in Nat : c.categories = 1..n
    BY DEF Muse!CatalogAssumption
  <2>2. \A k \in c.categories : k < e.category
    BY <1>2, <2>1
  <2> QED BY <1>1, <2>2 DEF Muse!CompanyPast
<1>7. \A co \in c.companies : co < Muse(c)!Nth(f.page, f.index) => Muse(c)!CompanyPast(e, co)
  <2>1. PICK n \in Nat : c.companies = 1..n
    BY DEF Muse!CatalogAssumption
  <2>2. /\ Muse(c)!Nth(e.page, e.index) \in Nat
        /\ Muse(c)!Nth(f.page, f.index) = Muse(c)!Nth(e.page, e.index) + 1
    BY <1>2, <1>3, PlacesInOrder
  <2>3. ASSUME NEW co \in c.companies, co < Muse(c)!Nth(f.page, f.index)
        PROVE  Muse(c)!CompanyPast(e, co)
    <3>1. co < Muse(c)!Nth(e.page, e.index) \/ co = Muse(c)!Nth(e.page, e.index)
      BY <2>1, <2>2, <2>3
    <3> QED BY <1>1, <1>6, <3>1
  <2> QED BY <2>3
<1> QED BY <1>1, <1>3, <1>4, <1>5, <1>7 DEF Muse!Behind

(* How many pages the provider answers of a search. *)
LEMMA PagesAnswered ==
    ASSUME NEW CONSTANT c, Muse(c)!CatalogAssumption, Muse(c)!Typed,
           NEW co \in c.companies, NEW k \in c.categories, NEW l \in c.levels \cup {0}
    PROVE  LET s == <<co, k, l>>
           IN /\ s \in Muse(c)!Searches /\ Muse(c)!Answered(s) \in Nat
              /\ l = 0 => Muse(c)!Reported(s) = Muse(c)!PagesOf(co, k)
              /\ Muse(c)!Reported(s) <= c.limit => Muse(c)!Answered(s) = Muse(c)!Reported(s)
              /\ Muse(c)!PagesOf(co, k) \in Nat /\ c.limit \in Nat
<1>1. c.limit \in Nat
  BY DEF Muse!CatalogAssumption
<1>2. Muse(c)!PagesOf(co, k) \in Nat
  <2>1. <<co, k>> \in c.companies \X c.categories /\ y1 \in [c.companies \X c.categories -> {1, c.limit, c.limit + 1}]
    BY DEF Muse!Typed
  <2>2. Muse(c)!PagesOf(co, k) \in {1, c.limit, c.limit + 1}
    BY <2>1 DEF Muse!PagesOf
  <2> QED BY <1>1, <2>2
<1>3. <<co, k, l>>[1] = co /\ <<co, k, l>>[2] = k /\ <<co, k, l>>[3] = l
  OBVIOUS
<1>4. /\ Muse(c)!Reported(<<co, k, l>>) = IF l = 0 \/ l = 1 THEN Muse(c)!PagesOf(co, k) ELSE 1
      /\ Muse(c)!Reported(<<co, k, l>>) \in Nat
  BY <1>2, <1>3 DEF Muse!Reported
<1>5. /\ Muse(c)!Answered(<<co, k, l>>) \in Nat
      /\ Muse(c)!Reported(<<co, k, l>>) <= c.limit =>
            Muse(c)!Answered(<<co, k, l>>) = Muse(c)!Reported(<<co, k, l>>)
  BY <1>1, <1>4 DEF Muse!Answered
<1>6. <<co, k, l>> \in Muse(c)!Searches
  BY DEF Muse!Searches
<1> QED BY <1>1, <1>2, <1>4, <1>5, <1>6

(* A category with more pages than are answered is read by levels. *)
LEMMA CategorySplits ==
    ASSUME NEW CONSTANT c, Muse(c)!CatalogAssumption, NEW e, Muse(c)!IsCursor(e),
           Muse(c)!Behind(e), e.company # 0, Muse(c)!PagesOf(e.company, e.category) > c.limit, NEW f,
           f = [e EXCEPT !.level = 1, !.at = 1]
    PROVE  Muse(c)!IsCursor(f) /\ Muse(c)!Behind(f) /\ f.past = e.past
<1>1. /\ f.page = e.page /\ f.index = e.index /\ f.complete = e.complete /\ f.past = e.past
      /\ f.company = e.company /\ f.category = e.category /\ f.level = 1 /\ f.at = 1
      /\ DOMAIN f = DOMAIN e
  BY CursorHas
<1>2. Muse(c)!IsCursor(f)
  <2>1. 1 \in c.levels
    <3>1. PICK n \in Nat \ {0} : c.levels = 1..n
      BY DEF Muse!CatalogAssumption
    <3> QED BY <3>1
  <2> QED BY <1>1, <2>1 DEF Muse!IsCursor
<1>3. /\ \A co \in c.companies : Muse(c)!CompanyPast(e, co) => Muse(c)!CompanyPast(f, co)
      /\ \A co, k : Muse(c)!CategoryPast(e, co, k) => Muse(c)!CategoryPast(f, co, k)
  <2>1. e.past \subseteq f.past
    BY <1>1
  <2> QED BY <2>1, PastStays
<1>4. /\ Muse(c)!Past(f, <<f.company, f.category, f.level>>, 1 - 1)
      /\ Muse(c)!LevelsPast(f, f.company, f.category, 1..(1 - 1))
  <2>1. 1..(1 - 1) = {}
    OBVIOUS
  <2> QED BY <2>1 DEF Muse!Past, Muse!LevelsPast
<1> QED BY <1>1, <1>2, <1>3, <1>4 DEF Muse!Behind

(* A page of a search is read that is not its last. *)
LEMMA PageIsPast ==
    ASSUME NEW CONSTANT c, Muse(c)!CatalogAssumption, NEW e, Muse(c)!IsCursor(e),
           e.company # 0, e.category \in c.categories, NEW s,
           s = <<e.company, e.category, e.level>>, NEW f,
           f = [e EXCEPT !.past = @ \cup {<<s, e.at>>}]
    PROVE  /\ Muse(c)!IsCursor(f) /\ e.past \subseteq f.past
           /\ f.page = e.page /\ f.index = e.index /\ f.complete = e.complete
           /\ f.company = e.company /\ f.category = e.category /\ f.level = e.level /\ f.at = e.at
           /\ f.past = e.past \cup {<<s, e.at>>}
           /\ Muse(c)!Past(e, s, e.at - 1) => Muse(c)!Past(f, s, e.at)
           /\ Muse(c)!Behind(e) => Muse(c)!Behind(f)
<1>1. /\ f.page = e.page /\ f.index = e.index /\ f.complete = e.complete
      /\ f.company = e.company /\ f.category = e.category /\ f.level = e.level /\ f.at = e.at
      /\ f.past = e.past \cup {<<s, e.at>>} /\ DOMAIN f = DOMAIN e
  BY CursorHas
<1>2. s \in Muse(c)!Searches /\ e.at \in Nat /\ e.at >= 1
  BY CursorHas DEF Muse!Searches
<1>3. Muse(c)!IsCursor(f)
  <2>1. f.past \subseteq Muse(c)!Searches \X Nat
    BY <1>1, <1>2 DEF Muse!IsCursor
  <2> QED BY <1>1, <2>1 DEF Muse!IsCursor
<1>4. Muse(c)!Past(e, s, e.at - 1) => Muse(c)!Past(f, s, e.at)
  BY <1>1, <1>2 DEF Muse!Past
<1>5. /\ \A co : Muse(c)!CompanyPast(e, co) => Muse(c)!CompanyPast(f, co)
      /\ \A co, k : Muse(c)!CategoryPast(e, co, k) => Muse(c)!CategoryPast(f, co, k)
      /\ \A co, k, ls : Muse(c)!LevelsPast(e, co, k, ls) => Muse(c)!LevelsPast(f, co, k, ls)
      /\ \A r, n : Muse(c)!Past(e, r, n) => Muse(c)!Past(f, r, n)
  <2>1. e.past \subseteq f.past
    BY <1>1
  <2> QED BY ZenonT(60), <2>1, PastStays
<1>6. Muse(c)!Behind(e) => Muse(c)!Behind(f)
  BY <1>1, <1>5 DEF Muse!Behind
<1> QED BY <1>1, <1>3, <1>4, <1>6
(* The cursor goes on to the next page of a search. *)
LEMMA NextPageOfSearch ==
    ASSUME NEW CONSTANT c, NEW e, Muse(c)!IsCursor(e), Muse(c)!Behind(e),
           Muse(c)!Past(e, <<e.company, e.category, e.level>>, e.at), NEW f,
           f = [e EXCEPT !.at = @ + 1]
    PROVE  Muse(c)!IsCursor(f) /\ Muse(c)!Behind(f) /\ f.past = e.past
<1>1. /\ f.page = e.page /\ f.index = e.index /\ f.complete = e.complete /\ f.past = e.past
      /\ f.company = e.company /\ f.category = e.category /\ f.level = e.level /\ f.at = e.at + 1
      /\ DOMAIN f = DOMAIN e
  BY CursorHas
<1>2. Muse(c)!IsCursor(f)
  BY <1>1 DEF Muse!IsCursor
<1>3. /\ \A co : Muse(c)!CompanyPast(e, co) => Muse(c)!CompanyPast(f, co)
      /\ \A co, k : Muse(c)!CategoryPast(e, co, k) => Muse(c)!CategoryPast(f, co, k)
      /\ \A co, k, ls : Muse(c)!LevelsPast(e, co, k, ls) => Muse(c)!LevelsPast(f, co, k, ls)
      /\ \A r, n : Muse(c)!Past(e, r, n) => Muse(c)!Past(f, r, n)
  <2>1. e.past \subseteq f.past
    BY <1>1
  <2> QED BY <2>1, PastStays
<1>4. f.at - 1 = e.at
  BY <1>1, CursorHas
<1> QED BY <1>1, <1>2, <1>3, <1>4 DEF Muse!Behind

(* A level of a category is read: the next one. *)
LEMMA LevelIsRead ==
    ASSUME NEW CONSTANT c, Muse(c)!CatalogAssumption, NEW e, Muse(c)!IsCursor(e), Muse(c)!Behind(e),
           e.company # 0, e.category \in c.categories, e.level # 0, NEW s,
           s = <<e.company, e.category, e.level>>, Muse(c)!Past(e, s, Muse(c)!Answered(s)),
           e.level + 1 \in c.levels, NEW f, f = [e EXCEPT !.level = @ + 1, !.at = 1]
    PROVE  Muse(c)!IsCursor(f) /\ Muse(c)!Behind(f) /\ f.past = e.past
<1>1. /\ f.page = e.page /\ f.index = e.index /\ f.complete = e.complete /\ f.past = e.past
      /\ f.company = e.company /\ f.category = e.category /\ f.level = e.level + 1 /\ f.at = 1
      /\ DOMAIN f = DOMAIN e
  BY CursorHas
<1>2. Muse(c)!IsCursor(f)
  BY <1>1 DEF Muse!IsCursor
<1>3. /\ \A co : Muse(c)!CompanyPast(e, co) => Muse(c)!CompanyPast(f, co)
      /\ \A co, k : Muse(c)!CategoryPast(e, co, k) => Muse(c)!CategoryPast(f, co, k)
      /\ \A co, k, ls : Muse(c)!LevelsPast(e, co, k, ls) => Muse(c)!LevelsPast(f, co, k, ls)
      /\ \A r, n : Muse(c)!Past(e, r, n) => Muse(c)!Past(f, r, n)
  <2>1. e.past \subseteq f.past
    BY <1>1
  <2> QED BY ZenonT(60), <2>1, PastStays
<1>4. PICK n \in Nat : c.levels = 1..n
  BY DEF Muse!CatalogAssumption
<1>5. e.level \in 1..n
  BY <1>4, CursorHas
<1>6. /\ Muse(c)!LevelsPast(e, e.company, e.category, 1..(e.level - 1))
      /\ Muse(c)!PagesOf(e.company, e.category) > c.limit
  BY DEF Muse!Behind
<1>7. Muse(c)!LevelsPast(e, e.company, e.category, 1..(f.level - 1))
  <2>1. \A l \in 1..(f.level - 1) : l = e.level \/ l \in 1..(e.level - 1)
    BY <1>1, <1>5
  <2> QED BY <1>6, <2>1 DEF Muse!LevelsPast
<1>8. Muse(c)!Past(f, <<f.company, f.category, f.level>>, 1 - 1)
  BY DEF Muse!Past
<1> QED BY <1>1, <1>2, <1>3, <1>6, <1>7, <1>8 DEF Muse!Behind

(* A category is read: the next one. *)
LEMMA CategoryIsRead ==
    ASSUME NEW CONSTANT c, Muse(c)!CatalogAssumption, NEW e, Muse(c)!IsCursor(e), Muse(c)!Behind(e),
           e.company # 0, Muse(c)!CategoryPast(e, e.company, e.category), NEW f,
           f = [e EXCEPT !.category = @ + 1, !.level = 0, !.at = 1]
    PROVE  Muse(c)!IsCursor(f) /\ Muse(c)!Behind(f) /\ f.past = e.past
<1>1. /\ f.page = e.page /\ f.index = e.index /\ f.complete = e.complete /\ f.past = e.past
      /\ f.company = e.company /\ f.category = e.category + 1 /\ f.level = 0 /\ f.at = 1
      /\ DOMAIN f = DOMAIN e
  BY CursorHas
<1>2. Muse(c)!IsCursor(f)
  BY <1>1 DEF Muse!IsCursor
<1>3. /\ \A co : Muse(c)!CompanyPast(e, co) => Muse(c)!CompanyPast(f, co)
      /\ \A co, k : Muse(c)!CategoryPast(e, co, k) => Muse(c)!CategoryPast(f, co, k)
      /\ \A co, k, ls : Muse(c)!LevelsPast(e, co, k, ls) => Muse(c)!LevelsPast(f, co, k, ls)
      /\ \A r, n : Muse(c)!Past(e, r, n) => Muse(c)!Past(f, r, n)
  <2>1. e.past \subseteq f.past
    BY <1>1
  <2> QED BY ZenonT(60), <2>1, PastStays
<1>4. PICK n \in Nat : c.categories = 1..n
  BY DEF Muse!CatalogAssumption
<1>5. \A k \in c.categories : k < f.category => Muse(c)!CategoryPast(e, e.company, k)
  <2>1. \A k \in c.categories : k < f.category => k = e.category \/ k < e.category
    BY <1>1, <1>4, CursorHas
  <2>2. \A k \in c.categories : k < e.category => Muse(c)!CategoryPast(e, e.company, k)
    BY DEF Muse!Behind
  <2> QED BY <2>1, <2>2
<1>6. Muse(c)!Past(f, <<f.company, f.category, f.level>>, 1 - 1)
  BY DEF Muse!Past
<1> QED BY <1>1, <1>2, <1>3, <1>5, <1>6 DEF Muse!Behind

(* A search is read to its end, as far as the provider answers. *)
LEMMA SearchIsRead ==
    ASSUME NEW CONSTANT c, Muse(c)!CatalogAssumption, Muse(c)!Typed, NEW e, Muse(c)!IsCursor(e),
           Muse(c)!Behind(e), e.company # 0, e.category \in c.categories, NEW s,
           s = <<e.company, e.category, e.level>>, Muse(c)!Past(e, s, Muse(c)!Answered(s)),
           e.level = 0 => Muse(c)!Reported(s) <= c.limit, NEW f, f = Muse(c)!Partitioned(e)
    PROVE  Muse(c)!IsCursor(f) /\ Muse(c)!Behind(f) /\ f.past = e.past
<1>1. e.company \in c.companies /\ e.level \in c.levels \cup {0}
  BY CursorHas
<1>2. CASE e.level # 0 /\ e.level + 1 \in c.levels
  <2>1. f = [e EXCEPT !.level = @ + 1, !.at = 1]
    BY <1>2 DEF Muse!Partitioned
  <2> QED BY ZenonT(60), <1>2, <2>1, LevelIsRead
<1>3. CASE ~(e.level # 0 /\ e.level + 1 \in c.levels)
  <2>1. f = [e EXCEPT !.category = @ + 1, !.level = 0, !.at = 1]
    BY <1>3 DEF Muse!Partitioned
  <2>2. Muse(c)!CategoryPast(e, e.company, e.category)
    <3>1. CASE e.level = 0
      <4>1. /\ Muse(c)!Answered(s) = Muse(c)!PagesOf(e.company, e.category)
            /\ Muse(c)!PagesOf(e.company, e.category) <= c.limit
        BY <1>1, <3>1, PagesAnswered
      <4> QED BY <3>1, <4>1 DEF Muse!CategoryPast
    <3>2. CASE e.level # 0
      <4>1. PICK n \in Nat : c.levels = 1..n
        BY DEF Muse!CatalogAssumption
      <4>2. e.level = n
        BY <1>1, <1>3, <3>2, <4>1
      <4>3. /\ Muse(c)!LevelsPast(e, e.company, e.category, 1..(e.level - 1))
            /\ Muse(c)!PagesOf(e.company, e.category) > c.limit
        BY <3>2 DEF Muse!Behind
      <4>4. \A l \in c.levels : l = e.level \/ l \in 1..(e.level - 1)
        BY <4>1, <4>2
      <4>5. Muse(c)!LevelsPast(e, e.company, e.category, c.levels)
        BY <4>3, <4>4 DEF Muse!LevelsPast
      <4>6. ~(Muse(c)!PagesOf(e.company, e.category) <= c.limit)
        BY <1>1, <4>3, PagesAnswered
      <4> QED BY <4>5, <4>6 DEF Muse!CategoryPast
    <3> QED BY <3>1, <3>2
  <2> QED BY <2>1, <2>2, CategoryIsRead
<1> QED BY <1>2, <1>3
(* The invariant after a step, from what the cursors, the run and the corpus are then. *)
LEMMA CatalogInvNext ==
    ASSUME NEW CONSTANT c, Muse(c)!Typed, y1' = y1, NEW e, NEW f, y2' = e, y4' = f,
           Muse(c)!IsCursor(e), Muse(c)!IsCursor(f), Muse(c)!Behind(e),
           f # Muse(c)!NoCursor => Muse(c)!Behind(f),
           DOMAIN y3' = {"step", "requests", "directory", "read"},
           e.past \subseteq y5' \cup y3'.read, f.past \subseteq y5',
           y3'.step = "committed" => e.past \subseteq y5'
    PROVE  Muse(c)!CatalogInv'
<1>1. Muse(c)!Typed'
  <2>1. Muse(c)!IsCursor(y2)' /\ Muse(c)!IsCursor(y4)'
    BY DEF Muse!IsCursor, Muse!Searches
  <2> QED BY <2>1 DEF Muse!Typed
<1>2. Muse(c)!Accounted'
  BY DEF Muse!Accounted
<1>4. Muse(c)!Behind(y2)' <=> Muse(c)!Behind(e)
  <2>1. \A s : Muse(c)!Answered(s)' = Muse(c)!Answered(s)
    BY DEF Muse!Answered, Muse!Reported, Muse!PagesOf
  <2>2. \A co, k : Muse(c)!PagesOf(co, k)' = Muse(c)!PagesOf(co, k)
    BY DEF Muse!PagesOf
  <2>3. \A s, m : Muse(c)!Past(y2, s, m)' <=> Muse(c)!Past(e, s, m)
    BY DEF Muse!Past
  <2>4. \A co, k, ls : Muse(c)!LevelsPast(y2, co, k, ls)' <=> Muse(c)!LevelsPast(e, co, k, ls)
    BY <2>1, <2>3 DEF Muse!LevelsPast
  <2>5. \A co, k : Muse(c)!CategoryPast(y2, co, k)' <=> Muse(c)!CategoryPast(e, co, k)
    BY <2>2, <2>3, <2>4 DEF Muse!CategoryPast
  <2>6. \A co : Muse(c)!CompanyPast(y2, co)' <=> Muse(c)!CompanyPast(e, co)
    BY <2>5 DEF Muse!CompanyPast
  <2> QED BY <2>2, <2>3, <2>4, <2>5, <2>6 DEF Muse!Behind
<1>5. Muse(c)!Behind(y4)' <=> Muse(c)!Behind(f)
  <2>1. \A s : Muse(c)!Answered(s)' = Muse(c)!Answered(s)
    BY DEF Muse!Answered, Muse!Reported, Muse!PagesOf
  <2>2. \A co, k : Muse(c)!PagesOf(co, k)' = Muse(c)!PagesOf(co, k)
    BY DEF Muse!PagesOf
  <2>3. \A s, m : Muse(c)!Past(y4, s, m)' <=> Muse(c)!Past(f, s, m)
    BY DEF Muse!Past
  <2>4. \A co, k, ls : Muse(c)!LevelsPast(y4, co, k, ls)' <=> Muse(c)!LevelsPast(f, co, k, ls)
    BY <2>1, <2>3 DEF Muse!LevelsPast
  <2>5. \A co, k : Muse(c)!CategoryPast(y4, co, k)' <=> Muse(c)!CategoryPast(f, co, k)
    BY <2>2, <2>3, <2>4 DEF Muse!CategoryPast
  <2>6. \A co : Muse(c)!CompanyPast(y4, co)' <=> Muse(c)!CompanyPast(f, co)
    BY <2>5 DEF Muse!CompanyPast
  <2> QED BY <2>2, <2>3, <2>4, <2>5, <2>6 DEF Muse!Behind
<1>6. (y4 # Muse(c)!NoCursor)' <=> f # Muse(c)!NoCursor
  BY DEF Muse!NoCursor, Muse!Fresh
<1> QED BY <1>1, <1>2, <1>4, <1>5, <1>6 DEF Muse!CatalogInv

(* A cursor that has not begun. *)
LEMMA FreshIs ==
    ASSUME NEW CONSTANT c, Muse(c)!CatalogAssumption
    PROVE  /\ Muse(c)!IsCursor(Muse(c)!Fresh) /\ Muse(c)!Fresh.past = {}
           /\ Muse(c)!IsCursor(Muse(c)!NoCursor) /\ Muse(c)!NoCursor.past = {}
           /\ Muse(c)!Behind(Muse(c)!Fresh)
<1>1. Muse(c)!IsCursor(Muse(c)!Fresh) /\ Muse(c)!Fresh.past = {}
  BY DEF Muse!Fresh, Muse!IsCursor
<1>2. Muse(c)!IsCursor(Muse(c)!NoCursor) /\ Muse(c)!NoCursor.past = {}
  <2> DEFINE e == Muse(c)!Fresh
  <2>1. Muse(c)!NoCursor = [e EXCEPT !.page = 99] /\ Muse(c)!IsCursor(e) /\ e.past = {}
    BY <1>1 DEF Muse!NoCursor
  <2> HIDE DEF e
  <2> QED BY <2>1 DEF Muse!IsCursor
<1>3. Muse(c)!Behind(Muse(c)!Fresh)
  <2>1. PICK e : e = Muse(c)!Fresh
    OBVIOUS
  <2>2. e.page = 0 /\ e.index = 0 /\ e.company = 0 /\ e.complete = FALSE
    BY <2>1 DEF Muse!Fresh
  <2>3. \A co \in c.companies : ~(co < Muse(c)!Nth(0, 0))
    BY DEF Muse!CatalogAssumption, Muse!Nth
  <2> QED BY <2>1, <2>2, <2>3 DEF Muse!Behind
<1> QED BY <1>1, <1>2, <1>3

LEMMA MuseStart ==
    ASSUME NEW CONSTANT c, Muse(c)!CatalogAssumption, Muse(c)!Init
    PROVE  Muse(c)!CatalogInv
<1>1. Muse(c)!Typed
  BY FreshIs DEF Muse!Init, Muse!Typed, Muse!Idle
<1>2. Muse(c)!Accounted
  BY FreshIs DEF Muse!Init, Muse!Accounted, Muse!Idle
<1> QED BY <1>1, <1>2, FreshIs DEF Muse!Init, Muse!CatalogInv

LEMMA MuseSame ==
    ASSUME NEW CONSTANT c, Muse(c)!CatalogInv, UNCHANGED Muse(c)!vars
    PROVE  Muse(c)!CatalogInv'
<1>1. PICK e, f : e = y2 /\ f = y4
  OBVIOUS
<1>2. y1' = y1 /\ y2' = e /\ y4' = f /\ y3' = y3 /\ y5' = y5
  BY <1>1 DEF Muse!vars
<1> QED BY <1>1, <1>2, CatalogInvNext DEF Muse!CatalogInv, Muse!Typed, Muse!Accounted

(* What the invariant says of the cursors. *)
LEMMA CatalogInvHas ==
    ASSUME NEW CONSTANT c, Muse(c)!CatalogInv
    PROVE  /\ Muse(c)!Typed /\ Muse(c)!IsCursor(y2) /\ Muse(c)!IsCursor(y4) /\ Muse(c)!Behind(y2)
           /\ y4 # Muse(c)!NoCursor => Muse(c)!Behind(y4)
           /\ DOMAIN y3 = {"step", "requests", "directory", "read"}
           /\ y2.past \subseteq y5 \cup y3.read /\ y4.past \subseteq y5
           /\ y3.step = "committed" => y2.past \subseteq y5
BY DEF Muse!CatalogInv, Muse!Typed, Muse!Accounted

(* The fetch of a run moves its cursor. *)
LEMMA CursorMoves ==
    ASSUME NEW CONSTANT c, Muse(c)!CatalogAssumption, Muse(c)!CatalogInv,
           Muse(c)!Directory \/ Muse(c)!NextCompany \/ Muse(c)!ReadPage
    PROVE  Muse(c)!CatalogInv'
<1>1. PICK e, g : e = y2 /\ g = y4
  OBVIOUS
<1>2. /\ Muse(c)!Typed /\ Muse(c)!IsCursor(e) /\ Muse(c)!IsCursor(g) /\ Muse(c)!Behind(e)
      /\ g # Muse(c)!NoCursor => Muse(c)!Behind(g)
      /\ DOMAIN y3 = {"step", "requests", "directory", "read"}
      /\ e.past \subseteq y5 \cup y3.read /\ g.past \subseteq y5
  BY <1>1, CatalogInvHas
<1>3. y1' = y1 /\ y4' = g /\ y5' = y5 /\ y3.step = "fetching"
  BY <1>1 DEF Muse!Directory, Muse!NextCompany, Muse!ReadPage, Muse!Fetching
<1>4. ASSUME NEW f, y2' = f, Muse(c)!IsCursor(f), Muse(c)!Behind(f),
             DOMAIN y3' = {"step", "requests", "directory", "read"}, y3'.step = "fetching",
             f.past \subseteq y5 \cup y3'.read
      PROVE  Muse(c)!CatalogInv'
  <2>1. /\ f.past \subseteq y5' \cup y3'.read /\ g.past \subseteq y5'
        /\ y3'.step # "committed"
    BY <1>2, <1>3, <1>4
  <2> QED BY <1>2, <1>3, <1>4, <2>1, CatalogInvNext
<1>5. CASE Muse(c)!Directory
  <2>1. /\ DOMAIN y3' = {"step", "requests", "directory", "read"} /\ y3'.step = "fetching"
        /\ y3'.read = y3.read
    BY <1>1, <1>2, <1>3, <1>5 DEF Muse!Directory
  <2>2. PICK f : f = y2'
    OBVIOUS
  <2>3. Muse(c)!IsCursor(f) /\ Muse(c)!Behind(f) /\ f.past = e.past
    <3>1. e.company = 0
      BY <1>1, <1>5 DEF Muse!Directory
    <3>2. CASE Muse(c)!Listed(e.page, e.index)
      <4>1. f = [e EXCEPT !.company = Muse(c)!Nth(e.page, e.index), !.category = 1,
                          !.level = 0, !.at = 1]
        BY <1>1, <1>5, <2>2, <3>2 DEF Muse!Directory
      <4> QED BY <1>2, <3>1, <3>2, <4>1, CompanyIsTaken
    <3>3. CASE ~Muse(c)!Listed(e.page, e.index) /\ Muse(c)!IsLastPage(e.page)
      <4>1. f = [e EXCEPT !.complete = TRUE]
        BY <1>1, <1>5, <2>2, <3>3 DEF Muse!Directory
      <4> QED BY <1>2, <3>1, <3>3, <4>1, DirectoryEnds
    <3>4. CASE ~Muse(c)!Listed(e.page, e.index) /\ ~Muse(c)!IsLastPage(e.page)
      <4>1. f = [e EXCEPT !.page = @ + 1, !.index = 0]
        BY <1>1, <1>5, <2>2, <3>4 DEF Muse!Directory
      <4> QED BY <1>2, <3>1, <3>4, <4>1, DirectoryGoesOn
    <3> QED BY <3>2, <3>3, <3>4
  <2> QED BY <1>2, <1>4, <2>1, <2>2, <2>3
<1>6. CASE Muse(c)!NextCompany
  <2>1. PICK f : f = y2'
    OBVIOUS
  <2>2. /\ e.company # 0 /\ e.category \notin c.categories /\ y3' = y3
        /\ f = [e EXCEPT !.index = @ + 1, !.company = 0, !.category = 1, !.level = 0, !.at = 1]
    BY <1>1, <1>6, <2>1 DEF Muse!NextCompany
  <2>3. Muse(c)!IsCursor(f) /\ Muse(c)!Behind(f) /\ f.past = e.past
    BY <1>2, <2>2, CompanyIsRead
  <2> QED BY <1>2, <1>3, <1>4, <2>1, <2>2, <2>3
<1>7. CASE Muse(c)!ReadPage
  <2>1. PICK f : f = y2'
    OBVIOUS
  <2>2. e.company # 0 /\ e.category \in c.categories
    BY <1>1, <1>7 DEF Muse!ReadPage
  <2>3. PICK s : s = <<e.company, e.category, e.level>>
    OBVIOUS
  <2>4. PICK m : m = [e EXCEPT !.past = @ \cup {<<s, e.at>>}]
    OBVIOUS
  <2>5. /\ DOMAIN y3' = {"step", "requests", "directory", "read"} /\ y3'.step = "fetching"
        /\ y3'.read = IF e.level = 0 /\ Muse(c)!Reported(s) > c.limit THEN y3.read
                      ELSE y3.read \cup {<<s, e.at>>}
    BY <1>1, <1>2, <1>3, <1>7, <2>3 DEF Muse!ReadPage
  <2>6. f = IF e.level = 0 /\ Muse(c)!Reported(s) > c.limit THEN [e EXCEPT !.level = 1, !.at = 1]
            ELSE IF e.at >= Muse(c)!Answered(s) THEN Muse(c)!Partitioned(m)
            ELSE [m EXCEPT !.at = @ + 1]
    BY <1>1, <1>7, <2>1, <2>3, <2>4 DEF Muse!ReadPage
  <2>7. CASE e.level = 0 /\ Muse(c)!Reported(s) > c.limit
    <3>1. f = [e EXCEPT !.level = 1, !.at = 1] /\ y3'.read = y3.read
      BY <2>5, <2>6, <2>7
    <3>2. Muse(c)!PagesOf(e.company, e.category) > c.limit
      BY <1>2, <2>2, <2>3, <2>7, CursorHas, PagesAnswered
    <3>3. Muse(c)!IsCursor(f) /\ Muse(c)!Behind(f) /\ f.past = e.past
      BY <1>2, <2>2, <3>1, <3>2, CategorySplits
    <3> QED BY <1>2, <1>4, <2>1, <2>5, <3>1, <3>3
  <2>8. CASE ~(e.level = 0 /\ Muse(c)!Reported(s) > c.limit)
    <3>1. /\ Muse(c)!IsCursor(m) /\ e.past \subseteq m.past /\ Muse(c)!Behind(m)
          /\ m.company = e.company /\ m.category = e.category /\ m.level = e.level /\ m.at = e.at
          /\ m.past = e.past \cup {<<s, e.at>>} /\ Muse(c)!Past(m, s, e.at)
      <4>1. Muse(c)!Past(e, s, e.at - 1)
        BY <1>2, <2>2, <2>3 DEF Muse!Behind
      <4> QED BY <1>2, <2>2, <2>3, <2>4, <4>1, PageIsPast
    <3>2. y3'.read = y3.read \cup {<<s, e.at>>}
      BY <2>5, <2>8
    <3>3. Muse(c)!IsCursor(f) /\ Muse(c)!Behind(f) /\ f.past = m.past
      <4>1. CASE e.at >= Muse(c)!Answered(s)
        <5>1. f = Muse(c)!Partitioned(m)
          BY <2>6, <2>8, <4>1
        <5>2. /\ e.company \in c.companies /\ e.level \in c.levels \cup {0} /\ e.at \in Nat
          BY <1>2, <2>2, CursorHas
        <5>3. Muse(c)!Answered(s) \in Nat
          BY <1>2, <2>2, <2>3, <5>2, PagesAnswered
        <5>4. Muse(c)!Past(m, s, Muse(c)!Answered(s))
          <6>1. \A k \in 1..Muse(c)!Answered(s) : k \in 1..e.at
            BY <4>1, <5>2, <5>3
          <6> QED BY <3>1, <6>1 DEF Muse!Past
        <5>5. m.level = 0 => Muse(c)!Reported(s) <= c.limit
          <6>1. e.level = 0 => Muse(c)!Reported(s) = Muse(c)!PagesOf(e.company, e.category)
                               /\ Muse(c)!PagesOf(e.company, e.category) \in Nat /\ c.limit \in Nat
            BY <1>2, <2>2, <2>3, <5>2, PagesAnswered
          <6> QED BY <2>8, <3>1, <6>1
        <5>6. m.company # 0 /\ m.category \in c.categories /\ s = <<m.company, m.category, m.level>>
          BY <2>2, <2>3, <3>1
        <5> QED BY <1>2, <3>1, <5>1, <5>4, <5>5, <5>6, SearchIsRead
      <4>2. CASE ~(e.at >= Muse(c)!Answered(s))
        <5>1. f = [m EXCEPT !.at = @ + 1]
          BY <2>6, <2>8, <4>2
        <5>2. Muse(c)!Past(m, <<m.company, m.category, m.level>>, m.at)
          BY <2>3, <3>1
        <5> QED BY <3>1, <5>1, <5>2, NextPageOfSearch
      <4> QED BY <4>1, <4>2
    <3>4. f.past \subseteq y5 \cup y3'.read
      BY <1>2, <3>1, <3>2, <3>3
    <3> QED BY <1>4, <2>1, <2>5, <3>3, <3>4
  <2> QED BY <2>7, <2>8
<1> QED BY <1>5, <1>6, <1>7

(* A run begins, ends its fetch, commits, saves its cursor or dies. *)
LEMMA CatalogRunGoesOn ==
    ASSUME NEW CONSTANT c, Muse(c)!CatalogAssumption, Muse(c)!CatalogInv,
           \/ Muse(c)!StartRun \/ Muse(c)!RequestFails \/ Muse(c)!Fetched
           \/ Muse(c)!Commit \/ Muse(c)!SaveCursor \/ Muse(c)!Dies
    PROVE  Muse(c)!CatalogInv'
<1>1. PICK e, g : e = y2 /\ g = y4
  OBVIOUS
<1>2. /\ Muse(c)!Typed /\ Muse(c)!IsCursor(e) /\ Muse(c)!IsCursor(g) /\ Muse(c)!Behind(e)
      /\ g # Muse(c)!NoCursor => Muse(c)!Behind(g)
      /\ DOMAIN y3 = {"step", "requests", "directory", "read"}
      /\ e.past \subseteq y5 \cup y3.read /\ g.past \subseteq y5
      /\ y3.step = "committed" => e.past \subseteq y5
  BY <1>1, CatalogInvHas
<1>3. CASE Muse(c)!StartRun
  <2>1. PICK f : f = y2'
    OBVIOUS
  <2>2. f = Muse(c)!Fresh \/ (f = g /\ g # Muse(c)!NoCursor)
    BY <1>1, <1>3, <2>1 DEF Muse!StartRun
  <2>3. /\ DOMAIN y3' = {"step", "requests", "directory", "read"} /\ y3'.step = "fetching"
        /\ y1' = y1 /\ y4' = g /\ y5' = y5
    BY <1>1, <1>3 DEF Muse!StartRun, Muse!Idle
  <2>4. Muse(c)!IsCursor(f) /\ Muse(c)!Behind(f) /\ f.past \subseteq y5
    BY <1>2, <2>2, FreshIs
  <2>5. f.past \subseteq y5' \cup y3'.read /\ g.past \subseteq y5' /\ y3'.step # "committed"
    BY <1>2, <2>3, <2>4
  <2> QED BY <1>2, <2>1, <2>3, <2>4, <2>5, CatalogInvNext
<1>4. CASE Muse(c)!RequestFails \/ Muse(c)!Fetched \/ Muse(c)!Commit
  <2>1. /\ DOMAIN y3' = {"step", "requests", "directory", "read"} /\ y3'.read = y3.read
        /\ y1' = y1 /\ y2' = e /\ y4' = g
        /\ \/ y3'.step = "fetched" /\ y5' = y5
           \/ y3'.step = "committed" /\ y5' = y5 \cup y3.read
    BY <1>1, <1>2, <1>4 DEF Muse!RequestFails, Muse!Fetched, Muse!Commit
  <2>2. /\ e.past \subseteq y5' \cup y3'.read /\ g.past \subseteq y5'
        /\ y3'.step = "committed" => e.past \subseteq y5'
    BY <1>2, <2>1
  <2> QED BY <1>2, <2>1, <2>2, CatalogInvNext
<1>5. CASE Muse(c)!SaveCursor
  <2>1. /\ DOMAIN y3' = {"step", "requests", "directory", "read"} /\ y3'.step = "idle"
        /\ y1' = y1 /\ y2' = e /\ y4' = e /\ y5' = y5 /\ y3.step = "committed"
    BY <1>1, <1>5 DEF Muse!SaveCursor, Muse!Idle
  <2>2. e.past \subseteq y5' /\ e.past \subseteq y5' \cup y3'.read
    BY <1>2, <2>1
  <2> QED BY <1>2, <2>1, <2>2, CatalogInvNext
<1>6. CASE Muse(c)!Dies
  <2>1. PICK f : f = Muse(c)!Fresh
    OBVIOUS
  <2>2. /\ DOMAIN y3' = {"step", "requests", "directory", "read"} /\ y3'.step = "idle"
        /\ y1' = y1 /\ y2' = f /\ y4' = g /\ y5' = y5
    BY <1>1, <1>6, <2>1 DEF Muse!Dies, Muse!Idle
  <2>3. Muse(c)!IsCursor(f) /\ Muse(c)!Behind(f) /\ f.past = {}
    BY <2>1, FreshIs
  <2>4. f.past \subseteq y5' \cup y3'.read /\ g.past \subseteq y5' /\ y3'.step # "committed"
    BY <1>2, <2>2, <2>3
  <2> QED BY <1>2, <2>2, <2>3, <2>4, CatalogInvNext
<1> QED BY <1>3, <1>4, <1>5, <1>6

LEMMA MuseStep ==
    ASSUME NEW CONSTANT c, Muse(c)!CatalogAssumption, Muse(c)!CatalogInv, Muse(c)!Next
    PROVE  Muse(c)!CatalogInv'
BY CursorMoves, CatalogRunGoesOn DEF Muse!Next

(* What a saved cursor left behind is in the corpus. *)
LEMMA CatalogInvSuffices ==
    ASSUME NEW CONSTANT c, Muse(c)!CatalogInv
    PROVE  Muse(c)!CursorBehindRows
<1>1. SUFFICES ASSUME y4 # Muse(c)!NoCursor
      PROVE  /\ y4.past \subseteq y5
             /\ y4.complete =>
                  \A co \in c.companies, k \in c.categories :
                     IF Muse(c)!PagesOf(co, k) <= c.limit
                     THEN \A n \in 1..Muse(c)!PagesOf(co, k) : <<<<co, k, 0>>, n>> \in y5
                     ELSE \A l \in c.levels : \A n \in 1..Muse(c)!Answered(<<co, k, l>>) :
                             <<<<co, k, l>>, n>> \in y5
  BY DEF Muse!CursorBehindRows
<1>2. y4.past \subseteq y5 /\ Muse(c)!Behind(y4)
  BY <1>1, CatalogInvHas
<1>3. y4.complete => \A co \in c.companies : \A k \in c.categories : Muse(c)!CategoryPast(y4, co, k)
  BY <1>2 DEF Muse!Behind, Muse!CompanyPast
<1> QED BY <1>2, <1>3 DEF Muse!CategoryPast, Muse!LevelsPast, Muse!Past

(* CursorBehindRows, for any directory, categories, levels and limits: the cursor that *)
(* is kept is never past a page whose rows are not in the corpus, and a catalog that    *)
(* was read to its end is there.                                                        *)
THEOREM CursorAlwaysBehindRows ==
    ASSUME NEW CONSTANT c, Muse(c)!CatalogAssumption
    PROVE  Muse(c)!Spec => []Muse(c)!CursorBehindRows
<1>1. Muse(c)!Init => Muse(c)!CatalogInv
  BY MuseStart
<1>2. Muse(c)!CatalogInv /\ [Muse(c)!Next]_(Muse(c)!vars) => Muse(c)!CatalogInv'
  BY MuseStep, MuseSame
<1>3. Muse(c)!CatalogInv => Muse(c)!CursorBehindRows
  BY CatalogInvSuffices
<1> QED BY <1>1, <1>2, <1>3, PTL DEF Muse!Spec
=============================================================================
