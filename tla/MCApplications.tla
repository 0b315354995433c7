--------------------------- MODULE MCApplications ----------------------------
(***************************************************************************)
(* The stores and the parts of the worker an application goes through,     *)
(* each on a small instance: a behaviour of this module is a behaviour of  *)
(* one of them.  "part" names it, and x1 to x12 are its variables in the   *)
(* order it declares them.  Discovery is taken twice: two polls of one run *)
(* that stage two roles, and two runs that compete for one role.           *)
(***************************************************************************)
EXTENDS Integers, TLC

CONSTANT Callers                    \* polls of discovery, requests of a store or the ledger

VARIABLES part, x1, x2, x3, x4, x5, x6, x7, x8, x9, x10, x11, x12
vars == <<part, x1, x2, x3, x4, x5, x6, x7, x8, x9, x10, x11, x12>>

Unused == "unused"

Forms == INSTANCE Forms_proofs WITH
    ScreenKeys <- {"s"}, FormKeys <- {"f"}, Values <- {"a", "b"},
    Useless <- {"b"}, Steady <- TRUE, MaxAttempts <- 2, MaxAnswers <- 2,
    MaxPolicies <- 2, MaxSaves <- 1, MaxSlips <- 1,
    kind <- x1, facts <- x2, policy <- x3, app <- x4, questions <- x5,
    answers <- x6, work <- x7, refused <- x8, review <- x9, delivered <- x10,
    saves <- x11, slips <- x12,
    Patient <- TRUE,
    vendor <- x1, asks <- x2, saved <- x3, fact <- x4, step <- x5,
    shown <- x6, held <- x7, page <- x8, submitted <- x9,
    MaxMade <- 2, MaxTries <- 1, MaxEdits <- 2, MaxFaults <- 1,
    profile <- x1, permits <- x2, posting <- x3, form <- x4, row <- x5,
    artifacts <- x6, letter <- x7, worker <- x8, net <- x9, seen <- x10,
    sent <- x11, spent <- x12

Overlap == INSTANCE DiscoveryStaging_proofs WITH
    Roles <- {"x", "y"}, Runs <- {"r1"}, Polls <- Callers,
    Versions <- {"v1", "v2"}, First <- "v1", Refused <- {"v2"},
    MaxManifests <- 3, MaxAttempts <- 2, MaxChanges <- 1, MaxCommands <- 2,
    MaxFaults <- 1,
    corpus <- x1, run <- x2, manifest <- x3, target <- x4, app <- x5,
    marks <- x6, loose <- x7, poll <- x8, changes <- x9, commands <- x10,
    faults <- x11

Rivals == INSTANCE DiscoveryStaging_proofs WITH
    Roles <- {"x"}, Runs <- {"r1", "r2"}, Polls <- {"p"},
    Versions <- {"v1", "v2"}, First <- "v1", Refused <- {},
    MaxManifests <- 3, MaxAttempts <- 2, MaxChanges <- 1, MaxCommands <- 2,
    MaxFaults <- 0,
    corpus <- x1, run <- x2, manifest <- x3, target <- x4, app <- x5,
    marks <- x6, loose <- x7, poll <- x8, changes <- x9, commands <- x10,
    faults <- x11

Stores == INSTANCE Stores_proofs WITH
    Documents <- {"d", "e"}, Requests <- Callers, Quota <- 1, MaxDeaths <- 1,
    mode <- x1, doc <- x2, object <- x3, landed <- x4, request <- x5,
    faults <- x6,
    Runs <- {1, 2}, Costs <- {1, 2}, PerRun <- 2, PerDay <- 3, Ttl <- 1,
    MaxClock <- 1, MaxCrashes <- 1,
    clock <- x1, day <- x2, ledger <- x3, lock <- x4, requests <- x5,
    billed <- x6, crashes <- x7,
    Grants <- {"g1", "g2", "g3"}, Foreign <- {"g3"}, MaxSends <- 2,
    MaxChanges <- 2, MaxFaults <- 2,
    grant <- x1, worker <- x2, binding <- x3, meta <- x4, vault <- x5,
    proc <- x6, net <- x7, made <- x8, told <- x9, spent <- x10,
    Rows <- {1, 2, 3}, Label <- <<"a", "b", "a">>, Board <- <<"x", "x", "y">>,
    Limited <- {"x"}, DailyCap <- 2, EmployerCap <- 1, Limit <- 1, Span <- 3,
    Day <- 2, MaxTime <- 3, MaxMarks <- 1,
    row <- x2, marks <- x3

\* None is called what a lock or a run without one holds.
ASSUME CallerNames == Stores!Budget!Free \notin Callers /\ Overlap!NoPoll \notin Callers

\* None is told from another but by what it did.
Symmetry == Permutations(Callers)

-----------------------------------------------------------------------------
Init ==
    \/ part = "answers" /\ Forms!Answers!Init
    \/ part = "overlap" /\ Overlap!Init /\ x12 = Unused
    \/ part = "rivals" /\ Rivals!Init /\ x12 = Unused
    \/ part = "documents" /\ Stores!Docs!Init
       /\ x7 = Unused /\ x8 = Unused /\ x9 = Unused /\ x10 = Unused
       /\ x11 = Unused /\ x12 = Unused
    \/ part = "budget" /\ Stores!Budget!Init
       /\ x8 = Unused /\ x9 = Unused /\ x10 = Unused /\ x11 = Unused
       /\ x12 = Unused
    \/ part = "form" /\ Forms!Fill!Init
       /\ x10 = Unused /\ x11 = Unused /\ x12 = Unused
    \/ part = "pairing" /\ Stores!Pairs!Init /\ x11 = Unused /\ x12 = Unused
    \/ part = "materials" /\ Forms!Material!Init
    \/ part = "caps" /\ Stores!Caps!Init
       /\ x4 = Unused /\ x5 = Unused /\ x6 = Unused /\ x7 = Unused /\ x8 = Unused
       /\ x9 = Unused /\ x10 = Unused /\ x11 = Unused /\ x12 = Unused

Next ==
    /\ \/ part = "answers" /\ Forms!Answers!Next
       \/ part = "overlap" /\ Overlap!Next /\ UNCHANGED <<x12>>
       \/ part = "rivals" /\ Rivals!Next /\ UNCHANGED <<x12>>
       \/ part = "documents" /\ Stores!Docs!Next /\ UNCHANGED <<x7, x8, x9, x10, x11, x12>>
       \/ part = "budget" /\ Stores!Budget!Next /\ UNCHANGED <<x8, x9, x10, x11, x12>>
       \/ part = "form" /\ Forms!Fill!Next /\ UNCHANGED <<x10, x11, x12>>
       \/ part = "pairing" /\ Stores!Pairs!Next /\ UNCHANGED <<x11, x12>>
       \/ part = "materials" /\ Forms!Material!Next
       \/ part = "caps" /\ Stores!Caps!Next
          /\ UNCHANGED <<x4, x5, x6, x7, x8, x9, x10, x11, x12>>
    /\ UNCHANGED part

Spec == Init /\ [][Next]_vars

-----------------------------------------------------------------------------
\* Every variable of every part keeps its type.
TypeOK ==
    /\ part = "answers" => Forms!Answers!TypeOK
    /\ part = "overlap" => Overlap!TypeOK
    /\ part = "rivals" => Rivals!TypeOK
    /\ part = "documents" => Stores!Docs!TypeOK
    /\ part = "budget" => Stores!Budget!TypeOK
    /\ part = "form" => Forms!Fill!TypeOK
    /\ part = "pairing" => Stores!Pairs!TypeOK
    /\ part = "materials" => Forms!Material!TypeOK
    /\ part = "caps" => Stores!Caps!TypeOK

\* FormAnswers, FormFill and Materials: no form is filled over and over, no
\* application is left behind with its questions answered, an open question
\* holds its form, what is sent is what was reviewed and what the applicant
\* meant, and the resume and letter that go out are those kept for it, under
\* the policy of that moment.
FormsAreMeant ==
    /\ part = "answers" =>
          /\ Forms!Answers!NoFillLoop /\ Forms!Answers!NoStrandedApplication
          /\ Forms!Answers!OpenQuestionHolds /\ Forms!Answers!SentAsReviewed
    /\ part = "form" => Forms!Fill!FormIsMeant
    /\ part = "materials" => Forms!Material!MaterialsStand

\* DiscoveryStaging: a snapshot that may still be staged from has its rows.
SnapshotsServe ==
    /\ part = "overlap" => Overlap!SnapshotsServe
    /\ part = "rivals" => Rivals!SnapshotsServe

\* DiscoveryStaging: no step queues a role the applicant reported as applied.
QueuesNoReported ==
    [][/\ part = "overlap" => Overlap!QueuesNoReported
       /\ part = "rivals" => Rivals!QueuesNoReported]_vars

\* DocumentStore, ProviderBudget and Pairing: what a store says of something
\* outside it (bytes, calls already paid for, the credentials a machine holds)
\* stays true over crashes, lost answers and retries.  ClaimCaps: what polls
\* counted before they started an application stays within the caps, whatever
\* the applications started do next.
StoresAgree ==
    /\ part = "documents" => Stores!Docs!RowsMatchBytes
    /\ part = "budget" => Stores!Budget!BudgetKept
    /\ part = "pairing" => Stores!Pairs!PairingIsSound
    /\ part = "caps" => Stores!Caps!CapsKept
==============================================================================
