------------------------------- MODULE MCPages -------------------------------
(***************************************************************************)
(* The pages the applicant works with, each against the server behind it   *)
(* and on a small instance: a behaviour of this module is a behaviour of   *)
(* one of them. "screen" names it, and y1 to y12 are its variables in the  *)
(* order it declares them. The drafts of a note, its edits, those of the   *)
(* profile and of the inbox and the checks of the board are taken more     *)
(* than once, with the bounds on different things.                         *)
(***************************************************************************)
EXTENDS Components_proofs, Integers

VARIABLE screen
pageVars == <<screen, y1, y2, y3, y4, y5, y6, y7, y8, y9, y10, y11, y12>>

Blank == "blank"

\* Two notes of one text, and one note typed three times.
Note == INSTANCE NoteDraft WITH
    Keys <- {1, 2}, Texts <- {"a"}, MaxTyped <- 2, MaxFaults <- 1,
    page <- y1, saves <- y2, rows <- y3, kept <- y4, week <- y5,
    history <- y6, bounds <- y7

OneNote == INSTANCE NoteDraft WITH
    Keys <- {1}, Texts <- {"a", "b"}, MaxTyped <- 3, MaxFaults <- 1,
    page <- y1, saves <- y2, rows <- y3, kept <- y4, week <- y5,
    history <- y6, bounds <- y7

\* Two lanes, one after the other, and one lane whose text goes back and forth.
Lane == INSTANCE NoteLane WITH
    Texts <- {"a", "b"}, MaxLanes <- 2, MaxTyped <- 2, MaxFaults <- 1,
    row <- y1, open <- y2, card <- y3, kept <- y4, lanes <- y5, sent <- y6,
    last <- y7, writes <- y8, bounds <- y9

OneLane == INSTANCE NoteLane WITH
    Texts <- {"a", "b"}, MaxLanes <- 1, MaxTyped <- 3, MaxFaults <- 1,
    row <- y1, open <- y2, card <- y3, kept <- y4, lanes <- y5, sent <- y6,
    last <- y7, writes <- y8, bounds <- y9

\* With a text that is not valid and without one; without faults, and with one.
Profile == INSTANCE ProfileDraft WITH
    Sessions <- {1, 2}, Texts <- {"a", "b"}, Invalid <- {"b"}, MaxRevision <- 2,
    MaxTyped <- 2, MaxShown <- 1, MaxFaults <- 0,
    server <- y1, tab <- y2, check <- y3, slot <- y4, storing <- y5,
    retiring <- y6, net <- y7, seen <- y8, due <- y9, bounds <- y10

FaultyProfile == INSTANCE ProfileDraft WITH
    Sessions <- {1, 2}, Texts <- {"a", "b"}, Invalid <- {"b"}, MaxRevision <- 2,
    MaxTyped <- 1, MaxShown <- 1, MaxFaults <- 1,
    server <- y1, tab <- y2, check <- y3, slot <- y4, storing <- y5,
    retiring <- y6, net <- y7, seen <- y8, due <- y9, bounds <- y10

ValidProfile == INSTANCE ProfileDraft WITH
    Sessions <- {1, 2}, Texts <- {"a", "b"}, Invalid <- {}, MaxRevision <- 2,
    MaxTyped <- 2, MaxShown <- 0, MaxFaults <- 0,
    server <- y1, tab <- y2, check <- y3, slot <- y4, storing <- y5,
    retiring <- y6, net <- y7, seen <- y8, due <- y9, bounds <- y10

FaultyValidProfile == INSTANCE ProfileDraft WITH
    Sessions <- {1, 2}, Texts <- {"a"}, Invalid <- {}, MaxRevision <- 2,
    MaxTyped <- 2, MaxShown <- 0, MaxFaults <- 1,
    server <- y1, tab <- y2, check <- y3, slot <- y4, storing <- y5,
    retiring <- y6, net <- y7, seen <- y8, due <- y9, bounds <- y10

\* Two commands of one account or one command of two; a page and many accounts; and
\* two pages that are open at once.
Inbox == INSTANCE InboxControl WITH
    Pages <- {1, 2}, Texts <- {1, 2}, Together <- FALSE,
    MaxTyped <- 2, MaxCommands <- 2, MaxMoves <- 0, MaxFaults <- 1,
    question <- y1, account <- y2, page <- y3, slot <- y4, storing <- y5,
    retiring <- y6, net <- y7, told <- y8, refused <- y9, bounds <- y10,
    early <- y11, amid <- y12

MovedInbox == INSTANCE InboxControl WITH
    Pages <- {1, 2}, Texts <- {1, 2}, Together <- FALSE,
    MaxTyped <- 2, MaxCommands <- 1, MaxMoves <- 1, MaxFaults <- 1,
    question <- y1, account <- y2, page <- y3, slot <- y4, storing <- y5,
    retiring <- y6, net <- y7, told <- y8, refused <- y9, bounds <- y10,
    early <- y11, amid <- y12

ManyAccounts == INSTANCE InboxControl WITH
    Pages <- {1}, Texts <- {1, 2}, Together <- FALSE,
    MaxTyped <- 1, MaxCommands <- 2, MaxMoves <- 2, MaxFaults <- 1,
    question <- y1, account <- y2, page <- y3, slot <- y4, storing <- y5,
    retiring <- y6, net <- y7, told <- y8, refused <- y9, bounds <- y10,
    early <- y11, amid <- y12

TwoInboxes == INSTANCE InboxControl WITH
    Pages <- {1, 2}, Texts <- {1}, Together <- TRUE,
    MaxTyped <- 1, MaxCommands <- 1, MaxMoves <- 0, MaxFaults <- 1,
    question <- y1, account <- y2, page <- y3, slot <- y4, storing <- y5,
    retiring <- y6, net <- y7, told <- y8, refused <- y9, bounds <- y10,
    early <- y11, amid <- y12

Walk == INSTANCE InboxWalk WITH
    Apps <- {1, 2}, Limit <- 1, More <- 1, Own <- 2, MaxEvents <- 3,
    MaxReads <- 1, MaxMoves <- 2,
    feed <- y1, about <- y2, asking <- y3, read <- y4, waiting <- y5,
    load <- y6, view <- y7, spent <- y8

Focus == INSTANCE FocusRelay WITH
    Questions <- {1, 2}, Results <- {"unavailable", "focused", "observed"},
    PageSize <- 2, MaxAsks <- 3, MaxAcks <- 3, MaxMoves <- 1, MaxFaults <- 1,
    app <- y1, live <- y2, question <- y3, asks <- y4, receipts <- y5,
    worker <- y6, journal <- y7, net <- y8, rejected <- y9, passed <- y10,
    spent <- y11

Console == INSTANCE RunConsole WITH
    MaxCommands <- 2, MaxSends <- 2, MaxMoves <- 1, MaxFaults <- 2,
    run <- y1, worker <- y2, rival <- y3, done <- y4, net <- y5,
    account <- y6, cmd <- y7, view <- y8, op <- y9, halted <- y10,
    refused <- y11, bounds <- y12

Review == INSTANCE LiveReview WITH
    MaxFills <- 2, MaxLost <- 1, MaxReads <- 1,
    row <- y1, worker <- y2, frame <- y3, late <- y4, store <- y5,
    page <- y6, reads <- y7, poll <- y8, reviewed <- y9, spent <- y10

TwoPages == [pages |-> {1, 2}, posts |-> {1}, reloads |-> TRUE,
             checks |-> 2, moves |-> 1, faults |-> 0]
TwoPosts == [pages |-> {1}, posts |-> {1, 2}, reloads |-> FALSE,
             checks |-> 2, moves |-> 1, faults |-> 1]

Rows == [posts |-> {1, 2}, requests |-> 3, moves |-> 1, faults |-> 2]

Filters == INSTANCE FilterForm WITH
    Common <- {"c"}, Employed <- {"e"}, Freelance <- {"f"}, Patient <- TRUE,
    MaxActs <- 5,
    url <- y1, nav <- y2, form <- y3, apply <- y4, stored <- y5,
    button <- y6, want <- y7, acts <- y8

Button == INSTANCE RefreshButton WITH
    Prompt <- TRUE, MaxRuns <- 3, MaxPresses <- 3, MaxFaults <- 1,
    hosted <- y1, cycle <- y2, requests <- y3, rows <- y4, press <- y5,
    watch <- y6, polls <- y7, view <- y8, table <- y9, aim <- y10,
    spent <- y11

-----------------------------------------------------------------------------
PagesInit ==
    \/ screen = "note" /\ Note!Init
       /\ y8 = Blank /\ y9 = Blank /\ y10 = Blank /\ y11 = Blank
       /\ y12 = Blank
    \/ screen = "one note" /\ OneNote!Init
       /\ y8 = Blank /\ y9 = Blank /\ y10 = Blank /\ y11 = Blank
       /\ y12 = Blank
    \/ screen = "lane" /\ Lane!Init
       /\ y10 = Blank /\ y11 = Blank /\ y12 = Blank
    \/ screen = "one lane" /\ OneLane!Init
       /\ y10 = Blank /\ y11 = Blank /\ y12 = Blank
    \/ screen = "profile" /\ Profile!Init /\ y11 = Blank /\ y12 = Blank
    \/ screen = "faulty profile" /\ FaultyProfile!Init /\ y11 = Blank /\ y12 = Blank
    \/ screen = "valid profile" /\ ValidProfile!Init /\ y11 = Blank /\ y12 = Blank
    \/ screen = "faulty valid profile" /\ FaultyValidProfile!Init
       /\ y11 = Blank /\ y12 = Blank
    \/ screen = "inbox" /\ Inbox!Init
    \/ screen = "inbox moved" /\ MovedInbox!Init
    \/ screen = "inbox of many" /\ ManyAccounts!Init
    \/ screen = "inbox together" /\ TwoInboxes!Init
    \/ screen = "walk" /\ Walk!Init
       /\ y9 = Blank /\ y10 = Blank /\ y11 = Blank /\ y12 = Blank
    \/ screen = "focus" /\ Focus!Init /\ y12 = Blank
    \/ screen = "console" /\ Console!Init
    \/ screen = "review" /\ Review!Init /\ y11 = Blank /\ y12 = Blank
    \/ screen = "checks" /\ Checks(TwoPages)!Init /\ y12 = Blank
    \/ screen = "two checks" /\ Checks(TwoPosts)!Init /\ y12 = Blank
    \/ screen = "import" /\ Import(Rows)!Init /\ y12 = Blank
    \/ screen = "filters" /\ Filters!Init
       /\ y9 = Blank /\ y10 = Blank /\ y11 = Blank /\ y12 = Blank
    \/ screen = "refresh" /\ Button!Init /\ y12 = Blank

PagesNext ==
    /\ \/ screen = "note" /\ Note!Next /\ UNCHANGED <<y8, y9, y10, y11, y12>>
       \/ screen = "one note" /\ OneNote!Next /\ UNCHANGED <<y8, y9, y10, y11, y12>>
       \/ screen = "lane" /\ Lane!Next /\ UNCHANGED <<y10, y11, y12>>
       \/ screen = "one lane" /\ OneLane!Next /\ UNCHANGED <<y10, y11, y12>>
       \/ screen = "profile" /\ Profile!Next /\ UNCHANGED <<y11, y12>>
       \/ screen = "faulty profile" /\ FaultyProfile!Next /\ UNCHANGED <<y11, y12>>
       \/ screen = "valid profile" /\ ValidProfile!Next /\ UNCHANGED <<y11, y12>>
       \/ screen = "faulty valid profile" /\ FaultyValidProfile!Next /\ UNCHANGED <<y11, y12>>
       \/ screen = "inbox" /\ Inbox!Next
       \/ screen = "inbox moved" /\ MovedInbox!Next
       \/ screen = "inbox of many" /\ ManyAccounts!Next
       \/ screen = "inbox together" /\ TwoInboxes!Next
       \/ screen = "walk" /\ Walk!Next /\ UNCHANGED <<y9, y10, y11, y12>>
       \/ screen = "focus" /\ Focus!Next /\ UNCHANGED <<y12>>
       \/ screen = "console" /\ Console!Next
       \/ screen = "review" /\ Review!Next /\ UNCHANGED <<y11, y12>>
       \/ screen = "checks" /\ Checks(TwoPages)!Next /\ UNCHANGED <<y12>>
       \/ screen = "two checks" /\ Checks(TwoPosts)!Next /\ UNCHANGED <<y12>>
       \/ screen = "import" /\ Import(Rows)!Next /\ UNCHANGED <<y12>>
       \/ screen = "filters" /\ Filters!Next /\ UNCHANGED <<y9, y10, y11, y12>>
       \/ screen = "refresh" /\ Button!Next /\ UNCHANGED <<y12>>
    /\ UNCHANGED screen

PagesSpec == PagesInit /\ [][PagesNext]_pageVars

-----------------------------------------------------------------------------
\* Every variable of every part keeps its type.
PagesTypeOK ==
    /\ screen = "note" => Note!TypeOK
    /\ screen = "one note" => OneNote!TypeOK
    /\ screen = "lane" => Lane!TypeOK
    /\ screen = "one lane" => OneLane!TypeOK
    /\ screen = "profile" => Profile!TypeOK
    /\ screen = "faulty profile" => FaultyProfile!TypeOK
    /\ screen = "valid profile" => ValidProfile!TypeOK
    /\ screen = "faulty valid profile" => FaultyValidProfile!TypeOK
    /\ screen = "inbox" => Inbox!TypeOK
    /\ screen = "inbox moved" => MovedInbox!TypeOK
    /\ screen = "inbox of many" => ManyAccounts!TypeOK
    /\ screen = "inbox together" => TwoInboxes!TypeOK
    /\ screen = "walk" => Walk!TypeOK
    /\ screen = "focus" => Focus!TypeOK
    /\ screen = "console" => Console!TypeOK
    /\ screen = "review" => Review!TypeOK
    /\ screen = "checks" => Checks(TwoPages)!TypeOK
    /\ screen = "two checks" => Checks(TwoPosts)!TypeOK
    /\ screen = "import" => Import(Rows)!TypeOK
    /\ screen = "filters" => Filters!TypeOK
    /\ screen = "refresh" => Button!TypeOK

\* NoteDraft, NoteLane, ProfileDraft and InboxControl: what the applicant typed
\* is on the server, on its way there or kept on the machine, and is lost only
\* to a request that a lane or a page left behind: a page that was told of every
\* request ends on what was typed last. What counts as sent was sent, or was
\* typed while a whole form was on its way.
TypedIsKept ==
    /\ screen = "note" => Note!DraftsSafe
    /\ screen = "one note" => OneNote!DraftsSafe
    /\ screen = "lane" => Lane!EditsSafe
    /\ screen = "one lane" => OneLane!EditsSafe
    /\ screen = "profile" => Profile!DraftsHeld
    /\ screen = "faulty profile" => FaultyProfile!DraftsHeld
    /\ screen = "valid profile" => ValidProfile!DraftsHeld
    /\ screen = "faulty valid profile" => FaultyValidProfile!DraftsHeld
    /\ screen = "inbox" => Inbox!AnswersHeld
    /\ screen = "inbox moved" => MovedInbox!AnswersHeld
    /\ screen = "inbox of many" => ManyAccounts!AnswersHeld
    /\ screen = "inbox together" => TwoInboxes!AnswersHeld

\* InboxWalk and FocusRelay: the questions that wait reach the applicant's page
\* whatever is issued while it reads, and the applicant's request to see one
\* reaches the worker once.
QuestionsReach ==
    /\ screen = "walk" => Walk!WalkIsSound
    /\ screen = "focus" => Focus!RelayIsSound

\* RunConsole, LiveReview, FilterForm and RefreshButton: what the page says and
\* offers is true of the run, the review, the list and the cycle it is about.
ScreenIsTrue ==
    /\ screen = "console" => Console!ConsoleIsSound
    /\ screen = "review" => Review!ReviewStands
    /\ screen = "filters" => Filters!FormIsSound
    /\ screen = "refresh" => Button!ButtonIsTrue

\* AppliedChecks and ImportReview: what the server keeps as applied is what the
\* applicant ticked or vouched for, on the account it was meant for.
MarksAreMeant ==
    /\ screen = "checks" => Checks(TwoPages)!ChecksAreSound
    /\ screen = "two checks" => Checks(TwoPosts)!ChecksAreSound
    /\ screen = "import" => Import(Rows)!ImportIsMeant
==============================================================================
