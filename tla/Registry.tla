------------------------------ MODULE Registry ------------------------------
(* The registry of companies whose boards the postings cycle reads, and the  *)
(* script that fills it: scripts/resolve-companies.ts with the probes of     *)
(* scripts/ats-probe.js. A run takes the groups asked for, probes every      *)
(* company the registry does not know yet for a board under names made from  *)
(* its own, all companies of a group at once, and writes the registry and a  *)
(* report with one section for each group.                                   *)
(*                                                                           *)
(* A company's board is the system it is on, whether it has openings, and    *)
(* whether a token made from the company's name leads to it. Some systems    *)
(* deny a token they do not know; the shells answer it with an empty board.  *)
(* Not modelled: the spacing of requests to one host (PoliteFetch has the    *)
(* rule), tags and counts, the seeds behind a bot check, and a stop of the   *)
(* script inside one write of a file.                                        *)
EXTENDS Naturals, Sequences, FiniteSets

CONSTANTS Companies, Voice, Studios,    \* the seeds of two groups, in order
          Listed,                       \* companies of the YC directory
          Corporate,                    \* seeds with tryWorkday
          Extra,                        \* systems asked for with --extra-ats, in order
          Early,                        \* companies with a board from the start
          Excluded,                     \* dead, acquired or of unclear identity
          MaxRuns, MaxMoves, MaxFaults

VARIABLES world,    \* company -> its board
          seen,     \* the boards there have been (history)
          file,     \* company -> the system scripts/companies.json has it on
          report,   \* section -> what the report on disk says
          run,      \* the script
          spent     \* runs started, moves and faults so far

vars == <<world, seen, file, report, run, spent>>

Flat == <<"greenhouse", "workable">>
EmptyOk == {"greenhouse", "teamtailor"}
Systems == {Flat[i] : i \in 1..Len(Flat)} \cup {Extra[i] : i \in 1..Len(Extra)}
             \cup (IF Corporate # {} THEN {"workday"} ELSE {})
Groups == {"voice", "studios", "yc"}
None == "none"
NoBoard == [ats |-> None, open |-> FALSE, named |-> FALSE]
Boards == [ats : Systems, open : BOOLEAN, named : BOOLEAN] \cup {NoBoard}
Absent == [listed |-> {}, written |-> 0]    \* no such section in the report

Idle == [stage |-> "idle", asked |-> {}, limit |-> 0, dry |-> FALSE,
         quiet |-> FALSE, todo |-> {}, group |-> None,
         yc |-> <<>>, at |-> [c \in Companies |-> 0],
         again |-> {}, found |-> [c \in Companies |-> None],
         done |-> [g \in Groups |-> {}], steady |-> TRUE, before |-> <<>>]

Init == /\ world = [c \in Companies |->
                       IF c \in Early THEN [ats |-> "greenhouse", open |-> TRUE, named |-> TRUE]
                       ELSE NoBoard]
        /\ seen = Early \X {"greenhouse"}
        /\ file = [c \in Companies |-> None]
        /\ report = [g \in Groups |-> Absent]
        /\ run = Idle
        /\ spent = [runs |-> 0, moves |-> 0, faults |-> 0]

(* A company opens, empties, moves or closes its board.                      *)
Move(c, b) ==
    /\ spent.moves < MaxMoves /\ world[c] # b
    /\ world' = [world EXCEPT ![c] = b]
    /\ seen' = seen \cup ({<<c, b.ats>>} \ {<<c, None>>})
    /\ run' = [run EXCEPT !.steady = FALSE]
    /\ spent' = [spent EXCEPT !.moves = @ + 1]
    /\ UNCHANGED <<file, report>>

-----------------------------------------------------------------------------
(* main: the registry is read whole, before the first probe.                 *)
Start(asked, limit, dry, quiet) ==
    /\ run.stage = "idle" /\ spent.runs < MaxRuns
    /\ run' = [Idle EXCEPT !.stage = IF "yc" \in asked THEN "directory" ELSE "groups",
                           !.asked = asked, !.limit = limit, !.dry = dry,
                           !.quiet = quiet, !.todo = asked,
                           !.found = file, !.before = <<file, report>>]
    /\ spent' = [spent EXCEPT !.runs = @ + 1]
    /\ UNCHANGED <<world, seen, file, report>>

(* fetchYcSeeds: what the directory selects, or no seeds at all.             *)
Directory(s) ==
    /\ run.stage = "directory"
    /\ run' = [run EXCEPT !.stage = "groups", !.yc = s]
    /\ UNCHANGED <<world, seen, file, report, spent>>

DirectoryFails ==
    /\ run.stage = "directory" /\ spent.faults < MaxFaults
    /\ run' = [run EXCEPT !.stage = "groups", !.steady = FALSE]
    /\ spent' = [spent EXCEPT !.faults = @ + 1]
    /\ UNCHANGED <<world, seen, file, report>>

Turn == <<"voice", "studios", "yc">>
First(s, n) == {s[i] : i \in 1..(IF n < Len(s) THEN n ELSE Len(s))}
Seeds(r, g) ==
    First(CASE g = "voice" -> Voice [] g = "studios" -> Studios [] g = "yc" -> r.yc, r.limit)

(* resolveGroup: excluded names and known companies are settled unasked.     *)
OpenGroup ==
    /\ run.stage = "groups" /\ run.group = None
    /\ \E i \in 1..3 :
         /\ Turn[i] \in run.todo /\ \A j \in 1..(i - 1) : Turn[j] \notin run.todo
         /\ LET g == Turn[i] IN
            run' = [run EXCEPT !.group = g, !.todo = @ \ {g},
                      !.at = [c \in Companies |->
                                IF c \in Seeds(run, g) \ Excluded /\ run.found[c] = None
                                THEN 1 ELSE 0]]
    /\ UNCHANGED <<world, seen, file, report, spent>>

(* resolveCompany: the systems in the order they are tried; "page" stands    *)
(* for what the careers page names, tried under its exact token.             *)
Order(c) == Flat \o Extra
                 \o (IF c \in Corporate THEN <<"workday">> ELSE <<>>)
                 \o (IF run.group = "studios" THEN <<"page">> ELSE <<>>)

(* What system a answers about company c; exact when the token is its own.   *)
Served(c, a, exact) ==
    IF world[c].ats = a /\ (exact \/ world[c].named)
    THEN (IF world[c].open THEN "openings" ELSE "empty")
    ELSE (IF a \in EmptyOk THEN "missing" ELSE "empty")

(* Mutant of IsConfirmed: any answer with the right shape is a board.        *)
ConfirmedByShape(a, answer) == answer \in {"openings", "empty"}
IsConfirmed(a, answer) == answer = "openings" \/ (answer = "empty" /\ a \in EmptyOk)

Next1(r, c) == [r EXCEPT !.at[c] = IF @ = Len(Order(c)) THEN 0 ELSE @ + 1,
                         !.again = @ \ {c}]
Judge(c, a) ==
    run' = IF IsConfirmed(a, Served(c, a, FALSE))
           THEN [run EXCEPT !.at[c] = 0, !.again = @ \ {c}, !.found[c] = a]
           ELSE Next1(run, c)

(* detectAtsFromCareers: the systems a careers page names; none when         *)
(* robots.txt shuts the pages, they cannot be read, or they name none.       *)
Pointers == SUBSET Systems

(* The systems a page names are asked in turn, each under the token it gives. *)
Follow(c, named) ==
    run' = IF \E b \in named : IsConfirmed(b, Served(c, b, TRUE))
           THEN LET b == CHOOSE b \in named : IsConfirmed(b, Served(c, b, TRUE))
                IN [run EXCEPT !.at[c] = 0, !.again = @ \ {c}, !.found[c] = b]
           ELSE Next1(run, c)

Probe(c) ==
    /\ run.at[c] > 0
    /\ LET a == Order(c)[run.at[c]] IN
       IF a = "page" THEN \E named \in Pointers : Follow(c, named)
       ELSE Judge(c, a)
    /\ UNCHANGED <<world, seen, file, report, spent>>

(* fetchThrottled: no answer is asked for once more, an error status is not. *)
ProbeFails(c) ==
    /\ run.at[c] > 0 /\ spent.faults < MaxFaults
    /\ \/ c \notin run.again /\ run' = [run EXCEPT !.again = @ \cup {c}]
       \/ run' = [Next1(run, c) EXCEPT !.steady = FALSE]
    /\ spent' = [spent EXCEPT !.faults = @ + 1]
    /\ UNCHANGED <<world, seen, file, report>>

CloseGroup ==
    /\ run.group # None /\ \A c \in Companies : run.at[c] = 0
    /\ run' = [run EXCEPT !.group = None, !.done[run.group] = Seeds(run, run.group)]
    /\ UNCHANGED <<world, seen, file, report, spent>>

-----------------------------------------------------------------------------
Finished == run.stage = "groups" /\ run.group = None /\ run.todo = {}
Resolved(r, g) == {c \in r.done[g] \ Excluded : r.found[c] # None}
Writes(r) == ~r.dry /\ \E g \in Groups : Resolved(r, g) # {}
(* Mutant of Kept: only what this run went through is written.               *)
KeptOfRun(found) == [c \in Companies |->
    IF c \notin Excluded /\ \E g \in Groups : c \in run.done[g] THEN found[c] ELSE None]
Kept(found) == [c \in Companies |-> IF c \in Excluded THEN None ELSE found[c]]

(* main: a run that resolved nothing leaves the file alone.                  *)
WriteRegistry ==
    /\ Finished
    /\ file' = IF Writes(run) THEN Kept(run.found) ELSE file
    /\ run' = [run EXCEPT !.stage = IF Writes(run) /\ ~run.quiet THEN "report" ELSE "ended"]
    /\ UNCHANGED <<world, seen, report, spent>>

(* writeReport: the section of a group with no outcomes is taken over from   *)
(* the report there is; the YC section is new whenever the group was asked.  *)
(* Mutant of Fresh: every section is made anew from the run's outcomes.      *)
FreshAlways(r, g) == TRUE
Fresh(r, g) == IF g = "yc" THEN "yc" \in r.asked ELSE r.done[g] # {}
WriteReport ==
    /\ run.stage = "report"
    /\ report' = [g \in Groups |-> IF Fresh(run, g)
                                   THEN [listed |-> Resolved(run, g), written |-> spent.runs]
                                   ELSE report[g]]
    /\ run' = [run EXCEPT !.stage = "ended"]
    /\ UNCHANGED <<world, seen, file, spent>>

(* The script ends, or is stopped at any point before that.                  *)
Leave == /\ run.stage # "idle"
         /\ run' = Idle
         /\ UNCHANGED <<world, seen, file, report, spent>>

Next ==
    \/ \E c \in Companies, b \in Boards : Move(c, b)
    \/ \E asked \in (SUBSET Groups) \ {{}}, limit \in 1..2, dry, quiet \in BOOLEAN :
          Start(asked, limit, dry, quiet)
    \/ \E s \in {<<>>} \cup {<<c>> : c \in Listed} : Directory(s)
    \/ DirectoryFails \/ OpenGroup \/ CloseGroup \/ WriteRegistry \/ WriteReport \/ Leave
    \/ \E c \in Companies : Probe(c) \/ ProbeFails(c)

Spec == Init /\ [][Next]_vars

-----------------------------------------------------------------------------
(* Every company of the registry is on a system or not in it.                *)
TypeOK ==
    /\ world \in [Companies -> Boards]
    /\ seen \subseteq Companies \X Systems
    /\ file \in [Companies -> Systems \cup {None}]
    /\ run.stage \in {"idle", "directory", "groups", "report", "ended"}
    /\ run.at \in [Companies -> 0..5]
    /\ run.found \in [Companies -> Systems \cup {None}]

(* No entry was guessed: every company of the registry had a board on that   *)
(* system when it was probed.                                                *)
NeverGuessed == \A c \in Companies : file[c] # None => <<c, file[c]>> \in seen

(* What the registry held when a run began it holds when the run is over,    *)
(* but for a name that is excluded by hand; a dry run changes nothing.       *)
NothingLost ==
    run.stage \in {"report", "ended"} =>
       LET old == run.before[1] IN
       /\ \A c \in Companies \ Excluded : old[c] # None => file[c] = old[c]
       /\ run.dry => file = old

(* A board a token made from the company's name leads to is in the registry  *)
(* after an undisturbed run over the company's group.                        *)
FoundIfNamed ==
    run.stage \in {"report", "ended"} /\ run.steady /\ ~run.dry =>
       \A g \in Groups, c \in Companies \ Excluded :
          c \in run.done[g] /\ world[c].named
            /\ IsConfirmed(world[c].ats, Served(c, world[c].ats, TRUE))
            /\ (\E i \in 1..2 : Flat[i] = world[c].ats)
          => file[c] # None

(* The report says of a group that was not asked for what it said before,    *)
(* and lists as resolved only companies the registry holds.                  *)
SectionsStand ==
    run.stage = "ended" =>
       /\ \A g \in Groups \ run.asked : report[g] = run.before[2][g]
       /\ \A g \in Groups : report[g] # run.before[2][g] =>
             \A c \in report[g].listed : file[c] # None

RegistryIsSound == NeverGuessed /\ NothingLost /\ FoundIfNamed /\ SectionsStand

-----------------------------------------------------------------------------
(* What RegistryIsSound rests on, and what it asks of the constants.         *)
RegistryAssumption ==
    /\ Voice \in Seq(Companies) /\ Studios \in Seq(Companies) /\ Listed \subseteq Companies
    /\ Early \subseteq Companies
    /\ Extra \in Seq(STRING \ {None})

Files == [Companies -> Systems \cup {None}]
Reports == [Groups -> [listed : SUBSET Companies, written : Nat]]
Runs == [stage : {"idle", "directory", "groups", "report", "ended"}, asked : SUBSET Groups,
         limit : Nat, dry : BOOLEAN, quiet : BOOLEAN, todo : SUBSET Groups,
         group : Groups \cup {None}, yc : Seq(Companies), at : [Companies -> Nat],
         again : SUBSET Companies, found : Files, done : [Groups -> SUBSET Companies],
         steady : BOOLEAN, before : {<<>>} \cup (Files \X Reports)]

Typed ==
    /\ world \in [Companies -> Boards] /\ file \in Files /\ report \in Reports
    /\ run \in Runs /\ spent \in [runs : Nat, moves : Nat, faults : Nat]

(* What is known of a board was true once.                                   *)
Seen == \A c \in Companies : \A ats \in {world[c].ats, file[c], run.found[c]} :
           ats # None => <<c, ats>> \in seen

(* The run asks only while it is at a group, and only in the order there is.  *)
InTurn ==
    /\ run.group # None => run.stage = "groups" /\ run.group \in run.asked
    /\ run.group = None => \A c \in Companies : run.at[c] = 0
    /\ \A c \in Companies : /\ run.at[c] <= Len(Order(c))
                            /\ run.at[c] > 0 => run.found[c] = None
    /\ run.todo \subseteq run.asked
    /\ \A g \in Groups : run.done[g] # {} => g \in run.asked /\ run.stage # "directory"

(* Until it writes, the run has all that the registry has.                   *)
Holds ==
    /\ run.stage \in {"directory", "groups"} =>
          /\ run.before = <<file, report>>
          /\ \A c \in Companies : file[c] # None => run.found[c] = file[c]
    /\ run.stage = "report" =>
          ~run.dry /\ file = Kept(run.found) /\ report = run.before[2]

(* A board that a token of the company's name leads to.                      *)
Easy(c) ==
    /\ world[c].named /\ IsConfirmed(world[c].ats, Served(c, world[c].ats, TRUE))
    /\ \E i \in 1..2 : Flat[i] = world[c].ats

(* In an undisturbed run such a board is found or still to be asked for.     *)
WillFind ==
    run.steady /\ run.stage = "groups" =>
       /\ \A g \in Groups : \A c \in run.done[g] \ Excluded : Easy(c) => run.found[c] # None
       /\ run.group # None =>
             \A c \in Seeds(run, run.group) \ Excluded :
                Easy(c) /\ run.found[c] = None =>
                   run.at[c] > 0 /\ \E i \in 1..2 : Flat[i] = world[c].ats /\ run.at[c] <= i

RegistryInv == Typed /\ Seen /\ InTurn /\ Holds /\ WillFind /\ RegistryIsSound

(* The voice-AI section, when a run wrote it, accounts for every seed of the *)
(* group (resolve-companies.ts:771-772).                                     *)
VoiceIsComplete ==
    run.stage = "ended" /\ report["voice"] # run.before[2]["voice"] =>
       run.done["voice"] = First(Voice, Len(Voice))
=============================================================================
