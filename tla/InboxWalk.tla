------------------------------- MODULE InboxWalk -------------------------------
(***************************************************************************)
(* How the applicant's page reads its notifications (load, refresh, need   *)
(* and markRead of inbox/control.ts; getInbox and markInboxRead of         *)
(* questions.ts): the newest few pages, then the own pages of each         *)
(* application that waits on answers and has none of its questions loaded. *)
(* Every page is a transaction of its own, so the feed grows, questions    *)
(* are resolved and notifications read between two pages of one walk.      *)
(*                                                                         *)
(* The feed is kept newest first; a notification is the number it was      *)
(* issued with, and one application has two of its own numbers.            *)
(***************************************************************************)
EXTENDS Integers, Sequences, SequencesExt, FiniteSetsExt

CONSTANTS
    Apps,
    Limit,       \* notifications a page holds (50)
    More,        \* further pages of the whole feed a load reads (4)
    Own,         \* pages of a waiting application's own feed (3)
    MaxEvents, MaxReads, MaxMoves

VARIABLES
    feed,        \* the notifications, newest first
    about,       \* the application of each
    asking,      \* those whose question is open
    read,        \* those marked read
    waiting,     \* the applications that wait on answers, as the page was told
    load,        \* the load under way
    view,        \* what the page shows
    spent

vars == <<feed, about, asking, read, waiting, load, view, spent>>

Events == 1 .. MaxEvents
Empty == [items |-> {}, unread |-> {}, open |-> {}, more |-> FALSE]
NoLoad == [at |-> "none", busy |-> 0, cursor |-> 0, pages |-> 0, app |-> 0, left |-> {},
           got |-> Empty, start |-> <<>>, for |-> {}, had |-> {}]

TypeOK ==
    /\ Range(feed) \subseteq Events /\ Len(feed) = Cardinality(Range(feed))
    /\ asking \subseteq Range(feed) /\ read \subseteq Range(feed)
    /\ waiting \subseteq Apps
    /\ load.at \in {"none", "marking", "feed", "own", "last"}
    /\ load.cursor \in {0} \union Range(feed)
    /\ view.unread \subseteq view.items /\ view.open \subseteq view.items

Init ==
    /\ LET n == MaxEvents - 1
       IN  /\ feed = [i \in 1 .. n |-> n + 1 - i]
           /\ \E f \in [1 .. n -> Apps] : about = [e \in Events |-> IF e <= n THEN f[e] ELSE 0]
    /\ asking = {1}
    /\ read = {} /\ waiting = {} /\ load = NoLoad /\ view = Empty
    /\ spent = [events |-> Len(feed), reads |-> 0, moves |-> 0]

(***************************************************************************)
(* The server.                                                             *)
(***************************************************************************)
\* Mutant of After: the page behind a cursor starts one too late.
AfterNext(cursor, app) ==
    LET behind == IF cursor = 0 THEN feed
                  ELSE SubSeq(feed, 2 + CHOOSE i \in DOMAIN feed : feed[i] = cursor, Len(feed))
    IN  SelectSeq(behind, LAMBDA e : app = 0 \/ about[e] = app)

\* What lies behind the cursor, of one application or (0) of all.
After(cursor, app) ==
    LET behind == IF cursor = 0 THEN feed
                  ELSE SubSeq(feed, CHOOSE i \in DOMAIN feed : feed[i] = cursor, Len(feed))
    IN  SelectSeq(behind, LAMBDA e : e # cursor /\ (app = 0 \/ about[e] = app))

\* A page, and whether the feed goes on behind it.
PageOf(cursor, app) ==
    LET rest == After(cursor, app)
        n == IF Len(rest) < Limit THEN Len(rest) ELSE Limit
        items == {rest[i] : i \in 1 .. n}
    IN  [items |-> items, unread |-> items \ read, open |-> items \intersect asking,
         more |-> Len(rest) > n, last |-> IF n = 0 THEN cursor ELSE rest[n]]

\* A notification is issued: the newest, or just behind the newest when both
\* are of one instant and are ordered by their random numbers.
Notify ==
    /\ spent.events < MaxEvents
    /\ LET e == spent.events + 1
       IN  /\ \E a \in Apps : about' = [about EXCEPT ![e] = a]
           /\ feed' \in {<<e>> \o feed} \union
                        (IF feed = <<>> THEN {} ELSE {<<feed[1], e>> \o Tail(feed)})
           /\ asking' \in {asking, asking \union {e}}
    /\ spent' = [spent EXCEPT !.events = @ + 1]
    /\ UNCHANGED <<read, waiting, load, view>>

Resolve ==
    /\ spent.moves < MaxMoves /\ \E e \in asking : asking' = asking \ {e}
    /\ spent' = [spent EXCEPT !.moves = @ + 1]
    /\ UNCHANGED <<feed, about, read, waiting, load, view>>

(***************************************************************************)
(* The page.                                                               *)
(***************************************************************************)
Begun == [NoLoad EXCEPT !.at = "feed", !.start = feed]

\* Nothing is refreshed while a reading is being marked.
Refresh ==
    /\ load.busy = 0 /\ load' = Begun
    /\ UNCHANGED <<feed, about, asking, read, waiting, view, spent>>

\* The rows name an application that waits; a feed longer than what was loaded
\* is loaded again, unless something is being marked.
Need(a) ==
    /\ a \notin waiting /\ spent.moves < MaxMoves
    /\ waiting' = waiting \union {a}
    /\ load' = IF view.more /\ load.busy = 0 THEN Begun ELSE load
    /\ spent' = [spent EXCEPT !.moves = @ + 1]
    /\ UNCHANGED <<feed, about, asking, read, view>>

\* Mutant of Merged: the page takes the place of what was loaded.
MergedOver(got, page) ==
    [items |-> page.items, unread |-> (got.unread \ page.items) \union page.unread,
     open |-> (got.open \ page.items) \union page.open, more |-> got.more]

Merged(got, page) ==
    [items |-> got.items \union page.items, unread |-> (got.unread \ page.items) \union page.unread,
     open |-> (got.open \ page.items) \union page.open, more |-> got.more]

\* Mutant of Unloaded: an application with anything loaded reads no pages of its own.
UnloadedAny(got) == {a \in waiting : ~\E e \in got.items : about[e] = a}

\* The applications whose own pages are still to be read.
Unloaded(got) == {a \in waiting : ~\E e \in got.open : about[e] = a}

ReadFeed ==
    /\ load.at = "feed"
    /\ LET page == PageOf(load.cursor, 0)
           got == [Merged(load.got, page) EXCEPT !.more = page.more]
           on == page.more /\ load.pages < More
           own == ~on /\ page.more /\ Unloaded(got) # {}
       IN  load' = [load EXCEPT !.got = got, !.pages = IF on THEN @ + 1 ELSE 0,
                        !.cursor = IF on THEN page.last ELSE 0,
                        !.at = IF on THEN "feed" ELSE IF own THEN "own" ELSE "last",
                        !.left = IF own THEN Unloaded(got) ELSE {},
                        !.for = IF on THEN {} ELSE waiting,
                        !.had = IF on THEN {} ELSE asking]
    /\ UNCHANGED <<feed, about, asking, read, waiting, view, spent>>

\* Up to Own pages of each such application.
ReadOwn ==
    /\ load.at = "own"
    /\ \E a \in IF load.app = 0 THEN load.left ELSE {load.app} :
          LET page == PageOf(load.cursor, a)
              on == page.more /\ load.pages + 1 < Own
              left == IF on THEN load.left ELSE load.left \ {a}
          IN  load' = [load EXCEPT !.got = Merged(load.got, page), !.left = left,
                           !.app = IF on THEN a ELSE 0, !.pages = IF on THEN @ + 1 ELSE 0,
                           !.cursor = IF on THEN page.last ELSE 0,
                           !.at = IF left = {} THEN "last" ELSE "own"]
    /\ UNCHANGED <<feed, about, asking, read, waiting, view, spent>>

\* The account is asserted once more, and the page shows what was loaded.
Finish ==
    /\ load.at = "last"
    /\ view' = load.got
    /\ load' = NoLoad
    /\ UNCHANGED <<feed, about, asking, read, waiting, spent>>

\* A reading is marked: it overtakes the load under way, and one follows it.
Overtakes == [NoLoad EXCEPT !.at = "marking"]
Mark(e) ==
    /\ load.busy = 0 /\ e \in view.unread /\ spent.reads < MaxReads
    /\ load' = [Overtakes EXCEPT !.busy = e]
    /\ spent' = [spent EXCEPT !.reads = @ + 1]
    /\ UNCHANGED <<feed, about, asking, read, waiting, view>>

Marked ==
    /\ load.at = "marking"
    /\ read' = read \union {load.busy}
    /\ load' = [Begun EXCEPT !.busy = load.busy]
    /\ UNCHANGED <<feed, about, asking, waiting, view, spent>>

\* A request fails, or the marking itself does, carried out or not.
Fails ==
    /\ load.at # "none" /\ spent.moves < MaxMoves
    /\ load' = NoLoad
    /\ read' \in {read, IF load.at = "marking" THEN read \union {load.busy} ELSE read}
    /\ spent' = [spent EXCEPT !.moves = @ + 1]
    /\ UNCHANGED <<feed, about, asking, waiting, view>>

Next ==
    \/ Notify \/ Resolve \/ Refresh \/ ReadFeed \/ ReadOwn \/ Finish \/ Marked \/ Fails
    \/ \E a \in Apps : Need(a)
    \/ \E e \in Events : Mark(e)

Spec == Init /\ [][Next]_vars

(***************************************************************************)
(* Properties.                                                             *)
(***************************************************************************)
\* What the walk of the whole feed reached has no gap: every notification that
\* was there when the load began, and is among the newest it could hold, is in.
Reach == (More + 1) * Limit
WalkIsWhole ==
    load.at \in {"own", "last"} =>
        \A i \in DOMAIN load.start :
            i <= Reach - (Len(feed) - Len(load.start)) => load.start[i] \in load.got.items

\* A waiting application whose open question is among its newest own pages has
\* one loaded (control.ts:189: "a waiting application with none of its
\* questions loaded reads its own, so Answer still works").
WaitingIsLoaded ==
    load.at = "last" =>
        \A a \in load.for :
            LET own == SelectSeq(load.start, LAMBDA e : about[e] = a)
                near == {own[i] : i \in {k \in DOMAIN own :
                            k <= Own * Limit - (Len(feed) - Len(load.start))}}
            IN  near \intersect load.had # {} => 
                    \E e \in load.got.items : about[e] = a /\ e \in load.had \union load.got.open

\* A notification that was acknowledged as read is never shown unread again by
\* a load that began before it.
ReadStaysRead == load.at = "last" /\ load.busy # 0 => load.busy \notin load.got.unread

WalkIsSound == WalkIsWhole /\ WaitingIsLoaded /\ ReadStaysRead

================================================================================
