------------------------------- MODULE NoteDraft -------------------------------
(***************************************************************************)
(* A note drawn on the board and saved while it is written (board.tsx,     *)
(* storage.ts, api/notes): the draft in the page and in the browser's      *)
(* storage, the autosave's timer, the saves under way, and the rows.  A    *)
(* request outlives the page that sent it.                                 *)
(***************************************************************************)
EXTENDS Naturals, FiniteSets, FiniteSetsExt

CONSTANTS
    Keys, Texts,            \* client keys, 1..n; what a note may say
    MaxTyped, MaxFaults     \* bounds: edits; answers lost and reloads

None == 0
Blank == "blank"
NoDraft == [key |-> None, text |-> Blank, week |-> 0]
NoRow == [id |-> 0, key |-> None, text |-> Blank, week |-> 0]

VARIABLES
    page,       \* the open board: its week, the draft, and what runs for it
    saves,      \* the saves under way
    rows,       \* the notes of the database
    kept,       \* the new note in the browser's storage
    week,       \* the week it is
    history,    \* every text typed for a key; the last, if not discarded; deleted;
                \* late, the notes last changed by a request whose page was left
    bounds

vars == <<page, saves, rows, kept, week, history, bounds>>

FreshPage(w, draft) ==
    [week |-> w, draft |-> draft, id |-> 0, flight |-> None, waits |-> FALSE,
     error |-> FALSE, shown |-> {},
     timer |-> IF draft.text = Blank THEN NoDraft ELSE draft]

Init ==
    /\ page = FreshPage(1, NoDraft)
    /\ saves = {} /\ rows = {}
    /\ kept = NoDraft
    /\ week = 1
    /\ history = [said |-> [k \in Keys |-> {}], last |-> NoDraft, deleted |-> {},
                 late |-> {}]
    /\ bounds = [typed |-> 0, ids |-> 0, faults |-> 0]

Used == {k \in Keys : history.said[k] # {}}
RowOf(k) == {r \in rows : r.key = k}
Holds(p, k) == k # None /\ p.draft.key = k
Closed(p) == [p EXCEPT !.draft = NoDraft, !.id = 0]

-----------------------------------------------------------------------------
\* A save's first request: the note is made, or changed if it has an id.
Begun(p, d, keep) ==
    [key |-> d.key, keep |-> keep, id |-> p.id, sends |-> d.text,
     step |-> "first", status |-> "out", answer |-> NoRow]
Flying(p, d) == [p EXCEPT !.flight = d.key]

Draw(k) ==
    /\ page.draft = NoDraft /\ k = Cardinality(Used) + 1
    /\ LET d == [key |-> k, text |-> Blank, week |-> page.week]
       IN /\ page' = [page EXCEPT !.draft = d, !.error = FALSE]
          /\ kept' = d
          /\ history' = [history EXCEPT !.said[k] = {Blank}, !.last = NoDraft]
    /\ UNCHANGED <<saves, rows, week, bounds>>

Type(t) ==
    /\ page.draft # NoDraft /\ t # page.draft.text /\ bounds.typed < MaxTyped
    /\ LET d == [page.draft EXCEPT !.text = t]
       IN /\ page' = [page EXCEPT !.draft = d, !.timer = IF t = Blank THEN NoDraft ELSE d]
          /\ kept' = d
          /\ history' = [history EXCEPT !.said[d.key] = @ \cup {t}, !.last = d]
    /\ bounds' = [bounds EXCEPT !.typed = @ + 1]
    /\ UNCHANGED <<saves, rows, week>>

\* The pause after typing is over; a save of the same draft under way is left to it.
TimerFires ==
    /\ page.timer # NoDraft
    /\ LET p == [page EXCEPT !.timer = NoDraft]
       IN IF page.flight = page.timer.key
          THEN page' = p /\ UNCHANGED saves
          ELSE /\ page' = Flying(p, page.timer)
               /\ saves' = saves \cup {Begun(p, page.timer, TRUE)}
    /\ UNCHANGED <<rows, kept, week, history, bounds>>

Gone(s) == s.step = "gone"
Committing == page.waits \/ \E s \in saves : ~Gone(s) /\ Holds(page, s.key) /\ ~s.keep

\* Done, or Enter: the draft is saved and the editor closed; a save of it under
\* way comes first.
Done ==
    /\ page.draft # NoDraft /\ page.draft.text # Blank /\ ~Committing
    /\ IF page.flight = page.draft.key
       THEN page' = [page EXCEPT !.waits = TRUE] /\ UNCHANGED saves
       ELSE /\ page' = Flying(page, page.draft)
            /\ saves' = saves \cup {Begun(page, page.draft, FALSE)}
    /\ UNCHANGED <<rows, kept, week, history, bounds>>

\* Esc, or Done with nothing written.
Cancel ==
    /\ page.draft # NoDraft
    /\ page' = [Closed(page) EXCEPT !.timer = NoDraft, !.error = FALSE, !.waits = FALSE]
    /\ kept' = IF kept.key = page.draft.key THEN NoDraft ELSE kept
    /\ history' = [history EXCEPT !.last = NoDraft]
    /\ UNCHANGED <<saves, rows, week, bounds>>

-----------------------------------------------------------------------------
\* Mutant of Made: the row is made without regard to the client's key.
MadeAgain(s) == TRUE

\* A POST finds the note of its key, and makes one only if there is none.
Made(s) == RowOf(s.key) = {}

\* Whose page is gone is told nothing.
Replaced(s, t) == saves' = (saves \ {s}) \cup (IF Gone(s) THEN {} ELSE {t})
Answered(s, row) == Replaced(s, [s EXCEPT !.status = "done", !.answer = row])
Refused(s) == Replaced(s, [s EXCEPT !.status = "refused", !.answer = NoRow])

\* The routes of a note: POST, and PATCH of a note of this week.
ServePost(s) ==
    /\ s \in saves /\ s.status = "out" /\ s.id = 0
    /\ IF Made(s)
       THEN LET r == [id |-> bounds.ids + 1, key |-> s.key, text |-> s.sends, week |-> week]
            IN rows' = rows \cup {r} /\ Answered(s, r) /\ bounds' = [bounds EXCEPT !.ids = @ + 1]
       ELSE /\ \E r \in RowOf(s.key) : Answered(s, r)
            /\ UNCHANGED <<rows, bounds>>
    /\ UNCHANGED <<page, kept, week, history>>

ServePatch(s) ==
    /\ s \in saves /\ s.status = "out" /\ s.id # 0
    /\ \/ \E r \in rows : LET changed == [r EXCEPT !.text = s.sends]
                          IN /\ r.id = s.id /\ r.week = week
                             /\ rows' = (rows \ {r}) \cup {changed}
                             /\ history' = [history EXCEPT !.late =
                                               IF Gone(s) THEN @ \cup {r.key} ELSE @ \ {r.key}]
                             /\ Answered(s, changed)
       \/ /\ \A r \in rows : r.id = s.id => r.week # week
          /\ Refused(s)
          /\ UNCHANGED <<rows, history>>
    /\ UNCHANGED <<page, kept, week, bounds>>

\* The answer is lost, or the request was never served.
Lost(s) ==
    /\ s \in saves /\ s.status # "refused" /\ ~Gone(s) /\ bounds.faults < MaxFaults
    /\ Refused(s)
    /\ bounds' = [bounds EXCEPT !.faults = @ + 1]
    /\ UNCHANGED <<page, rows, kept, week, history>>

-----------------------------------------------------------------------------
\* Mutant of Attaches: an answer binds to whatever draft is there.
AttachesAnyway(s) == page.draft # NoDraft

\* An answer binds only to the draft that asked (shouldAttachServerId).
Attaches(s) == Holds(page, s.key)

\* Mutant of Closes: the editor closes on the answer, whatever was typed since.
ClosesAnyway(p, s) == Holds(p, s.key) /\ ~s.keep

\* The editor closes when the row says what the draft says.
Closes(p, s) == Holds(p, s.key) /\ ~s.keep /\ p.draft.text = s.answer.text

\* What is left of a save once it is over: a newer text is saved after a pause,
\* and a Done that waited saves now.
Landed(p, s) == [p EXCEPT !.flight = IF @ = s.key THEN None ELSE @,
                          !.waits = @ /\ ~Holds(p, s.key)]
Waited(p, s) == p.waits /\ Holds(p, s.key)

Concluded(p, s) ==
    LET again == Holds(p, s.key) /\ p.draft.text \notin {s.answer.text, Blank}
        on == [Landed(p, s) EXCEPT !.shown = @ \cup {s.answer.id},
                  !.error = @ /\ ~Holds(p, s.key),
                  !.timer = IF again THEN p.draft ELSE @]
        open == IF Closes(p, s) THEN Closed(on) ELSE on
    IN /\ kept' = IF Closes(p, s) /\ kept.key = s.key THEN NoDraft ELSE kept
       /\ IF Waited(p, s) /\ open.draft.text # Blank
          THEN /\ page' = Flying(open, open.draft)
               /\ saves' = (saves \ {s}) \cup {Begun(open, open.draft, FALSE)}
          ELSE page' = open /\ saves' = saves \ {s}

\* The first answer: the draft learns its id, and a text typed meanwhile follows.
TakeFirst(s) ==
    /\ s \in saves /\ s.step = "first" /\ s.status = "done"
    /\ LET p == IF Attaches(s) THEN [page EXCEPT !.id = s.answer.id] ELSE page
       IN IF Holds(p, s.key) /\ p.draft.text \notin {s.answer.text, Blank}
          THEN /\ page' = p
               /\ saves' = (saves \ {s}) \cup {[s EXCEPT !.step = "second", !.status = "out",
                                                   !.id = s.answer.id, !.sends = p.draft.text]}
               /\ UNCHANGED kept
          ELSE Concluded(p, s)
    /\ UNCHANGED <<rows, week, history, bounds>>

TakeSecond(s) ==
    /\ s \in saves /\ s.step = "second" /\ s.status = "done"
    /\ Concluded(page, s)
    /\ UNCHANGED <<rows, week, history, bounds>>

TakeRefusal(s) ==
    /\ s \in saves /\ s.status = "refused"
    /\ saves' = saves \ {s}
    /\ page' = [Landed(page, s) EXCEPT !.error = @ \/ Holds(page, s.key)]
    /\ UNCHANGED <<rows, kept, week, history, bounds>>

-----------------------------------------------------------------------------
\* A note on the board, other than the draft's own, is deleted for good.
Delete(id) ==
    /\ id \in page.shown \ {page.id}
    /\ \E r \in rows : /\ r.id = id /\ r.week = week
                       /\ rows' = rows \ {r}
                       /\ history' = [history EXCEPT !.deleted = @ \cup {r.key}]
    /\ page' = [page EXCEPT !.shown = @ \ {id}]
    /\ UNCHANGED <<saves, kept, week, bounds>>

\* The page is loaded again: what it had asked for may still be served.
Reload ==
    /\ bounds.faults < MaxFaults
    /\ page' = [FreshPage(week, IF kept.week = week THEN kept ELSE NoDraft) EXCEPT
                   !.shown = {r.id : r \in {x \in rows : x.week = week}}]
    /\ saves' = {[s EXCEPT !.step = "gone"] : s \in {x \in saves : x.status = "out"}}
    /\ bounds' = [bounds EXCEPT !.faults = @ + 1]
    /\ UNCHANGED <<rows, kept, week, history>>

NextWeek ==
    /\ week = 1 /\ week' = 2
    /\ UNCHANGED <<page, saves, rows, kept, history, bounds>>

Next ==
    \/ \E k \in Keys : Draw(k)
    \/ \E t \in Texts \cup {Blank} : Type(t)
    \/ TimerFires \/ Done \/ Cancel
    \/ \E s \in saves : ServePost(s) \/ ServePatch(s) \/ Lost(s)
                        \/ TakeFirst(s) \/ TakeSecond(s) \/ TakeRefusal(s)
    \/ \E id \in 1..bounds.ids : Delete(id)
    \/ Reload \/ NextWeek

Spec == Init /\ [][Next]_vars

-----------------------------------------------------------------------------
\* Every variable keeps its type; one save at most is that of the draft.
TypeOK ==
    /\ page.draft.key \in Keys \cup {None} /\ page.flight \in Keys \cup {None}
    /\ kept.key \in Keys \cup {None} /\ week \in 1..2
    /\ \A r \in rows : r.key \in Keys /\ r.text \in Texts
    /\ Cardinality({s \in saves : ~Gone(s) /\ Holds(page, s.key)}) <= 1

\* Whatever is retried, a draft has one note.
OneCopy == \A r, s \in rows : r.key = s.key => r = s

\* A note says only what was written for it, whichever answer came late.
OwnText == \A r \in rows : r.text \in history.said[r.key]

\* What was typed last and not discarded is in the database or in the storage.  It is
\* not: what a page had on its way when it was left may be written over it (README.md).
NothingLostAnyway ==
    LET d == history.last
    IN \/ d.text = Blank
       \/ kept = d
       \/ \E r \in rows : r.key = d.key /\ r.text = d.text
       \/ d.key \in history.deleted

\* Only so is it lost.
NothingLost == NothingLostAnyway \/ history.last.key \in history.late

\* What a draft on the screen says is saved, about to be, or reported unsaved, unless
\* it was written over so.
SavedOrSaving ==
    \/ page.draft.text = Blank
    \/ page.error \/ page.timer # NoDraft \/ page.flight = page.draft.key
    \/ \E r \in rows : r.key = page.draft.key /\ (r.text = page.draft.text \/ r.key \in history.late)
    \/ \A r \in rows : r.id = page.id => r.week # week

\* The board keeps what is written on it, but for what a page that was left had on its way.
DraftsSafe == OneCopy /\ OwnText /\ NothingLost /\ SavedOrSaving

\* A deleted note stays deleted (board.tsx: "delete means delete").
DeletedStaysDeleted == \A r \in rows : r.key \notin history.deleted
=============================================================================
