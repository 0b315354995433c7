-------------------------------- MODULE NoteLane --------------------------------
(***************************************************************************)
(* A note of the board edited in place (board.tsx, NoteCard; autosave.ts,  *)
(* DeferredEditWriter): the text on the screen, the one kept in the        *)
(* browser's storage, the lanes that write it and the row they write.  A   *)
(* request outlives the lane and the page that sent it.                    *)
(***************************************************************************)
EXTENDS Naturals, Sequences, FiniteSets, SequencesExt

CONSTANTS
    Texts,                          \* what the note may say
    MaxLanes, MaxTyped, MaxFaults   \* bounds: lanes; edits; answers lost and reloads

Blank == "blank"
Absent == "absent"

VARIABLES
    row,        \* the text of the note in the database
    open,       \* whether its week is on
    card,       \* the note's card in the page
    kept,       \* the edit in the browser's storage
    lanes,      \* the lanes ever made since the page was loaded
    sent,       \* the requests on their way
    last,       \* history: what was typed last and not discarded
    writes,     \* history: lanes made, the newest that wrote, if an older came after it
    bounds

vars == <<row, open, card, kept, lanes, sent, last, writes, bounds>>

NewLane(text, known, no) ==
    [ack |-> text, want |-> text, flying |-> Absent, timer |-> FALSE, failed |-> FALSE,
     flush |-> FALSE, disposed |-> FALSE, known |-> known, no |-> no]
Needs(l) == l.want # Blank /\ l.want # l.ack
Scheduled(l) == IF l.disposed \/ ~Needs(l) THEN l ELSE [l EXCEPT !.timer = TRUE]
Wanting(l, text) == Scheduled([l EXCEPT !.want = text, !.failed = FALSE])

\* The card as the page loads: a kept edit opens the editor and is written.  What the
\* page had on its way may still be served.
FreshCard(text, edit) ==
    /\ card' = [shown |-> text, editing |-> edit # Absent, error |-> FALSE,
                draft |-> IF edit = Absent THEN text ELSE edit]
    /\ lanes' = IF edit = Absent THEN <<>>
                ELSE <<Wanting(NewLane(text, TRUE, writes.made + 1), edit)>>
    /\ writes' = IF edit = Absent THEN writes ELSE [writes EXCEPT !.made = @ + 1]
    /\ LET out == SelectSeq(sent, LAMBDA m : m.status = "out")
       IN sent' = [n \in 1..Len(out) |-> [out[n] EXCEPT !.lane = 0]]

Init ==
    /\ row \in Texts
    /\ open = TRUE
    /\ card = [shown |-> row, editing |-> FALSE, error |-> FALSE, draft |-> row]
    /\ kept = Absent
    /\ lanes = <<>> /\ sent = <<>>
    /\ last = Absent /\ writes = [made |-> 0, newest |-> 0, late |-> FALSE]
    /\ bounds = [typed |-> 0, faults |-> 0]

Live == {i \in 1..Len(lanes) : ~lanes[i].disposed}
Busy(i) == lanes[i].flying # Absent
\* The lane of the card, made from what the card shows when there is none.  (History:
\* known, that this was the row's text, and the lane was told of all that was written.)
WithLane ==
    IF Live # {} THEN lanes
    ELSE Append(lanes, NewLane(card.shown, card.shown = row, writes.made + 1))
LaneMade == writes' = IF Live # {} THEN writes ELSE [writes EXCEPT !.made = @ + 1]
HasLane == Live # {} \/ Len(lanes) < MaxLanes

-----------------------------------------------------------------------------
\* A kept edit is tried once more when the editor opens; none is kept after a save.
Edit ==
    /\ ~card.editing
    /\ card' = [card EXCEPT !.editing = TRUE, !.draft = card.shown]
    /\ IF kept \in {Absent, Blank} THEN UNCHANGED <<lanes, writes>>
       ELSE /\ HasLane /\ LaneMade
            /\ lanes' = [WithLane EXCEPT ![Len(WithLane)] = Scheduled([@ EXCEPT !.failed = FALSE])]
    /\ UNCHANGED <<row, open, kept, sent, last, bounds>>

Type(t) ==
    /\ card.editing /\ t # card.draft /\ bounds.typed < MaxTyped /\ HasLane
    /\ card' = [card EXCEPT !.draft = t, !.error = FALSE]
    /\ kept' = t /\ last' = t /\ LaneMade
    /\ lanes' = [WithLane EXCEPT ![Len(WithLane)] = Wanting(@, t)]
    /\ bounds' = [bounds EXCEPT !.typed = @ + 1]
    /\ UNCHANGED <<row, open, sent>>

\* Done, or Enter: everything is written before the editor closes.
Done ==
    /\ card.editing /\ card.draft # Blank /\ HasLane
    /\ ~\E i \in Live : lanes[i].flush
    /\ LaneMade
    /\ lanes' = [WithLane EXCEPT ![Len(WithLane)] =
                    [Wanting(@, card.draft) EXCEPT !.flush = TRUE, !.timer = FALSE]]
    /\ UNCHANGED <<row, open, card, kept, sent, last, bounds>>

\* Esc, or Done with nothing written: the lane goes, not what it has on the way.
Cancel ==
    /\ card.editing
    /\ card' = [card EXCEPT !.editing = FALSE, !.draft = card.shown]
    /\ kept' = Absent /\ last' = Absent
    /\ lanes' = [i \in 1..Len(lanes) |-> [lanes[i] EXCEPT !.disposed = TRUE, !.timer = FALSE]]
    /\ UNCHANGED <<row, open, sent, writes, bounds>>

-----------------------------------------------------------------------------
\* (History: late, that an older lane wrote after a newer one wrote, or was answered
\* or closed the editor when there was a newer one.)
Wrote(m) == [writes EXCEPT !.late = @ \/ m.no < writes.newest,
                           !.newest = IF m.no < @ THEN @ ELSE m.no]
Told(m) == [writes EXCEPT !.late = @ \/ m.no < writes.made]

Request(i, text) == [lane |-> i, no |-> lanes[i].no, text |-> text, status |-> "out"]
Started(l) == [l EXCEPT !.flying = l.want, !.timer = FALSE]

\* A lane sends its text when its pause is over, or at once to be flushed.
Start(i) ==
    /\ lanes[i].timer \/ lanes[i].flush
    /\ ~Busy(i) /\ Needs(lanes[i])
    /\ lanes' = [lanes EXCEPT ![i] = Started(@)]
    /\ sent' = Append(sent, Request(i, lanes[i].want))
    /\ UNCHANGED <<row, open, card, kept, last, writes, bounds>>

\* A timer that finds nothing to do, or a request on its way that it leaves the text to.
TimerIdles(i) ==
    /\ lanes[i].timer /\ (Busy(i) \/ ~Needs(lanes[i]))
    /\ lanes' = [lanes EXCEPT ![i].timer = FALSE]
    /\ UNCHANGED <<row, open, card, kept, sent, last, writes, bounds>>

Flushed(i) ==
    /\ lanes[i].flush /\ ~Busy(i) /\ ~Needs(lanes[i])
    /\ lanes' = [lanes EXCEPT ![i].flush = FALSE]
    /\ card' = [card EXCEPT !.editing = FALSE]
    /\ writes' = Told(lanes[i])
    /\ UNCHANGED <<row, open, kept, sent, last, bounds>>

\* The PATCH of a note is refused once its week is over; whoever is gone is not told.
Serve(n) ==
    /\ n \in 1..Len(sent) /\ sent[n].status = "out"
    /\ LET m == sent[n]
       IN /\ row' = IF open THEN m.text ELSE row
          /\ sent' = IF m.lane = 0 THEN RemoveAt(sent, n)
                     ELSE [sent EXCEPT ![n].status = IF open THEN "done" ELSE "refused"]
          /\ IF open
             THEN /\ writes' = Wrote(m)
                  /\ lanes' = [i \in 1..Len(lanes) |->
                                 [lanes[i] EXCEPT !.known = @ /\ lanes[i].no = m.no]]
             ELSE UNCHANGED <<writes, lanes>>
    /\ UNCHANGED <<open, card, kept, last, bounds>>

Lost(n) ==
    /\ n \in 1..Len(sent) /\ sent[n].status # "refused" /\ bounds.faults < MaxFaults
    /\ sent[n].lane # 0
    /\ sent' = [sent EXCEPT ![n].status = "refused"]
    /\ lanes' = [lanes EXCEPT ![sent[n].lane].known = @ /\ sent[n].status = "out"]
    /\ bounds' = [bounds EXCEPT !.faults = @ + 1]
    /\ UNCHANGED <<row, open, card, kept, last, writes>>

\* Mutant of GoesOn: nothing follows a request that was on its way.
GoesOnNever(l) == FALSE

\* What was typed while a request was on its way is sent next.
GoesOn(l) == ~l.disposed /\ ~l.failed /\ Needs(l)

\* Mutant of Clears: the kept edit goes with any answer.
ClearsAlways(text) == TRUE

\* The kept edit goes with the answer to the text on the screen.
Clears(text) == card.draft = text

Settled(n, l) ==
    LET i == sent[n].lane
        rest == RemoveAt(sent, n)
    IN IF GoesOn(l)
       THEN /\ lanes' = [lanes EXCEPT ![i] = Started(l)]
            /\ sent' = Append(rest, Request(i, l.want))
       ELSE lanes' = [lanes EXCEPT ![i] = l] /\ sent' = rest

\* Mutant of Acknowledged: the answer passes for one to the newest text.
AcknowledgedNewest(l, text) == [l EXCEPT !.ack = l.want, !.flying = Absent]

Acknowledged(l, text) == [l EXCEPT !.ack = text, !.flying = Absent]

TakeAnswer(n) ==
    /\ n \in 1..Len(sent) /\ sent[n].status = "done"
    /\ card' = [card EXCEPT !.shown = sent[n].text, !.error = FALSE]
    /\ kept' = IF Clears(sent[n].text) THEN Absent ELSE kept
    /\ writes' = Told(sent[n])
    /\ Settled(n, Acknowledged(lanes[sent[n].lane], sent[n].text))
    /\ UNCHANGED <<row, open, last, bounds>>

\* A failure stops the lane only if nothing newer was typed; a flush ends with it.
TakeRefusal(n) ==
    /\ n \in 1..Len(sent) /\ sent[n].status = "refused"
    /\ card' = [card EXCEPT !.error = TRUE]
    /\ LET l == lanes[sent[n].lane]
       IN Settled(n, [l EXCEPT !.failed = @ \/ l.want = sent[n].text,
                               !.flying = Absent, !.flush = FALSE])
    /\ UNCHANGED <<row, open, kept, last, writes, bounds>>

-----------------------------------------------------------------------------
Reload ==
    /\ bounds.faults < MaxFaults /\ open
    /\ FreshCard(row, kept)
    /\ bounds' = [bounds EXCEPT !.faults = @ + 1]
    /\ UNCHANGED <<row, open, kept, last>>

WeekEnds ==
    /\ open /\ open' = FALSE
    /\ UNCHANGED <<row, card, kept, lanes, sent, last, writes, bounds>>

Next ==
    \/ Edit \/ Done \/ Cancel \/ Reload \/ WeekEnds
    \/ \E t \in Texts \cup {Blank} : Type(t)
    \/ \E i \in 1..Len(lanes) : Start(i) \/ TimerIdles(i) \/ Flushed(i)
    \/ \E n \in 1..Len(sent) : Serve(n) \/ Lost(n) \/ TakeAnswer(n) \/ TakeRefusal(n)

Spec == Init /\ [][Next]_vars

-----------------------------------------------------------------------------
\* Every variable keeps its type; a lane has one request on its way at most.
TypeOK ==
    /\ row \in Texts /\ kept \in Texts \cup {Blank, Absent}
    /\ Cardinality(Live) <= 1
    /\ \A i \in 1..Len(lanes) : Cardinality({n \in 1..Len(sent) : sent[n].lane = i}) <= 1

AtRest(i) ==
    /\ \A j \in 1..Len(lanes) : ~Busy(j)
    /\ LET l == lanes[i]
       IN ~l.timer /\ ~l.flush /\ ~l.failed /\ l.want # Blank

\* What was typed last and not discarded is in the database or in the storage.  It
\* is not: what an older lane had on its way when it was discarded, or its page was
\* loaded again, may be written over it (README.md).
EditKeptAnyway == last \in {Absent, Blank, row, kept}

\* Only so is it lost: an older lane was served or answered when there was a newer one.
EditKept == EditKeptAnyway \/ writes.late

\* A lane at rest that did not fail has the newest text in the database.  It need
\* not, when somebody else wrote the note, or the answer to a write was lost (README.md).
LaneLandsAnyway == \A i \in Live : AtRest(i) => row = lanes[i].want

\* A lane that was told of all that was written has, however the text was typed back
\* and forth (autosave.ts: "returning to A must queue A").
LaneLands == \A i \in Live : AtRest(i) /\ lanes[i].known => row = lanes[i].want

\* An edit of a note is lost to an older lane only, and a lane ends with what it wants.
EditsSafe == EditKept /\ LaneLands
=============================================================================
