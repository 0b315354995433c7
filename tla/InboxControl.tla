------------------------------ MODULE InboxControl ------------------------------
(***************************************************************************)
(* The private state of the page that answers questions (inbox/control.ts, *)
(* with DraftVault of profile-drafts.ts): one question of one applicant,   *)
(* in pages of one browser.  A command stays pending, on screen and in the *)
(* browser's storage, until its outcome is known; the account of the       *)
(* browser may change at any time.  The draft key does not rotate here.    *)
(***************************************************************************)
EXTENDS Naturals, FiniteSets

CONSTANTS
    Pages,          \* 1, 2, ...: the times the page is opened
    Texts,          \* 1, 2, ...: what the applicant types, named as it is first typed
    Together,       \* a page may be open beside another
    MaxTyped, MaxCommands, MaxMoves, MaxFaults

None == "none"
Me == "me"
Other == "other"

VARIABLES
    question,   \* its revision, and the commands carried out
    account,    \* who is signed in
    page,       \* the pages' views and their operation under way
    slot,       \* the encrypted drafts in the browser's storage
    storing,    \* per page, the draft being encrypted: <<>> or one
    retiring,   \* per page, the slot a recovered draft came from
    net,        \* the commands ever sent
    early,      \* history: of these, the ones sent and not yet stored
    amid,       \* history: what came up in a page while a batch was under way
    told,       \* history: the commands whose outcome some page was told
    refused,    \* history: of these, the ones told to be refused
    bounds

vars == <<question, account, page, slot, storing, retiring, net, early, amid, told, refused,
          bounds>>

Slots == 1..(Cardinality(Pages) + MaxMoves)
NoDraft == [text |-> 0, dirty |-> FALSE, base |-> 0]
NoCommand == [id |-> 0, kind |-> None, rev |-> 0, text |-> 0]
NoSnapshot == [draft |-> NoDraft, pending |-> NoCommand]
Idle == [kind |-> None, command |-> NoCommand, over |-> FALSE]

\* initialView: nothing known, no owner, and no vault (its slot is 0).
View(at) ==
    [at |-> at, owner |-> None, locked |-> TRUE, busy |-> FALSE, known |-> 0,
     draft |-> NoDraft, pending |-> NoCommand, op |-> Idle, vault |-> 0, found |-> {}]

Init ==
    /\ question = [rev |-> 0, done |-> {}]
    /\ account = Me
    /\ page = [p \in Pages |-> View("unopened")]
    /\ slot = [s \in Slots |-> NoSnapshot]
    /\ storing = [p \in Pages |-> <<>>]
    /\ retiring = [p \in Pages |-> <<>>]
    /\ net = {} /\ early = {} /\ amid = {} /\ told = {} /\ refused = {}
    /\ bounds = [typed |-> 0, commands |-> 0, moves |-> 0, faults |-> 0, vaults |-> 0]

Open(p) == page[p].at = "open"
Snapshot(v) == [draft |-> v.draft, pending |-> v.pending]
Worth(d) == d.pending # NoCommand \/ d.draft.dirty
\* A save of the view: an older one under way is overtaken and stores nothing.
Persisted(p, v) ==
    /\ page' = [page EXCEPT ![p] = v]
    /\ storing' = IF v.vault # 0 THEN [storing EXCEPT ![p] = <<Snapshot(v)>>] ELSE storing
    /\ retiring' = IF v.vault # 0 THEN [retiring EXCEPT ![p] = <<>>] ELSE retiring
\* Mutant of Cleared: another account is shown what was there.
ClearedNothing(p, owner) ==
    /\ page' = [page EXCEPT ![p] = [@ EXCEPT !.owner = owner, !.op = Idle, !.busy = FALSE]]
    /\ UNCHANGED <<storing, retiring>>
\* clearOwner: the view starts over; its vault is closed.
Cleared(p, owner) ==
    /\ page' = [page EXCEPT ![p] = [View("open") EXCEPT !.owner = owner]]
    /\ storing' = [storing EXCEPT ![p] = <<>>]
    /\ retiring' = [retiring EXCEPT ![p] = <<>>]
Over(v) == [v EXCEPT !.op = Idle, !.busy = FALSE]

-----------------------------------------------------------------------------
OpenPage(p) ==
    /\ page[p].at = "unopened" /\ \A o \in Pages : o < p => page[o].at # "unopened"
    /\ Together \/ \A o \in Pages : ~Open(o)
    /\ page' = [page EXCEPT ![p].at = "open"]
    /\ UNCHANGED <<question, account, slot, storing, retiring, net, early, amid, told, refused, bounds>>

\* refresh: the account, the vault and the questions; an account that is not
\* the page's starts over.  A vault writes to a slot of its own.
Refresh(p) ==
    LET v == page[p]
        opens == v.vault = 0 /\ account = Me
        found == {<<o, slot[o]>> : o \in {s \in Slots : Worth(slot[s])}}
    IN /\ Open(p) /\ ~v.busy
       /\ IF v.owner \notin {None, account}
          THEN Cleared(p, account) /\ UNCHANGED bounds
          ELSE /\ page' = [page EXCEPT ![p] =
                    [v EXCEPT !.owner = account, !.locked = FALSE,
                              !.vault = IF opens THEN bounds.vaults + 1 ELSE v.vault,
                              !.known = IF account = Me THEN question.rev ELSE 0,
                              !.found = IF opens THEN found ELSE v.found]]
               /\ bounds' = [bounds EXCEPT !.vaults = @ + (IF opens THEN 1 ELSE 0)]
               /\ UNCHANGED <<storing, retiring>>
       /\ UNCHANGED <<question, account, slot, net, early, amid, told, refused>>

\* suspend and offline give up what is under way, whatever it was.
GiveUp(p, locked) ==
    /\ Open(p) /\ bounds.faults < MaxFaults
    /\ page' = [page EXCEPT ![p] = [Over(@) EXCEPT !.locked = @ \/ locked]]
    /\ bounds' = [bounds EXCEPT !.faults = @ + 1]
    /\ UNCHANGED <<question, account, slot, storing, retiring, net, early, amid, told, refused>>

Batches(C) == {c \in C : c.kind = "batch"}
\* The batch under way on a page, with a text that comes up in its draft.
Amid(p, x) == {<<c, x>> : c \in {page[p].op.command} \cap Batches(net)}
\* An edit is taken whatever is under way, and its save overtakes an older one.
Edit(p, x) ==
    LET v == page[p]
    IN /\ Open(p) /\ ~v.locked /\ v.owner = Me /\ x # v.draft.text /\ x <= bounds.typed + 1
       /\ bounds.typed < MaxTyped
       /\ Persisted(p, [v EXCEPT !.draft = [text |-> x, dirty |-> TRUE,
                                            base |-> IF @.text = 0 THEN v.known ELSE @.base],
                                 !.op.over = v.op.kind = "persist"])
       /\ bounds' = [bounds EXCEPT !.typed = @ + 1]
       /\ amid' = amid \cup Amid(p, x)
       /\ UNCHANGED <<question, account, slot, net, early, told, refused>>

\* execute: a command is pending, and stored as such, before it is sent.
Execute(p, c) ==
    LET v == page[p]
    IN /\ Open(p) /\ v.owner = Me /\ ~v.locked /\ ~v.busy /\ v.pending \in {NoCommand, c}
       /\ Persisted(p, [v EXCEPT !.busy = TRUE, !.pending = c,
                                 !.op = [kind |-> "persist", command |-> c, over |-> FALSE]])

NewCommand(kind, rev, text) ==
    [id |-> bounds.commands + 1, kind |-> kind, rev |-> rev, text |-> text]
Fresh ==
    /\ bounds.commands < MaxCommands
    /\ bounds' = [bounds EXCEPT !.commands = @ + 1]

\* An answer is to the question it was written for.
Answer(p) ==
    LET v == page[p]
    IN /\ Fresh /\ v.draft.text # 0 /\ v.draft.base = v.known
       /\ Execute(p, NewCommand("answer", v.known, v.draft.text))
       /\ UNCHANGED <<question, account, slot, net, early, amid, told, refused>>
Focus(p) ==
    /\ Fresh /\ Execute(p, NewCommand("focus", page[p].known, 0))
    /\ UNCHANGED <<question, account, slot, net, early, amid, told, refused>>
Retry(p) ==
    /\ page[p].pending # NoCommand /\ Execute(p, page[p].pending)
    /\ UNCHANGED <<question, account, slot, net, early, amid, told, refused, bounds>>

\* Mutant of MaySend: a command is sent before it is stored.
MaySendAtOnce(p) == page[p].op.kind = "persist"
\* The save has ended, or an edit made meanwhile has overtaken it.
MaySend(p) ==
    /\ page[p].op.kind = "persist"
    /\ storing[p] = <<>> \/ page[p].op.over

\* The account is asked for before and after; a change starts over.
Send(p) ==
    LET v == page[p]
    IN /\ Open(p) /\ MaySend(p)
       /\ IF account # v.owner
          THEN Cleared(p, None) /\ UNCHANGED <<net, early>>
          ELSE /\ page' = [page EXCEPT ![p].op = [@ EXCEPT !.kind = "sent", !.over = FALSE]]
               /\ net' = net \cup {v.op.command}
               /\ early' = early \cup {c \in {v.op.command} : \A s \in Slots : slot[s].pending # c}
               /\ UNCHANGED <<storing, retiring>>
       /\ UNCHANGED <<question, account, slot, amid, told, refused, bounds>>

\* Every answer of an application in one request that is not kept as pending.
AnswerAll(p) ==
    LET v == page[p]
        c == NewCommand("batch", v.known, v.draft.text)
    IN /\ Open(p) /\ v.owner = Me /\ ~v.locked /\ ~v.busy /\ v.pending = NoCommand
       /\ v.draft.text # 0 /\ Fresh
       /\ account = Me
       /\ page' = [page EXCEPT ![p].busy = TRUE, ![p].op = [Idle EXCEPT !.kind = "sent", !.command = c]]
       /\ net' = net \cup {c}
       /\ UNCHANGED <<question, account, slot, storing, retiring, early, amid, told, refused>>

\* The store carries a command out once, over the revision it names.
Serve(c) ==
    /\ c \in net \ question.done /\ c.rev = question.rev /\ account = Me
    /\ question' = [rev |-> question.rev + 1, done |-> question.done \cup {c}]
    /\ UNCHANGED <<account, page, slot, storing, retiring, net, early, amid, told, refused, bounds>>

\* Mutant of StillDirty: an acknowledged draft is clean, edited since or not.
StillDirtyNever(v, c) == FALSE
\* An edit newer than the answer stays unsent; a batch looks at none.
StillDirty(v, c) == CASE c.kind = "batch" -> FALSE
                      [] c.kind = "answer" -> v.draft.text # c.text
                      [] OTHER -> v.draft.dirty
Acknowledged(p) ==
    LET v == page[p]
        c == v.op.command
    IN /\ Open(p) /\ v.op.kind = "sent" /\ c \in question.done /\ account = Me
       /\ Persisted(p, [v EXCEPT !.pending = NoCommand, !.draft.dirty = StillDirty(v, c),
                                 !.op = [Idle EXCEPT !.kind = "load"]])
       /\ told' = told \cup {c}
       /\ UNCHANGED <<question, account, slot, net, early, amid, refused, bounds>>

\* A refusal that nothing will change ends the command; the edit stays.
Refused(p) ==
    LET v == page[p]
        c == v.op.command
    IN /\ Open(p) /\ v.op.kind = "sent" /\ c \notin question.done /\ c.rev # question.rev
       /\ account = Me
       /\ Persisted(p, [v EXCEPT !.pending = NoCommand,
                                 !.op = [Idle EXCEPT !.kind = "load"]])
       /\ told' = told \cup {c} /\ refused' = refused \cup {c}
       /\ UNCHANGED <<question, account, slot, net, early, amid, bounds>>

\* Mutant of Unanswered: an interrupted command is forgotten.
UnansweredGone(v) == [Over(v) EXCEPT !.pending = NoCommand]
Unanswered(v) == Over(v)
\* No answer, or a refusal that may pass: the command stays pending.
Interrupted(p) ==
    /\ Open(p) /\ page[p].op.kind = "sent" /\ bounds.faults < MaxFaults
    /\ page' = [page EXCEPT ![p] = Unanswered(@)]
    /\ bounds' = [bounds EXCEPT !.faults = @ + 1]
    /\ UNCHANGED <<question, account, slot, storing, retiring, net, early, amid, told, refused>>

\* The answer finds another account signed in.
Changed(p) ==
    /\ Open(p) /\ page[p].op.kind \in {"sent", "load"} /\ account # page[p].owner
    /\ Cleared(p, None)
    /\ UNCHANGED <<question, account, slot, net, early, amid, told, refused, bounds>>
Loaded(p) ==
    /\ Open(p) /\ page[p].op.kind = "load" /\ account = page[p].owner
    /\ page' = [page EXCEPT ![p] = [Over(@) EXCEPT !.known = question.rev]]
    /\ UNCHANGED <<question, account, slot, storing, retiring, net, early, amid, told, refused, bounds>>

-----------------------------------------------------------------------------
Stored(p) ==
    /\ storing[p] # <<>>
    /\ slot' = [slot EXCEPT ![page[p].vault] = storing[p][1]]
    /\ storing' = [storing EXCEPT ![p] = <<>>]
    /\ early' = early \ {storing[p][1].pending}
    /\ UNCHANGED <<question, account, page, retiring, net, amid, told, refused, bounds>>

\* A draft is recovered into a page that has none, stored, and then retired.
Recover(p) ==
    LET v == page[p]
    IN \E f \in v.found :
       /\ Open(p) /\ ~v.locked /\ v.vault # 0 /\ ~Worth(Snapshot(v)) /\ storing[p] = <<>>
       /\ page' = [page EXCEPT ![p] = [v EXCEPT !.draft = f[2].draft, !.pending = f[2].pending,
                                                !.found = @ \ {f}]]
       /\ storing' = [storing EXCEPT ![p] = <<f[2]>>]
       /\ retiring' = [retiring EXCEPT ![p] = <<f>>]
       /\ amid' = amid \cup Amid(p, f[2].draft.text)
       /\ UNCHANGED <<question, account, slot, net, early, told, refused, bounds>>
\* Mutant of Retires: the slot is removed before the draft is stored again.
RetiresAtOnce(p) == storing[p] # <<>>
Retires(p) == storing[p] = <<>>
Retire(p) ==
    /\ retiring[p] # <<>> /\ Retires(p)
    /\ LET f == retiring[p][1]
       IN slot' = IF f[1] # page[p].vault /\ slot[f[1]] = f[2] THEN [slot EXCEPT ![f[1]] = NoSnapshot] ELSE slot
    /\ retiring' = [retiring EXCEPT ![p] = <<>>]
    /\ UNCHANGED <<question, account, page, storing, net, early, amid, told, refused, bounds>>

\* dispose stores the draft; a page that dies leaves what was stored.
Close(p) ==
    /\ Open(p)
    /\ slot' = IF page[p].vault = 0 THEN slot
               ELSE [slot EXCEPT ![page[p].vault] = Snapshot(page[p])]
    /\ early' = IF page[p].vault = 0 THEN early ELSE early \ {page[p].pending}
    /\ page' = [page EXCEPT ![p] = View("gone")]
    /\ storing' = [storing EXCEPT ![p] = <<>>]
    /\ retiring' = [retiring EXCEPT ![p] = <<>>]
    /\ UNCHANGED <<question, account, net, amid, told, refused, bounds>>
Die(p) ==
    /\ Open(p) /\ bounds.faults < MaxFaults
    /\ page' = [page EXCEPT ![p] = View("gone")]
    /\ storing' = [storing EXCEPT ![p] = <<>>]
    /\ retiring' = [retiring EXCEPT ![p] = <<>>]
    /\ bounds' = [bounds EXCEPT !.faults = @ + 1]
    /\ UNCHANGED <<question, account, slot, net, early, amid, told, refused>>

\* A worker asks anew, and another account signs in.
Reopen ==
    /\ bounds.moves < MaxMoves
    /\ question' = [question EXCEPT !.rev = @ + 1]
    /\ bounds' = [bounds EXCEPT !.moves = @ + 1]
    /\ UNCHANGED <<account, page, slot, storing, retiring, net, early, amid, told, refused>>
SignIn ==
    /\ bounds.moves < MaxMoves
    /\ account' = IF account = Me THEN Other ELSE Me
    /\ bounds' = [bounds EXCEPT !.moves = @ + 1]
    /\ UNCHANGED <<question, page, slot, storing, retiring, net, early, amid, told, refused>>

Next ==
    \/ \E p \in Pages :
          \/ OpenPage(p) \/ Refresh(p)
          \/ \E locked \in BOOLEAN : GiveUp(p, locked)
          \/ \E x \in Texts : Edit(p, x)
          \/ Answer(p) \/ Focus(p) \/ Retry(p) \/ Send(p) \/ AnswerAll(p)
          \/ Acknowledged(p) \/ Refused(p) \/ Interrupted(p) \/ Changed(p) \/ Loaded(p)
          \/ Stored(p) \/ Recover(p) \/ Retire(p) \/ Close(p) \/ Die(p)
    \/ \E c \in net : Serve(c)
    \/ Reopen \/ SignIn

Spec == Init /\ [][Next]_vars

-----------------------------------------------------------------------------
\* Every variable keeps its type; a command under way is the pending one.
TypeOK ==
    /\ question.done \subseteq net /\ refused \subseteq told /\ told \subseteq net
    /\ bounds.vaults \in Slots \cup {0}
    /\ \A p \in Pages :
         /\ page[p].owner \in {None, Me, Other}
         /\ page[p].op.command.kind \in {"answer", "focus"} /\ page[p].op.kind # "load"
              => page[p].pending = page[p].op.command

\* A command that was sent and whose outcome no page was told is pending on
\* a page or in the browser's storage, whatever was given up, closed or lost.
\* It fails: an edit made while the command is being stored overtakes that
\* save, the command is sent at once, and the page ends before the newer save.
PendingIsKeptAnyway ==
    \A c \in net : c.kind # "batch" /\ c \notin told =>
        \/ \E s \in Slots : slot[s].pending = c
        \/ \E p \in Pages : page[p].pending = c /\ storing[p] # <<>>
\* It holds of every command but one sent before it was stored.
PendingIsKept ==
    \A c \in net : c.kind # "batch" /\ c \notin told /\ c \notin early =>
        \/ \E s \in Slots : slot[s].pending = c
        \/ \E p \in Pages : page[p].pending = c /\ storing[p] # <<>>

\* What a page was told is refused is never carried out.
RefusedIsNotDone == refused \cap question.done = {}

\* A draft that counts as sent is what some command said.  It fails: a batch
\* marks the drafts it finds, edited since it was sent or not.
CleanIsSentAnyway ==
    \A p \in Pages : LET d == page[p].draft IN
        d.text # 0 /\ ~d.dirty => \E c \in question.done : c.text = d.text
\* It holds of every draft that did not come up while a batch was under way.
CleanIsSent ==
    \A p \in Pages : LET d == page[p].draft IN
        d.text # 0 /\ ~d.dirty =>
            \E c \in question.done : c.text = d.text \/ <<c, d.text>> \in amid

\* A page of another account shows and offers nothing of this one.
AccountsApart ==
    \A p \in Pages : page[p].owner # Me => Snapshot(page[p]) = NoSnapshot /\ page[p].found = {}

\* What the applicant typed and sent is neither lost nor forgotten, but for
\* the two cases above, nor shown to somebody else.
AnswersHeld == PendingIsKept /\ RefusedIsNotDone /\ CleanIsSent /\ AccountsApart
=============================================================================
