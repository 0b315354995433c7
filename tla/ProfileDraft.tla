------------------------------ MODULE ProfileDraft ------------------------------
(***************************************************************************)
(* The profile page (profile-editor.tsx, profile-drafts.ts) against the    *)
(* profile store (stores.ts): several sessions of one applicant edit one   *)
(* profile.  RevisionWriter saves it a revision at a time and sends a      *)
(* request whose answer was lost once more; DraftVault keeps the draft of  *)
(* each session in the browser, encrypted, for a later session to recover. *)
(* A profile is a text; the versions of its entries and the rotation of    *)
(* the draft key are left out.                                             *)
(***************************************************************************)
EXTENDS Naturals, Sequences, SequencesExt

CONSTANTS
    Sessions,       \* 1, 2, ...: the times the page is opened
    Texts,          \* what the applicant types
    Invalid,        \* of these, what the form does not accept
    MaxRevision, MaxTyped, MaxShown, MaxFaults

Blank == "blank"
Empty == [rev |-> 0, ack |-> Blank, want |-> Blank, pending |-> <<>>]

VARIABLES
    server,     \* the saved revisions: the request that made each, and its text
    tab,        \* the sessions' writers
    check,      \* a profile an unlock has read and not used yet: <<>> or one revision
    slot,       \* the drafts in the browser's storage
    storing,    \* a draft being encrypted, <<>> or one
    retiring,   \* the recovered slot to remove when the draft is stored, <<>> or one
    net,        \* the requests ever sent: one that was given up may still arrive
    seen,       \* history: the revisions each session was shown
    due,        \* history: the drafts of ended sessions nobody decided on
    bounds

vars == <<server, tab, check, slot, storing, retiring, net, seen, due, bounds>>

Requests == [id : Sessions \X (1..3), rev : 0..MaxRevision, text : Texts]
Revision == Len(server)
TextOf(n) == IF n = 0 THEN Blank ELSE server[n].text
Current == [rev |-> Revision, text |-> TextOf(Revision)]
Made(q) == SelectInSeq(server, LAMBDA v : v.id = q.id)

Snapshot(w) == [rev |-> w.rev, ack |-> w.ack, want |-> w.want, pending |-> w.pending]
Dirty(w) == w.pending # <<>> \/ w.want # w.ack

\* own: history, no draft was recovered.
Writer(at) ==
    [at |-> at, locked |-> FALSE, rev |-> 0, ack |-> Blank, want |-> Blank, pending |-> <<>>,
     blocked |-> FALSE, status |-> "saved", flying |-> FALSE, review |-> <<>>, found |-> {},
     asked |-> 0, own |-> TRUE]

Init ==
    /\ server = <<>>
    /\ tab = [s \in Sessions |-> Writer("unopened")]
    /\ check = [s \in Sessions |-> <<>>]
    /\ slot = [s \in Sessions |-> Empty]
    /\ storing = [s \in Sessions |-> <<>>]
    /\ retiring = [s \in Sessions |-> <<>>]
    /\ net = {}
    /\ seen = [s \in Sessions |-> {}]
    /\ due = {}
    /\ bounds = [typed |-> 0, shown |-> 0, faults |-> 0]

Open(s) == tab[s].at = "open"
\* Every change of a writer starts to encrypt its draft, over an older one.
Changed(s, w) ==
    /\ tab' = [tab EXCEPT ![s] = w]
    /\ storing' = [storing EXCEPT ![s] = <<Snapshot(w)>>]

Unsaved(w) == IF Dirty(w) THEN "pending" ELSE "saved"
\* Mutant of Retried: a retry sends a new request.
RetriedAnew(w) ==
    [w EXCEPT !.blocked = FALSE, !.review = <<>>, !.status = Unsaved(w),
              !.pending = IF w.flying THEN @ ELSE <<>>]
Retried(w) ==
    IF w.status = "conflict" THEN w
    ELSE [w EXCEPT !.blocked = FALSE, !.review = <<>>, !.status = Unsaved(w)]
Paused(w) ==
    [w EXCEPT !.blocked = TRUE, !.status = "paused", !.review = <<>>, !.flying = FALSE]
InConflict(w, head) ==
    [w EXCEPT !.blocked = TRUE, !.status = "conflict", !.review = <<head>>, !.flying = FALSE]
Reconciled(w, head, keep) ==
    LET v == [w EXCEPT !.rev = head.rev, !.ack = head.text, !.pending = <<>>,
                       !.want = IF keep THEN @ ELSE head.text,
                       !.blocked = FALSE, !.review = <<>>, !.flying = FALSE]
    IN [v EXCEPT !.status = Unsaved(v)]

-----------------------------------------------------------------------------
\* What an applicant types is the draft at once; a refused one that is
\* corrected is saved again.
Type(s, x) ==
    LET w == [tab[s] EXCEPT !.want = x]
        v == IF w.blocked THEN w ELSE [w EXCEPT !.status = Unsaved(w)]
    IN /\ Open(s) /\ ~tab[s].locked /\ x # tab[s].want /\ bounds.typed < MaxTyped
       /\ Changed(s, IF v.status = "refused" /\ x \notin Invalid THEN Retried(v) ELSE v)
       /\ retiring' = [retiring EXCEPT ![s] = <<>>]
       /\ due' = due \ {tab[s].want}
       /\ bounds' = [bounds EXCEPT !.typed = @ + 1]
       /\ UNCHANGED <<server, check, slot, net, seen>>

\* The timer or a button starts to save: the pending request again, if any.
Start(s) ==
    LET w == tab[s]
        q == [id |-> <<s, w.asked + 1>>, rev |-> w.rev, text |-> w.want]
        p == IF w.pending # <<>> THEN w.pending ELSE <<q>>
    IN /\ Open(s) /\ ~w.blocked /\ Dirty(w) /\ ~w.flying
       /\ w.pending = <<>> => w.asked < 3
       /\ IF p[1].text \in Invalid
          THEN /\ Changed(s, [w EXCEPT !.pending = <<>>, !.blocked = TRUE, !.status = "refused"])
               /\ UNCHANGED net
          ELSE /\ Changed(s, [w EXCEPT !.pending = p, !.status = "saving", !.flying = TRUE,
                                      !.asked = IF w.pending = <<>> THEN @ + 1 ELSE @])
               /\ net' = net \cup {p[1]}
       /\ retiring' = [retiring EXCEPT ![s] = <<>>]
       /\ UNCHANGED <<server, check, slot, seen, due, bounds>>

\* Mutant of MaySave: the store does not compare the revision.
MaySaveAnyway(q) == Made(q) = 0
\* saveProfile: a request is saved once, and over the revision it names.
MaySave(q) == Made(q) = 0 /\ q.rev = Revision
Save(q) ==
    /\ q \in net /\ MaySave(q) /\ Revision < MaxRevision
    /\ server' = Append(server, q)
    /\ UNCHANGED <<tab, check, slot, storing, retiring, net, seen, due, bounds>>

\* The answer: the revision the request made, or a refusal; the head is read
\* again after either, and a newer one is shown for review.
Answer(s) ==
    LET w == tab[s]
        q == w.pending[1]
        v == [w EXCEPT !.rev = Made(q), !.ack = q.text, !.pending = <<>>, !.flying = FALSE]
    IN /\ Open(s) /\ w.flying
       /\ \/ /\ Made(q) # 0 /\ Made(q) = Revision
             /\ Changed(s, [v EXCEPT !.status = Unsaved(v)])
          \/ /\ Made(q) # 0 \/ ~MaySave(q)
             /\ Made(q) # Revision
             /\ Changed(s, InConflict(w, Current))
       /\ seen' = [seen EXCEPT ![s] = @ \cup {Revision}]
       /\ retiring' = [retiring EXCEPT ![s] = <<>>]
       /\ UNCHANGED <<server, check, slot, net, due, bounds>>

\* No answer: the request stays pending.
Fails(s) ==
    /\ Open(s) /\ tab[s].flying /\ bounds.faults < MaxFaults
    /\ Changed(s, Paused(tab[s]))
    /\ retiring' = [retiring EXCEPT ![s] = <<>>]
    /\ bounds' = [bounds EXCEPT !.faults = @ + 1]
    /\ UNCHANGED <<server, check, slot, net, seen, due>>

\* Any request of the page finds the session expired.
Expires(s) ==
    /\ Open(s) /\ ~tab[s].locked /\ bounds.faults < MaxFaults
    /\ Changed(s, [Paused(tab[s]) EXCEPT !.locked = TRUE])
    /\ retiring' = [retiring EXCEPT ![s] = <<>>]
    /\ bounds' = [bounds EXCEPT !.faults = @ + 1]
    /\ UNCHANGED <<server, check, slot, net, seen, due>>

RetrySave(s) ==
    /\ Open(s) /\ ~tab[s].locked /\ tab[s].status = "paused" /\ tab[s].want \notin Invalid
    /\ Changed(s, Retried(tab[s]))
    /\ retiring' = [retiring EXCEPT ![s] = <<>>]
    /\ UNCHANGED <<server, check, slot, net, seen, due, bounds>>

\* The applicant decides a conflict over the revision on the screen.
Decide(s, keep) ==
    LET w == tab[s]
    IN /\ Open(s) /\ ~w.locked /\ w.review # <<>>
       /\ keep => w.want \notin Invalid
       /\ Changed(s, Reconciled(w, w.review[1], keep))
       /\ retiring' = [retiring EXCEPT ![s] = <<>>]
       /\ due' = IF keep THEN due ELSE due \ {w.want}
       /\ UNCHANGED <<server, check, slot, net, seen, bounds>>

-----------------------------------------------------------------------------
\* unlock opens a session with the profile and the drafts the browser keeps.
OpenPage(s) ==
    /\ tab[s].at = "unopened" /\ \A o \in Sessions : o < s => tab[o].at # "unopened"
    /\ tab' = [tab EXCEPT ![s] =
                 [@ EXCEPT !.at = "open", !.rev = Revision, !.ack = Current.text,
                           !.want = Current.text,
                           !.found = {<<o, slot[o]>> : o \in {p \in Sessions : Dirty(slot[p])}}]]
    /\ seen' = [seen EXCEPT ![s] = @ \cup {Revision}]
    /\ UNCHANGED <<server, check, slot, storing, retiring, net, due, bounds>>

\* When the page is shown again unlock reads the profile, asks for the key
\* and the account, and then uses what it read.
ReadHead(s) ==
    /\ Open(s) /\ check[s] = <<>> /\ bounds.shown < MaxShown
    /\ check' = [check EXCEPT ![s] = <<Current>>]
    /\ bounds' = [bounds EXCEPT !.shown = @ + 1]
    /\ UNCHANGED <<server, tab, slot, storing, retiring, net, seen, due>>

\* Mutant of Renewed: a revision read before a save replaces what it saved.
RenewedAnyway(w, head) ==
    IF w.pending # <<>> THEN Retried(w)
    ELSE IF ~Dirty(w) THEN Reconciled(w, head, FALSE)
    ELSE Retried(w)
Renewed(w, head) ==
    IF w.pending # <<>> THEN Retried(w)
    ELSE IF Dirty(w) THEN IF head.rev > w.rev THEN InConflict(w, head) ELSE Retried(w)
    ELSE IF head.rev >= w.rev THEN Reconciled(w, head, FALSE) ELSE w

Unlock(s) ==
    /\ check[s] # <<>>
    /\ Changed(s, [Renewed(tab[s], check[s][1]) EXCEPT !.locked = FALSE])
    /\ check' = [check EXCEPT ![s] = <<>>]
    /\ retiring' = [retiring EXCEPT ![s] = <<>>]
    /\ seen' = [seen EXCEPT ![s] = @ \cup {check[s][1].rev}]
    /\ UNCHANGED <<server, slot, net, due, bounds>>

\* A draft another session left takes the place of what this one shows, typed
\* or not.
Recover(s) ==
    LET w == tab[s]
    IN \E f \in w.found :
       LET d == f[2]
           v == [w EXCEPT !.rev = d.rev, !.ack = d.ack, !.want = d.want, !.pending = d.pending,
                          !.blocked = FALSE, !.review = <<>>, !.flying = FALSE, !.found = {},
                          !.own = FALSE]
       IN /\ Open(s) /\ ~w.locked
          /\ Changed(s, IF d.pending = <<>> /\ d.rev # Revision THEN InConflict(v, Current)
                        ELSE [v EXCEPT !.status = Unsaved(v)])
          /\ retiring' = [retiring EXCEPT ![s] = <<f>>]
          /\ seen' = [seen EXCEPT ![s] = @ \cup {Revision} \cup seen[f[1]]]
          /\ UNCHANGED <<server, check, slot, net, due, bounds>>

\* Mutant of Retires: the slot of a recovered draft is removed at once.
RetiresAtOnce(s) == storing[s] # <<>>
Retires(s) == storing[s] = <<>>
Stored(s) ==
    /\ storing[s] # <<>>
    /\ slot' = [slot EXCEPT ![s] = storing[s][1]]
    /\ storing' = [storing EXCEPT ![s] = <<>>]
    /\ UNCHANGED <<server, tab, check, retiring, net, seen, due, bounds>>
Retire(s) ==
    /\ retiring[s] # <<>> /\ Retires(s)
    /\ LET f == retiring[s][1]
       IN slot' = IF slot[f[1]] = f[2] /\ f[1] # s THEN [slot EXCEPT ![f[1]] = Empty] ELSE slot
    /\ retiring' = [retiring EXCEPT ![s] = <<>>]
    /\ UNCHANGED <<server, tab, check, storing, net, seen, due, bounds>>

\* A session ends: left in order, its draft is stored; else what was stored stays.
Ends(s, kept) ==
    /\ slot' = [slot EXCEPT ![s] = kept]
    /\ due' = IF Dirty(kept) THEN due \cup {kept.want} ELSE due
    /\ tab' = [tab EXCEPT ![s] = Writer("gone")]
    /\ check' = [check EXCEPT ![s] = <<>>]
    /\ storing' = [storing EXCEPT ![s] = <<>>]
    /\ retiring' = [retiring EXCEPT ![s] = <<>>]
    /\ UNCHANGED <<server, net, seen>>
Leave(s) ==
    /\ Open(s) /\ Ends(s, Snapshot(tab[s])) /\ UNCHANGED bounds
Crash(s) ==
    /\ Open(s) /\ bounds.faults < MaxFaults
    /\ Ends(s, slot[s])
    /\ bounds' = [bounds EXCEPT !.faults = @ + 1]

Next ==
    \/ \E s \in Sessions :
          \/ \E x \in Texts : Type(s, x)
          \/ \E keep \in BOOLEAN : Decide(s, keep)
          \/ Start(s) \/ Answer(s) \/ Fails(s) \/ Expires(s) \/ RetrySave(s)
          \/ OpenPage(s) \/ ReadHead(s) \/ Unlock(s) \/ Recover(s) \/ Stored(s) \/ Retire(s)
          \/ Leave(s) \/ Crash(s)
    \/ \E q \in net : Save(q)

Spec == Init /\ [][Next]_vars

-----------------------------------------------------------------------------
\* Every variable keeps its type; a request under way is the pending one.
TypeOK ==
    /\ net \subseteq Requests
    /\ \A s \in Sessions :
         /\ tab[s].flying => tab[s].pending # <<>> /\ ~tab[s].blocked
         /\ tab[s].status = "conflict" => tab[s].review # <<>>
         /\ tab[s].rev <= Revision

\* A profile shown as saved is the revision it names.
SavedIsSaved ==
    \A s \in Sessions : Open(s) => tab[s].ack = TextOf(tab[s].rev)

\* No save replaces a revision its session was never shown.
ReviewedIsReplaced ==
    \A n \in DOMAIN server : n - 1 \in seen[server[n].id[1]]

\* A session that recovered nothing is asked to review only what another one
\* saved: what it saved itself, answer lost or not, is never a conflict.
AloneIsNoConflict ==
    \A s \in Sessions : Open(s) /\ tab[s].own /\ tab[s].status = "conflict" =>
        \E n \in 1..Revision : n > tab[s].rev /\ server[n].id[1] # s

\* A draft stored when its session ended can be recovered or is saved, until
\* the applicant types over it or takes the saved profile instead.
DraftsSurvive ==
    \A x \in due :
        \/ \E n \in DOMAIN server : server[n].text = x
        \/ \E s \in Sessions : Dirty(slot[s]) /\ slot[s].want = x

\* What the page shows, saves and keeps of a profile is never another one's.
DraftsHeld == SavedIsSaved /\ ReviewedIsReplaced /\ AloneIsNoConflict /\ DraftsSurvive
=============================================================================
