------------------------------ MODULE ImportReview ------------------------------
(***************************************************************************)
(* The page that imports a browser's old "applied" marks                   *)
(* (import/control.ts, import-marks.tsx) against previewLegacyImport and   *)
(* confirmLegacyImport (imports.ts): a preview is taken, rows are          *)
(* selected, their ownership is confirmed and the selection is imported.   *)
(* Either request stays pending until it is known how it ended; previews   *)
(* expire; the account of the browser may change.                          *)
(***************************************************************************)
EXTENDS Naturals, FiniteSets

CONSTANTS Posts, MaxRequests, MaxMoves, MaxFaults

None == "none"
Me == "me"
Other == "other"

VARIABLES
    account,    \* who is signed in
    stored,     \* the browser's marks that belong to no applicant
    previews,   \* previews kept by the server: token -> owner, rows, expired
    acks,       \* imports carried out: the requests
    marks,      \* marks kept by the server, <<owner, posting>>
    net,        \* copies of requests sent and not yet served
    view,       \* what the tab shows and keeps
    op,         \* its operation under way
    vouched,    \* history: what an applicant selected and vouched for
    refused,    \* history: requests the tab was told were refused
    bounds

vars == <<account, stored, previews, acks, marks, net, view, op, vouched, refused, bounds>>
server == <<previews, acks, marks>>

NoPreview == [token |-> 0, rows |-> {}]
NoRequest == [id |-> 0, kind |-> None, owner |-> None, token |-> 0, posts |-> {}]
NoOp == [step |-> None, request |-> NoRequest, n |-> 0, token |-> 0]
InitialView ==
    [owner |-> None, locked |-> TRUE, busy |-> FALSE, preview |-> NoPreview, selected |-> {},
     ownership |-> FALSE, expired |-> FALSE, pending |-> NoRequest, ack |-> NoRequest]

Init ==
    /\ account = Me /\ stored \in (SUBSET Posts) \ {{}}
    /\ previews = {} /\ acks = {} /\ marks = {} /\ net = {}
    /\ view = InitialView /\ op = NoOp /\ vouched = {} /\ refused = {}
    /\ bounds = [requests |-> 0, sends |-> 0, moves |-> 0, faults |-> 0]

-----------------------------------------------------------------------------
(* The server. *)

\* A preview is kept under its request; asked for again, it is returned as kept.
PreviewOf(r) ==
    previews' = IF \E v \in previews : v.token = r.id THEN previews
                ELSE previews \cup {[token |-> r.id, owner |-> r.owner, rows |-> r.posts, expired |-> FALSE]}
\* Mutant of Confirms: the rows need not be those of the preview.
ConfirmsAny(r) == \E v \in previews : v.owner = r.owner /\ ~v.expired
\* A confirmation names a preview of this owner that has not expired.
Confirms(r) ==
    \E v \in previews : v.token = r.token /\ v.owner = r.owner /\ ~v.expired /\ r.posts \subseteq v.rows
\* Mutant of Replays: an import sent again is judged again.
ReplaysNot(r) == FALSE
Replays(r) == r \in acks
Answered(c, step) ==
    op' = IF op.step = "wait" /\ op.n = c.n THEN [op EXCEPT !.step = step] ELSE op
Serve(c) ==
    LET r == c.request
    IN /\ c \in net /\ net' = net \ {c}
       /\ \/ r.kind = "preview" /\ PreviewOf(r) /\ Answered(c, "told") /\ UNCHANGED <<acks, marks>>
          \/ /\ r.kind = "confirm" /\ (Replays(r) \/ Confirms(r))
             /\ acks' = acks \cup {r} /\ marks' = marks \cup ({r.owner} \X r.posts)
             /\ Answered(c, "told") /\ UNCHANGED previews
          \/ /\ r.kind = "confirm" /\ ~Replays(r) /\ ~Confirms(r)
             /\ Answered(c, "refused") /\ UNCHANGED server
       /\ UNCHANGED <<account, stored, view, vouched, refused, bounds>>
Expire ==
    /\ bounds.moves < MaxMoves /\ bounds' = [bounds EXCEPT !.moves = @ + 1]
    /\ \E v \in previews : ~v.expired
    /\ previews' = {[v EXCEPT !.expired = TRUE] : v \in previews}
    /\ UNCHANGED <<account, stored, acks, marks, net, view, op, vouched, refused>>

\* Another account is signed in, or the board's rows are checked elsewhere.
Switch ==
    /\ bounds.moves < MaxMoves /\ bounds' = [bounds EXCEPT !.moves = @ + 1]
    /\ \/ account' = (IF account = Me THEN Other ELSE Me) /\ UNCHANGED stored
       \/ stored' \in (SUBSET Posts) \ {stored} /\ UNCHANGED account
    /\ UNCHANGED <<server, net, view, op, vouched, refused>>

-----------------------------------------------------------------------------
(* The tab. *)

\* The account changed: nothing of the other account stays.
ChangedOwner(owner) ==
    /\ view' = [InitialView EXCEPT !.owner = owner, !.locked = (owner = None)]
    /\ op' = NoOp /\ UNCHANGED refused

\* refreshSession: on load, focus and by hand; it aborts what is under way.
RefreshSession ==
    /\ (op = NoOp \/ bounds.faults < MaxFaults)
    /\ bounds' = IF op = NoOp THEN bounds ELSE [bounds EXCEPT !.faults = @ + 1]
    /\ IF view.owner \notin {None, account} THEN ChangedOwner(account)
       ELSE /\ view' = [view EXCEPT !.owner = account, !.locked = FALSE, !.busy = FALSE]
            /\ op' = NoOp /\ UNCHANGED refused
    /\ UNCHANGED <<account, stored, server, net, vouched>>

\* suspend, or a request that fails: the same request may be sent again.
Stops ==
    /\ op # NoOp /\ bounds.faults < MaxFaults /\ bounds' = [bounds EXCEPT !.faults = @ + 1]
    /\ \E signedOut \in BOOLEAN : view' = [view EXCEPT !.busy = FALSE, !.locked = @ \/ signedOut]
    /\ op' = NoOp
    /\ UNCHANGED <<account, stored, server, net, vouched, refused>>

Free == ~view.locked /\ ~view.busy /\ view.pending = NoRequest
Select(x) ==
    /\ Free /\ view.ack = NoRequest /\ x \in view.preview.rows
    /\ view' = [view EXCEPT !.selected = IF x \in @ THEN @ \ {x} ELSE @ \cup {x}]
    /\ UNCHANGED <<account, stored, server, net, op, vouched, refused, bounds>>
ConfirmOwnership ==
    /\ Free /\ view.ack = NoRequest /\ view.preview # NoPreview /\ ~view.expired
    /\ view' = [view EXCEPT !.ownership = ~@]
    /\ UNCHANGED <<account, stored, server, net, op, vouched, refused, bounds>>

Execute(r) ==
    /\ view' = [view EXCEPT !.pending = r, !.busy = TRUE]
    /\ op' = [NoOp EXCEPT !.step = "owner", !.request = r]
Request(kind, token, posts) ==
    /\ bounds.requests < MaxRequests
    /\ bounds' = [bounds EXCEPT !.requests = @ + 1]
    /\ Execute([id |-> bounds.requests + 1, kind |-> kind, owner |-> view.owner,
                token |-> token, posts |-> posts])
Preview ==
    /\ Free /\ view.owner # None /\ stored # {}
    /\ Request("preview", 0, stored)
    /\ UNCHANGED <<account, stored, server, net, vouched, refused>>
Confirm ==
    /\ Free /\ view.preview # NoPreview /\ view.selected # {} /\ view.ownership
    /\ ~view.expired /\ view.ack = NoRequest
    /\ Request("confirm", view.preview.token, view.selected)
    /\ vouched' = vouched \cup ({view.owner} \X view.selected)
    /\ UNCHANGED <<account, stored, server, net, refused>>
Retry ==
    /\ view.pending # NoRequest /\ ~view.busy /\ ~view.locked /\ Execute(view.pending)
    /\ UNCHANGED <<account, stored, server, net, vouched, refused, bounds>>

\* The account is asked for, then the request is sent in its name.
Send ==
    /\ op.step = "owner"
    /\ IF account # view.owner THEN ChangedOwner(None) /\ UNCHANGED <<net, bounds>>
       ELSE /\ net' = net \cup {[request |-> op.request, n |-> bounds.sends + 1]}
            /\ op' = [op EXCEPT !.step = "wait", !.n = bounds.sends + 1]
            /\ bounds' = [bounds EXCEPT !.sends = @ + 1]
            /\ UNCHANGED <<view, refused>>
    /\ UNCHANGED <<account, stored, server, vouched>>

\* Mutant of Previewed: what was confirmed of the old rows holds for the new.
PreviewedAgain(r) ==
    LET v == CHOOSE p \in previews : p.token = r.id
    IN view' = [view EXCEPT !.busy = FALSE, !.pending = NoRequest, !.ack = NoRequest,
                            !.preview = [token |-> v.token, rows |-> v.rows], !.expired = FALSE]
\* A new preview keeps the selection among its rows; its ownership is open again.
Previewed(r) ==
    LET v == CHOOSE p \in previews : p.token = r.id
    IN view' = [view EXCEPT !.busy = FALSE, !.pending = NoRequest, !.ack = NoRequest,
                            !.preview = [token |-> v.token, rows |-> v.rows], !.expired = FALSE,
                            !.ownership = FALSE, !.selected = @ \cap v.rows]
Told ==
    /\ op.step = "told"
    /\ IF account # view.owner THEN ChangedOwner(None)
       ELSE /\ IF op.request.kind = "preview" THEN Previewed(op.request)
               ELSE view' = [view EXCEPT !.busy = FALSE, !.pending = NoRequest, !.ack = op.request]
            /\ op' = NoOp /\ UNCHANGED refused
    /\ UNCHANGED <<account, stored, server, net, vouched, bounds>>
\* A definitive answer ends the request.  An import whose preview stood and was its own
\* is refused for one reason, that the preview expired; a 403 has the account asked for
\* again, and without one the request stays pending, as after Stops.
Refused ==
    /\ op.step = "refused" /\ op' = NoOp /\ refused' = refused \cup {op.request.id}
    /\ view' = [view EXCEPT !.busy = FALSE, !.pending = NoRequest, !.expired = TRUE, !.ownership = FALSE]
    /\ UNCHANGED <<account, stored, server, net, vouched, bounds>>

Next ==
    \/ \E c \in net : Serve(c)
    \/ \E x \in Posts : Select(x)
    \/ Expire \/ Switch \/ RefreshSession \/ Stops \/ ConfirmOwnership \/ Preview \/ Confirm \/ Retry
    \/ Send \/ Told \/ Refused
Spec == Init /\ [][Next]_vars

-----------------------------------------------------------------------------
RequestType ==
    [id : Nat, kind : {None, "preview", "confirm"}, owner : {None, Me, Other}, token : Nat,
     posts : SUBSET Posts]
TypeOK ==
    /\ account \in {Me, Other} /\ stored \subseteq Posts /\ refused \subseteq Nat
    /\ previews \subseteq [token : Nat, owner : {None, Me, Other}, rows : SUBSET Posts, expired : BOOLEAN]
    /\ acks \subseteq RequestType /\ net \subseteq [request : RequestType, n : Nat]
    /\ view \in [owner : {None, Me, Other}, locked : BOOLEAN, busy : BOOLEAN,
                 preview : [token : Nat, rows : SUBSET Posts], selected : SUBSET Posts,
                 ownership : BOOLEAN, expired : BOOLEAN, pending : RequestType, ack : RequestType]
    /\ op \in [step : {None, "owner", "wait", "told", "refused"}, request : RequestType,
               n : Nat, token : {0}]
    /\ bounds \in [requests : Nat, sends : Nat, moves : Nat, faults : Nat]

\* A mark is one its applicant selected and vouched for.
MarkIsVouched == marks \subseteq vouched
\* Ownership is confirmed of the rows on screen, by the account on screen,
\* and what is selected is among them.
OwnershipIsOfRows ==
    /\ view.selected \subseteq view.preview.rows
    /\ view.preview # NoPreview =>
         \E v \in previews : v.token = view.preview.token /\ v.rows = view.preview.rows /\ v.owner = view.owner
    /\ view.ownership => view.preview # NoPreview /\ ~view.expired
\* What the tab acknowledges is marked; an import it was told was refused is
\* never carried out, by a copy sent before or after either.
EndedAsTold ==
    /\ view.ack # NoRequest => view.ack \in acks /\ {view.owner} \X view.ack.posts \subseteq marks
    /\ \A r \in acks : r.id \notin refused
ImportIsMeant == MarkIsVouched /\ OwnershipIsOfRows /\ EndedAsTold

-----------------------------------------------------------------------------
(* What ImportIsMeant rests on, step by step. *)

\* The requests there are, under an id of their own each.
Known == {c.request : c \in net} \cup acks \cup ({view.pending, op.request} \ {NoRequest})
RequestsAreTold ==
    /\ \A r \in Known : r.id \in 1 .. bounds.requests /\ r.kind # None /\ r.owner # None
    /\ \A r, s \in Known : r.id = s.id => r = s
\* A preview is that of one request, for its applicant.
PreviewsAreOfRequests ==
    /\ \A v \in previews : v.token \in 1 .. bounds.requests
    /\ \A v, w \in previews : v.token = w.token => v = w
    /\ \A r \in Known, v \in previews : v.token = r.id => r.kind = "preview" /\ v.owner = r.owner
\* An import on its way is vouched for and within its preview.
ImportsArePreviewed ==
    \A r \in Known : r.kind = "confirm" =>
        /\ {r.owner} \X r.posts \subseteq vouched
        /\ \E v \in previews : v.token = r.token /\ v.owner = r.owner /\ r.posts \subseteq v.rows
\* An import that was refused was not carried out, and its preview is expired.
IsOver(r) == r.kind = "confirm" /\ r \notin acks /\ \A v \in previews : v.token = r.token => v.expired
RefusedIsOver ==
    /\ refused \subseteq 1 .. bounds.requests
    /\ \A r \in Known : r.id \in refused => IsOver(r)
    /\ op.step = "refused" => IsOver(op.request)
\* The copy that is waited for is that of the operation under way; what it
\* was told is so.
AnswersAreOfOp ==
    /\ \A c \in net : c.n <= bounds.sends /\ (op.step = "wait" /\ op.n = c.n => c.request = op.request)
    /\ op.step = "told" => \/ op.request.kind = "preview" /\ \E v \in previews : v.token = op.request.id
                           \/ op.request.kind = "confirm" /\ op.request \in acks
    /\ \A r \in acks : r.kind = "confirm" /\ {r.owner} \X r.posts \subseteq marks
\* What is on screen is of the account on screen.
ScreenIsOfOwner ==
    /\ view.owner = None => view.preview = NoPreview /\ view.pending = NoRequest /\ view.ack = NoRequest
    /\ view.pending # NoRequest => view.pending.owner = view.owner
    /\ view.ack # NoRequest => view.ack \in acks /\ view.ack.owner = view.owner
    /\ op.request = (IF op.step = None THEN NoRequest ELSE view.pending)
    /\ op.step # None => view.pending # NoRequest
ImportInv ==
    /\ TypeOK /\ RequestsAreTold /\ PreviewsAreOfRequests /\ ImportsArePreviewed /\ RefusedIsOver
    /\ AnswersAreOfOp /\ ScreenIsOfOwner /\ MarkIsVouched /\ OwnershipIsOfRows
=============================================================================
