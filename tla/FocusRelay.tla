------------------------------ MODULE FocusRelay ------------------------------
(***************************************************************************)
(* Requests to bring the paired computer's browser to a login or a         *)
(* verification (interventions): the applicant asks, the server keeps each *)
(* request with the revisions it was made at, the worker polls a page of   *)
(* them, acknowledges one per poll through a journal on its disk, and the  *)
(* server carries an acknowledgement out once.  One application, whose     *)
(* questions each wait for the browser.                                    *)
(*                                                                         *)
(* The worker of the repository only ever answers "unavailable"; Results   *)
(* holds what the server takes from a worker that could observe, too.      *)
(***************************************************************************)
EXTENDS Integers, Sequences, FiniteSetsExt, SequencesExt

CONSTANTS
    Questions, Results,
    PageSize,    \* commands that fit a page (20, or fewer by their bytes)
    MaxAsks, MaxAcks, MaxMoves, MaxFaults

Open == {"pending", "focused"}
NoAck == [event |-> 0, id |-> 0, rev |-> 0, arev |-> 0, result |-> "none"]

VARIABLES
    app,         \* the application: its revision, and is it still waiting?
    live,        \* its run, policy and worker allow it to go on
    question,    \* each question: revision, and resolved?
    asks,        \* the interventions, in the order they were asked
    receipts,    \* the acknowledgements carried out
    worker,      \* its step, the command answered last, the answer it got
    journal,     \* the acknowledgement on its disk, or NoAck
    net,         \* acknowledgements on their way
    rejected,    \* history: acknowledgements the worker set aside as refused
    passed,      \* history: per open request, the answers others got since
    spent

vars == <<app, live, question, asks, receipts, worker, journal, net, rejected, passed, spent>>

TypeOK ==
    /\ app.rev \in Nat /\ app.waiting \in BOOLEAN /\ live \in BOOLEAN
    /\ \A q \in Questions : question[q].resolved \in BOOLEAN
    /\ \A i \in DOMAIN asks : asks[i].status \in Open \union {"unavailable", "observed"}
    /\ worker.at \in {"down", "idle", "acking"} /\ worker.answer \in {"none", "taken", "refused"}
    /\ worker.last \in 0 .. Len(asks)
    /\ journal # NoAck => journal.id \in DOMAIN asks
    /\ worker.at = "idle" => journal = NoAck
    /\ Len(passed) = Len(asks)

Init ==
    /\ app = [rev |-> 1, waiting |-> TRUE] /\ live = TRUE
    /\ question = [q \in Questions |-> [rev |-> 1, resolved |-> FALSE]]
    /\ asks = <<>> /\ receipts = {} /\ journal = NoAck /\ net = {}
    /\ worker = [at |-> "idle", last |-> 0, answer |-> "none"]
    /\ rejected = {} /\ passed = <<>>
    /\ spent = [acks |-> 0, moves |-> 0, faults |-> 0]

Eligible == app.waiting /\ live

\* Mutant of Current: the revision of the question is not compared.
CurrentAnyhow(i) == asks[i].status \in Open /\ Eligible

\* May the intervention still be shown to the worker, and acknowledged?
Current(i) ==
    /\ asks[i].qrev = question[asks[i].q].rev /\ asks[i].arev = app.rev
    /\ asks[i].status \in Open
    /\ ~question[asks[i].q].resolved /\ Eligible

\* The applicant asks; a question may be asked for again while one is open.
Ask(q) ==
    /\ Len(asks) < MaxAsks
    /\ ~question[q].resolved /\ Eligible
    /\ asks' = Append(asks, [q |-> q, qrev |-> question[q].rev, arev |-> app.rev,
                             rev |-> 1, status |-> "pending"])
    /\ passed' = Append(passed, [i \in 1 .. MaxAsks |-> 0])
    /\ UNCHANGED <<app, live, question, receipts, worker, journal, net, rejected, spent>>

(***************************************************************************)
(* The worker.                                                             *)
(***************************************************************************)
\* Mutant of Before: requests are served in the order they were asked.
BeforeByAge(i, j) == i < j

\* Acknowledged requests rotate behind untouched ones, older ones first.
Before(i, j) == asks[i].rev < asks[j].rev \/ (asks[i].rev = asks[j].rev /\ i < j)

Page ==
    LET all == SetToSortSeq({i \in DOMAIN asks : Current(i)}, Before)
    IN  SubSeq(all, 1, IF Len(all) < PageSize THEN Len(all) ELSE PageSize)

\* One command per poll: the one after the last answered, or the first.
Chosen(page) ==
    LET at == {k \in DOMAIN page : page[k] = worker.last}
    IN  IF at = {} THEN page[1] ELSE page[(Max(at) % Len(page)) + 1]

\* The page is read, and an acknowledgement journaled and sent.
Poll(result) ==
    /\ worker.at = "idle" /\ spent.acks < MaxAcks /\ Page # <<>>
    /\ LET id == Chosen(Page)
       IN  /\ journal' = [event |-> spent.acks + 1, id |-> id, rev |-> asks[id].rev,
                          arev |-> app.rev, result |-> result]
           /\ worker' = [at |-> "acking", last |-> id, answer |-> "none"]
    /\ net' = net \union {journal'}
    /\ spent' = [spent EXCEPT !.acks = @ + 1]
    /\ UNCHANGED <<app, live, question, asks, receipts, rejected, passed>>

\* The answer is known: the journal is cleared, a refused command kept aside.
Settle ==
    /\ worker.at = "acking" /\ worker.answer # "none"
    /\ rejected' = IF worker.answer = "refused" THEN rejected \union {journal.event} ELSE rejected
    /\ journal' = NoAck
    /\ worker' = [worker EXCEPT !.at = "idle", !.answer = "none"]
    /\ UNCHANGED <<app, live, question, asks, receipts, net, passed, spent>>

\* The worker dies, or stops because an acknowledgement or its answer was lost.
Crash ==
    /\ worker.at # "down" /\ spent.faults < MaxFaults
    /\ worker' = [at |-> "down", last |-> 0, answer |-> "none"]
    /\ net' \in {net, net \ {journal}}
    /\ spent' = [spent EXCEPT !.faults = @ + 1]
    /\ UNCHANGED <<app, live, question, asks, receipts, journal, rejected, passed>>

\* What the journal holds is sent again before anything else.
Restart ==
    /\ worker.at = "down"
    /\ worker' = [worker EXCEPT !.at = IF journal = NoAck THEN "idle" ELSE "acking"]
    /\ net' = IF journal = NoAck THEN net ELSE net \union {journal}
    /\ UNCHANGED <<app, live, question, asks, receipts, journal, rejected, passed, spent>>

(***************************************************************************)
(* The server carries an acknowledgement out.                              *)
(***************************************************************************)
\* Mutant of Replayed: an acknowledgement is not recognised when it comes again.
ReplayedNever(m) == FALSE

Replayed(m) == m.event \in receipts
Accepts(m) == m.rev = asks[m.id].rev /\ m.arev = app.rev /\ Current(m.id)

Answered(m, answer) ==
    worker' = IF worker.at = "acking" /\ journal = m
              THEN [worker EXCEPT !.answer = answer] ELSE worker

\* The browser was seen past the login: the question is resolved, and the
\* application goes on once no other question holds it.
Resolve(q) ==
    /\ question' = [question EXCEPT ![q] = [rev |-> @.rev + 1, resolved |-> TRUE]]
    /\ app' = [rev |-> app.rev + 1, waiting |-> \E o \in Questions : ~question'[o].resolved]

Take(m) ==
    /\ ~Replayed(m) /\ Accepts(m)
    /\ IF m.result = "observed" THEN Resolve(asks[m.id].q) ELSE UNCHANGED <<app, question>>
    /\ asks' = [asks EXCEPT ![m.id].status = m.result, ![m.id].rev = @ + 1]
    /\ receipts' = receipts \union {m.event}
    /\ passed' = [i \in DOMAIN passed |->
                    IF i # m.id /\ Current(i) /\ asks[i].rev = 1
                    THEN [passed[i] EXCEPT ![m.id] = @ + 1] ELSE passed[i]]
    /\ Answered(m, "taken")

Deliver ==
    \E m \in net :
        /\ net' = net \ {m}
        /\ \/ Take(m)
           \/ /\ Replayed(m) /\ Answered(m, "taken")
              /\ UNCHANGED <<app, question, asks, receipts, passed>>
           \/ /\ ~Replayed(m) /\ ~Accepts(m) /\ Answered(m, "refused")
              /\ UNCHANGED <<app, question, asks, receipts, passed>>
        /\ UNCHANGED <<live, journal, rejected, spent>>

\* Another question of the form is answered, or the run is paused or resumed:
\* the application's revision moves and open requests are stale.
Move ==
    /\ spent.moves < MaxMoves /\ app.waiting
    /\ spent' = [spent EXCEPT !.moves = @ + 1]
    /\ live' \in BOOLEAN
    /\ app' = [app EXCEPT !.rev = @ + 1]
    /\ UNCHANGED <<question, asks, receipts, worker, journal, net, rejected, passed>>

Next ==
    \/ \E q \in Questions : Ask(q)
    \/ \E r \in Results : Poll(r)
    \/ Settle \/ Crash \/ Restart \/ Deliver \/ Move

Spec == Init /\ [][Next]_vars

(***************************************************************************)
(* Properties.                                                             *)
(***************************************************************************)
\* A question is resolved by exactly one observation, however often its
\* acknowledgement was sent, and the application goes on only with all of them.
ResolvedOnce ==
    /\ \A q \in Questions :
          Cardinality({i \in DOMAIN asks : asks[i].q = q /\ asks[i].status = "observed"})
            = IF question[q].resolved THEN 1 ELSE 0
    /\ app.waiting <=> \E q \in Questions : ~question[q].resolved

\* What the worker set aside as refused was never carried out: an
\* acknowledgement whose answer was lost is recognised when it is sent again.
RejectedIsDead == rejected \intersect receipts = {}

\* While a request stays untouched and current, no other is answered twice
\* (questions.ts:507: "Acknowledged focused commands rotate behind untouched
\* commands, including across byte-limited pages").
NotPassedOver ==
    \A i \in DOMAIN asks :
        Current(i) /\ asks[i].rev = 1 => \A j \in DOMAIN asks : passed[i][j] <= 1

RelayIsSound == ResolvedOnce /\ RejectedIsDead /\ NotPassedOver

\* An open question's newest request will still be answered: the worker is
\* shown it (it is not, once the application's revision has moved).
NewestIsCurrent ==
    \A q \in Questions :
        LET of == {i \in DOMAIN asks : asks[i].q = q}
        IN  of # {} /\ ~question[q].resolved /\ Eligible /\ asks[Max(of)].status = "pending"
                => Current(Max(of))

================================================================================
