---------------------------- MODULE RefreshQueue ----------------------------
(***************************************************************************)
(* The queue behind the hosted refresh button: lib/refresh-queue.ts, the   *)
(* runner that serves it (scripts/claim-refresh.ts) and the visitors who   *)
(* fill it (POST in app/api/refresh/route.ts).  One row of refresh_requests *)
(* is open at a time.  A runner claims it, runs the cycle, and records how *)
(* it went; a claim older than ClaimTimeout belongs to nobody.             *)
(*                                                                         *)
(* Each action is one statement on the shared database, or a step of one   *)
(* process between two of them.  A claim's time stamp is only compared     *)
(* with the row's and with the clock, so a row keeps how often it was      *)
(* claimed (a new claim has a new stamp, because the claim before has to   *)
(* be older than ClaimTimeout) and the age of the last claim.              *)
(***************************************************************************)
EXTENDS Naturals

CONSTANTS
    Runners,        \* processes of claim-refresh.ts
    Cloud,          \* those of them that are jobs of the refresh workflow
    Visitors,       \* requests to POST /api/refresh
    ClaimTimeout,   \* CLAIM_TIMEOUT_MS, in ticks
    Limit,          \* the ticks after which the workflow stops its job
    MaxRequests,    \* bound: rows
    MaxFaults       \* bound: lost answers, failed statements and crashes

ASSUME RefreshAssumption ==
    /\ Cloud \subseteq Runners
    /\ ClaimTimeout \in Nat /\ Limit \in Nat /\ Limit <= ClaimTimeout
    /\ MaxRequests \in Nat /\ MaxFaults \in Nat

VARIABLES
    request,        \* refresh_requests by id
    runner,         \* what a runner holds in memory
    visitor,        \* what a visitor was answered; history: what was over before
    faults,         \* faults so far
    ended           \* history: <<id, claim, exit>> of the cycles that ended

vars == <<request, runner, visitor, faults, ended>>

Ids == 1..MaxRequests
Exits == {"ok", "failed"}

Row == [outcome : {"absent", "open"} \cup Exits,
        claims : Nat, age : 0..(ClaimTimeout + 1)]

\* job 0: a cycle nobody asked for.  held is the claim it read or made.
Runner == [pc : {"off", "claim", "cycle"} \cup Exits,
           job : 0..MaxRequests, held : Nat, used : 0..(ClaimTimeout + 1)]

Visitor == [pc : {"away", "insert", "read", "answered"},
            before : SUBSET Ids, answer : 0..MaxRequests]

Off == [pc |-> "off", job |-> 0, held |-> 0, used |-> 0]
Away == [pc |-> "away", before |-> {}, answer |-> 0]

Init ==
    /\ request = [i \in Ids |-> [outcome |-> "absent", claims |-> 0, age |-> 0]]
    /\ runner = [r \in Runners |-> Off]
    /\ visitor = [v \in Visitors |-> Away]
    /\ faults = 0
    /\ ended = {}

Open(i) == request[i].outcome = "open"
Done(i) == request[i].outcome \in Exits

Older(n) == IF n > ClaimTimeout THEN n ELSE n + 1

Fault == faults < MaxFaults /\ faults' = faults + 1

-----------------------------------------------------------------------------
(* requestRefresh: INSERT under the partial unique index, then SELECT.     *)

Click(v) ==
    /\ visitor[v].pc = "away"
    /\ visitor' = [visitor EXCEPT ![v].pc = "insert",
                                  ![v].before = {i \in Ids : Done(i)}]
    /\ UNCHANGED <<request, runner, faults, ended>>

Answer(v, i) == visitor' = [visitor EXCEPT ![v].pc = "answered", ![v].answer = i]

Insert(v) ==
    /\ visitor[v].pc = "insert"
    /\ \/ /\ \A i \in Ids : ~Open(i)
          /\ \E i \in Ids :
                /\ request[i].outcome = "absent"
                /\ \A j \in 1..(i - 1) : request[j].outcome # "absent"
                /\ request' = [request EXCEPT ![i].outcome = "open"]
                /\ Answer(v, i)
       \/ /\ \E i \in Ids : Open(i)
          /\ visitor' = [visitor EXCEPT ![v].pc = "read"]
          /\ UNCHANGED request
    /\ UNCHANGED <<runner, faults, ended>>

\* Mutant of ReadActive: a request that is over is taken for the active one.
ReadAnyRow(v) ==
    /\ visitor[v].pc = "read"
    /\ \E i \in Ids : request[i].outcome # "absent" /\ Answer(v, i)
    /\ UNCHANGED <<request, runner, faults, ended>>

ReadActive(v) ==
    /\ visitor[v].pc = "read"
    /\ \/ \E i \in Ids : Open(i) /\ Answer(v, i)
       \/ /\ \A i \in Ids : ~Open(i)
          /\ visitor' = [visitor EXCEPT ![v].pc = "insert"]
    /\ UNCHANGED <<request, runner, faults, ended>>

\* The response was read, or the database failed and the answer is a 500.
Leave(v) ==
    /\ visitor[v].pc # "away"
    /\ visitor' = [visitor EXCEPT ![v] = Away]
    /\ UNCHANGED <<request, runner, faults, ended>>

-----------------------------------------------------------------------------
(* claimAndRun: the claim is a read and a conditional write.               *)

\* Mutants of Pending: a claim is given up a tick early, or never.
PendingEarly(i) == Open(i) /\ (request[i].claims = 0 \/ request[i].age >= ClaimTimeout)
PendingUnclaimed(i) == Open(i) /\ request[i].claims = 0

\* pendingRequest
Pending(i) == Open(i) /\ (request[i].claims = 0 \/ request[i].age > ClaimTimeout)

\* The workflow starts claim-refresh with --always: without a claim it runs
\* the cycle for nobody.  Started by hand, the script ends.
WithoutClaim(r) ==
    runner' = [runner EXCEPT ![r] =
                  IF r \in Cloud
                  THEN [pc |-> "cycle", job |-> 0, held |-> 0, used |-> runner[r].used]
                  ELSE Off]

\* The workflow's concurrency group runs one job at a time.
MayStart(r) ==
    /\ runner[r].pc = "off"
    /\ r \in Cloud => \A c \in Cloud : runner[c].pc = "off"

Start(r) ==
    /\ MayStart(r)
    /\ \/ /\ \E i \in Ids :
                /\ Pending(i)
                /\ runner' = [runner EXCEPT ![r] = [pc |-> "claim", job |-> i,
                                                    held |-> request[i].claims, used |-> 0]]
          /\ UNCHANGED faults
       \/ (\A i \in Ids : ~Pending(i)) /\ WithoutClaim(r) /\ UNCHANGED faults
       \/ Fault /\ WithoutClaim(r)
    /\ UNCHANGED <<request, visitor, ended>>

\* Mutants of Matches: the claim, or the completion, is not compared.
MatchesAnyClaim(r) == Open(runner[r].job)
MatchesAnyOutcome(r) == request[runner[r].job].claims = runner[r].held

\* The WHERE of claimRequest and of finishRequest: still open, and claimed as
\* the runner knows it.
Matches(r) ==
    /\ Open(runner[r].job)
    /\ request[runner[r].job].claims = runner[r].held

TakeRow(r) ==
    request' = [request EXCEPT ![runner[r].job].claims = @ + 1,
                               ![runner[r].job].age = runner[r].used]

\* The last disjunct is a failed write, or one whose answer was lost.
Claim(r) ==
    /\ runner[r].pc = "claim"
    /\ \/ /\ Matches(r)
          /\ TakeRow(r)
          /\ runner' = [runner EXCEPT ![r].pc = "cycle",
                                      ![r].held = request[runner[r].job].claims + 1]
          /\ UNCHANGED faults
       \/ ~Matches(r) /\ WithoutClaim(r) /\ UNCHANGED <<request, faults>>
       \/ Fault /\ WithoutClaim(r) /\ (UNCHANGED request \/ (Matches(r) /\ TakeRow(r)))
    /\ UNCHANGED <<visitor, ended>>

\* Mutant of RunCycle: a cycle nobody asked for is finished like a request.
RunForRequest(r) ==
    /\ runner[r].pc = "cycle"
    /\ \E exit \in Exits :
          /\ runner' = [runner EXCEPT ![r].pc = exit]
          /\ ended' = ended \cup {<<runner[r].job, runner[r].held, exit>>}
    /\ UNCHANGED <<request, visitor, faults>>

RunCycle(r) ==
    /\ runner[r].pc = "cycle"
    /\ \E exit \in Exits :
          IF runner[r].job = 0
          THEN runner' = [runner EXCEPT ![r] = Off] /\ UNCHANGED ended
          ELSE /\ runner' = [runner EXCEPT ![r].pc = exit]
               /\ ended' = ended \cup {<<runner[r].job, runner[r].held, exit>>}
    /\ UNCHANGED <<request, visitor, faults>>

Finish(r) ==
    /\ runner[r].pc \in Exits
    /\ \/ /\ request' = IF Matches(r)
                        THEN [request EXCEPT ![runner[r].job].outcome = runner[r].pc]
                        ELSE request
          /\ UNCHANGED faults
       \/ Fault /\ UNCHANGED request
    /\ runner' = [runner EXCEPT ![r] = Off]
    /\ UNCHANGED <<visitor, ended>>

\* A crash, or the workflow's timeout.
Stop(r) ==
    /\ runner[r].pc # "off"
    /\ Fault
    /\ runner' = [runner EXCEPT ![r] = Off]
    /\ UNCHANGED <<request, visitor, ended>>

\* No job of the workflow lives longer than Limit.
Tick ==
    /\ \A c \in Cloud : runner[c].pc # "off" => runner[c].used < Limit
    /\ request' = [i \in Ids |->
          IF Open(i) /\ request[i].claims > 0
          THEN [request[i] EXCEPT !.age = Older(@)] ELSE request[i]]
    /\ runner' = [r \in Runners |->
          IF runner[r].pc # "off" THEN [runner[r] EXCEPT !.used = Older(@)] ELSE runner[r]]
    /\ UNCHANGED <<visitor, faults, ended>>

Ask(v) == Click(v) \/ Insert(v) \/ ReadActive(v) \/ Leave(v)
Serve(r) == Start(r) \/ Claim(r) \/ RunCycle(r) \/ Finish(r)

Next ==
    \/ \E v \in Visitors : Ask(v)
    \/ \E r \in Runners : Serve(r) \/ Stop(r)
    \/ Tick

Spec == Init /\ [][Next]_vars

\* The schedule starts a job again and again, and a job goes on by itself.
LiveSpec == Spec /\ WF_vars(Tick) /\ \A c \in Cloud : WF_vars(Serve(c))

-----------------------------------------------------------------------------
(* Types of the rows, of the processes and of the history. *)
TypeOK ==
    /\ request \in [Ids -> Row]
    /\ runner \in [Runners -> Runner]
    /\ visitor \in [Visitors -> Visitor]
    /\ faults \in 0..MaxFaults
    /\ ended \subseteq (Ids \X Nat \X Exits)

Holds(r) == runner[r].pc \in {"cycle"} \cup Exits /\ runner[r].job # 0

(* What a job of the workflow has claimed stays its own and open until the
   job is over: no other runner takes its claim for a dead one's, or closes
   its request.  It rests on the claim's conditional write and on the order
   of CLAIM_TIMEOUT_MS and the workflow's time limit. *)
CloudKeepsItsClaim == \A c \in Cloud : Holds(c) => Matches(c)

(* The outcome a request shows is that of the cycle of the claim that stands:
   a runner that was given up for dead and finishes after all says nothing
   about the cycle that replaced its own. *)
OutcomeIsOfTheClaim ==
    \A i \in Ids : Done(i) => <<i, request[i].claims, request[i].outcome>> \in ended

(* A visitor is given a request that was not over when the visitor asked,
   although a runner may close it between the INSERT and the SELECT. *)
AnswerIsFresh ==
    \A v \in Visitors : visitor[v].pc = "answered" => visitor[v].answer \notin visitor[v].before

(* A request that is over is never claimed again and keeps its outcome, also
   for a runner that read it while it was open. *)
CompletedStays == [][\A i \in Ids : Done(i) => request'[i] = request[i]]_vars

(* A request is served in the end, whatever becomes of its first runners: a
   lost claim is taken over by a later job. *)
RequestsEnd == \A i \in Ids : Open(i) ~> Done(i)
=============================================================================
