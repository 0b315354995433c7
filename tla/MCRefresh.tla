----------------------------- MODULE MCRefresh -----------------------------
(***************************************************************************)
(* The two parts of the repository that decide when a refresh cycle runs:  *)
(* the requests and their runners (RefreshQueue), and the lock of one      *)
(* machine (RefreshLock).  They share no state, so in a behaviour of this  *)
(* module one of them acts and the other stays as it began: "part" names   *)
(* the one that acts.                                                      *)
(***************************************************************************)
EXTENDS RefreshQueue, TLAPS

CONSTANTS Shells, Mirrors, MaxCrashes       \* those of RefreshLock
VARIABLES part, lock, proc, crashes, overlapped, sole
lockVars == <<lock, proc, crashes, overlapped, sole>>
refreshVars == <<vars, part, lockVars>>

Lock == INSTANCE RefreshLock

ASSUME LockValues == Lock!LockAssumption

RefreshInit == part \in {"queue", "lock"} /\ Init /\ Lock!Init

QueueActs(A) == part = "queue" /\ A /\ UNCHANGED <<part, lockVars>>
LockActs(A) == part = "lock" /\ A /\ UNCHANGED <<part, vars>>

RefreshNext == QueueActs(Next) \/ LockActs(Lock!Next)

\* The fairness of RefreshQueue!LiveSpec and of RefreshLock!LiveSpec.
RefreshFairness ==
    /\ WF_refreshVars(QueueActs(Tick))
    /\ \A c \in Cloud : WF_refreshVars(QueueActs(Serve(c)))
    /\ \A p \in Lock!Procs : WF_refreshVars(LockActs(Lock!Go(p)))
    /\ SF_refreshVars(LockActs(\E p \in Shells : Lock!Calm /\ Lock!Launch(p)))

RefreshSpec == RefreshInit /\ [][RefreshNext]_refreshVars /\ RefreshFairness

-----------------------------------------------------------------------------
\* Every variable of either part keeps its type.
RefreshTypeOK == TypeOK /\ Lock!TypeOK

\* A cycle or mirror that began while nobody was about to take or to remove the
\* lock runs alone under its name to its end, whatever starts beside it; and every
\* one is such while no start meets another under way.
OneCycle == Lock!OneCycle

\* Once starts no longer overlap, no lock that crashes or overlapping starts left
\* behind wedges the cycles after it.
CyclesGoOn == part = "lock" => Lock!CyclesGoOn

-----------------------------------------------------------------------------
(* The proofs: the queue's promises for any number of runners, visitors,   *)
(* rows and faults, and for any time limit of a job that is within         *)
(* ClaimTimeout; then the invariants that span the queue and the lock, or  *)
(* belong to the lock, for any number of processes and crashes too.        *)

(* A runner that read or holds a row holds a row that exists. *)
Placed ==
    \A r \in Runners : runner[r].pc \in {"claim"} \cup Exits => runner[r].job # 0

(* A row that was not asked for was not claimed. *)
Untouched == \A i \in Ids : request[i].outcome = "absent" => request[i].claims = 0

(* A row a runner is about to claim is still pending, or has changed. *)
StillPending ==
    \A r \in Runners : runner[r].pc = "claim" /\ Matches(r) => Pending(runner[r].job)

(* A runner knows no claim that was not made, and no two hold the same. *)
Owned ==
    /\ \A r \in Runners : Holds(r) => runner[r].held > 0
    /\ \A r \in Runners : runner[r].job # 0 =>
          runner[r].held <= request[runner[r].job].claims
    /\ \A r, s \in Runners :
          /\ Holds(r) /\ Holds(s)
          /\ runner[r].job = runner[s].job /\ runner[r].held = runner[s].held
          => r = s

(* The claim of a job is no older than the job, and so never expires in it. *)
InTime ==
    \A c \in Cloud :
       /\ runner[c].used <= Limit
       /\ Holds(c) => Matches(c) /\ request[runner[c].job].age <= runner[c].used

(* What a runner will report is in the history. *)
Told ==
    \A r \in Runners : runner[r].pc \in Exits =>
       <<runner[r].job, runner[r].held, runner[r].pc>> \in ended

(* What was over when a visitor asked is over. *)
OverBefore == \A v \in Visitors : \A i \in visitor[v].before : Done(i)

Claims == Placed /\ StillPending /\ Owned /\ InTime
Reports == Told /\ OutcomeIsOfTheClaim
Answers == OverBefore /\ AnswerIsFresh

USE RefreshAssumption

-----------------------------------------------------------------------------
LEMMA OlderType == \A n \in 0..(ClaimTimeout + 1) : Older(n) \in 0..(ClaimTimeout + 1)
BY DEF Older

LEMMA TypeInit == Init => TypeOK
BY DEF Init, TypeOK, Row, Runner, Visitor, Off, Away

\* Which disjunct of Next a step is.
LEMMA Steps ==
    ASSUME Next
    PROVE  \/ \E v \in Visitors : Ask(v)
           \/ \E r \in Runners : Start(r)
           \/ \E r \in Runners : Claim(r)
           \/ \E r \in Runners : RunCycle(r)
           \/ \E r \in Runners : Finish(r)
           \/ \E r \in Runners : Stop(r)
           \/ Tick
BY DEF Next, Serve

LEMMA TypeStep == TypeOK /\ Placed /\ [Next]_vars => TypeOK'
<1> SUFFICES ASSUME TypeOK, Placed, [Next]_vars PROVE TypeOK'
  OBVIOUS
<1> USE DEF TypeOK
<1>1. CASE UNCHANGED vars
  BY <1>1 DEF vars
<1>2. ASSUME NEW v \in Visitors, Ask(v) PROVE TypeOK'
  <2> visitor[v] \in Visitor
    OBVIOUS
  <2>1. ASSUME NEW i \in Ids, Answer(v, i) PROVE visitor' \in [Visitors -> Visitor]
    <3>1. i \in 0..MaxRequests
      BY DEF Ids
    <3>2. [visitor[v] EXCEPT !.pc = "answered", !.answer = i] \in Visitor
      BY <3>1 DEF Visitor
    <3>3. visitor' = [visitor EXCEPT ![v] =
                         [visitor[v] EXCEPT !.pc = "answered", !.answer = i]]
      BY <2>1 DEF Answer
    <3> QED BY <3>2, <3>3
  <2>2. CASE Click(v)
    <3>1. {i \in Ids : Done(i)} \in SUBSET Ids
      OBVIOUS
    <3> QED BY <2>2, <3>1 DEF Click, Visitor
  <2>3. CASE Leave(v)
    BY <2>3 DEF Leave, Away, Visitor
  <2>4. CASE ReadActive(v)
    BY <2>4, <2>1 DEF ReadActive, Visitor
  <2>5. CASE Insert(v)
    <3>1. visitor' \in [Visitors -> Visitor]
      BY <2>5, <2>1 DEF Insert, Visitor
    <3>2. request' \in [Ids -> Row]
      BY <2>5 DEF Insert, Row
    <3> QED BY <2>5, <3>1, <3>2 DEF Insert
  <2> QED BY <1>2, <2>2, <2>3, <2>4, <2>5 DEF Ask
<1>3. ASSUME NEW r \in Runners, Start(r) PROVE TypeOK'
  <2>1. WithoutClaim(r) => runner' \in [Runners -> Runner]
    BY DEF WithoutClaim, Off, Runner
  <2>2. ASSUME NEW i \in Ids, runner' = [runner EXCEPT ![r] =
                 [pc |-> "claim", job |-> i, held |-> request[i].claims, used |-> 0]]
        PROVE  runner' \in [Runners -> Runner]
    BY <2>2 DEF Runner, Row, Ids
  <2> QED BY <1>3, <2>1, <2>2 DEF Start, Fault
<1>4. ASSUME NEW r \in Runners, Claim(r) PROVE TypeOK'
  <2>1. runner[r].job \in Ids /\ runner[r] \in Runner
    BY <1>4 DEF Claim, Placed, Runner, Ids
  <2>2. WithoutClaim(r) => runner' \in [Runners -> Runner]
    BY <2>1 DEF WithoutClaim, Off, Runner
  <2>3. TakeRow(r) => request' \in [Ids -> Row]
    BY <2>1 DEF TakeRow, Row, Runner
  <2>4. request[runner[r].job].claims + 1 \in Nat
    BY <2>1 DEF Row
  <2>5. runner' \in [Runners -> Runner]
    BY <1>4, <2>1, <2>2, <2>4 DEF Claim, Runner
  <2> QED BY <1>4, <2>3, <2>5 DEF Claim, Fault
<1>5. ASSUME NEW r \in Runners, RunCycle(r) PROVE TypeOK'
  <2>1. runner[r] \in Runner
    OBVIOUS
  <2>2. PICK exit \in Exits :
           IF runner[r].job = 0
           THEN runner' = [runner EXCEPT ![r] = Off] /\ UNCHANGED ended
           ELSE /\ runner' = [runner EXCEPT ![r].pc = exit]
                /\ ended' = ended \cup {<<runner[r].job, runner[r].held, exit>>}
    BY <1>5 DEF RunCycle
  <2>3. runner' \in [Runners -> Runner]
    BY <2>1, <2>2 DEF Runner, Off, Exits
  <2>4. ended' \subseteq (Ids \X Nat \X Exits)
    BY <2>1, <2>2 DEF Runner, Ids
  <2> QED BY <1>5, <2>3, <2>4 DEF RunCycle
<1>6. ASSUME NEW r \in Runners, Finish(r) PROVE TypeOK'
  <2>1. runner[r].job \in Ids /\ runner[r].pc \in Exits
    BY <1>6 DEF Finish, Placed, Runner, Ids
  <2>2. request' \in [Ids -> Row]
    BY <1>6, <2>1 DEF Finish, Row
  <2>3. runner' \in [Runners -> Runner]
    BY <1>6 DEF Finish, Off, Runner
  <2> QED BY <1>6, <2>2, <2>3 DEF Finish, Fault
<1>7. ASSUME NEW r \in Runners, Stop(r) PROVE TypeOK'
  BY <1>7 DEF Stop, Fault, Off, Runner
<1>8. CASE Tick
  <2>1. request' \in [Ids -> Row]
    BY <1>8, OlderType DEF Tick, Row
  <2>2. runner' \in [Runners -> Runner]
    BY <1>8, OlderType DEF Tick, Runner
  <2> QED BY <1>8, <2>1, <2>2 DEF Tick
<1> QED BY Steps, <1>1, <1>2, <1>3, <1>4, <1>5, <1>6, <1>7, <1>8

-----------------------------------------------------------------------------
LEMMA ClaimsInit == Init => Placed /\ Claims
BY DEF Init, Claims, Placed, StillPending, Owned, InTime, Holds, Off, Exits

\* A runner that goes on without a claim, or ends, holds nothing and changes
\* no row: what is said of the others stays true.
LEMMA LetsGo ==
    ASSUME TypeOK, Claims, NEW r \in Runners, UNCHANGED request,
           \/ runner' = [runner EXCEPT ![r] = Off]
           \/ WithoutClaim(r)
    PROVE  Claims'
<1>1. /\ runner' \in [Runners -> Runner]
      /\ \A s \in Runners \ {r} : runner'[s] = runner[s]
      /\ runner'[r].job = 0 /\ runner'[r].held = 0 /\ runner'[r].pc \in {"off", "cycle"}
      /\ r \in Cloud => runner'[r].used <= Limit
  BY DEF TypeOK, WithoutClaim, Off, Runner, Claims, InTime
<1>2. Placed'
  BY <1>1 DEF Claims, Placed, Exits
<1>3. \A s \in Runners : Matches(s)' /\ s # r => Matches(s)
  BY <1>1 DEF Matches, Open
<1>4. StillPending'
  BY <1>1, <1>3 DEF Claims, StillPending, Pending, Open
<1>5. Owned'
  BY <1>1 DEF Claims, Owned, Holds
<1>6. InTime'
  BY <1>1 DEF Claims, InTime, Holds, Matches, Open
<1> QED BY <1>2, <1>4, <1>5, <1>6 DEF Claims

\* A claim that matches takes a pending row, which no job holds.
LEMMA TakesPending ==
    ASSUME TypeOK, Claims, NEW r \in Runners, runner[r].pc = "claim", Matches(r)
    PROVE  /\ runner[r].job \in Ids
           /\ \A c \in Cloud : Holds(c) => runner[c].job # runner[r].job
<1>1. runner[r].job \in Ids
  BY DEF TypeOK, Runner, Claims, Placed, Ids
<1>2. Pending(runner[r].job)
  BY DEF Claims, StillPending
<1>3. SUFFICES ASSUME NEW c \in Cloud, Holds(c), runner[c].job = runner[r].job
               PROVE  FALSE
  BY <1>1
<1>4. request[runner[r].job].claims > 0 /\ request[runner[r].job].age <= Limit
  <2>1. /\ request[runner[r].job].claims = runner[c].held /\ runner[c].held > 0
        /\ request[runner[r].job].age <= runner[c].used /\ runner[c].used <= Limit
    BY <1>3 DEF Claims, InTime, Owned, Matches
  <2>2. request[runner[r].job].age \in Nat /\ runner[c].used \in Nat
    BY <1>1 DEF TypeOK, Row, Runner
  <2> QED BY <2>1, <2>2
<1>5. request[runner[r].job] \in Row
  BY <1>1 DEF TypeOK
<1> QED BY <1>2, <1>4, <1>5 DEF Pending, Row

\* The row is taken, by a runner that knows it (held) or one that does not.
LEMMA TakeRowStep ==
    ASSUME TypeOK, Claims, NEW r \in Runners, runner[r].pc = "claim", Matches(r),
           TakeRow(r),
           \/ runner' = [runner EXCEPT ![r].pc = "cycle",
                                       ![r].held = request[runner[r].job].claims + 1]
           \/ WithoutClaim(r)
    PROVE  Claims'
<1> DEFINE i == runner[r].job
<1>1. i \in Ids /\ runner[r] \in Runner /\ request[i] \in Row
  BY TakesPending DEF TypeOK
<1>2. /\ \A j \in Ids \ {i} : request'[j] = request[j]
      /\ request'[i].claims = request[i].claims + 1
      /\ request'[i].age = runner[r].used
      /\ request'[i].outcome = "open"
  BY <1>1 DEF TakeRow, TypeOK, Row, Matches, Open
<1>3. /\ \A s \in Runners \ {r} : runner'[s] = runner[s]
      /\ runner'[r].pc \in {"off", "cycle"}
      /\ \/ runner'[r].job = 0
         \/ runner'[r].job = i /\ runner'[r].held = request[i].claims + 1
      /\ r \in Cloud => runner'[r].used = runner[r].used
  BY <1>1 DEF TypeOK, Runner, WithoutClaim, Off
<1>4. Placed'
  BY <1>3 DEF Claims, Placed, Exits
<1>6. StillPending'
  <2> SUFFICES ASSUME NEW s \in Runners, runner'[s].pc = "claim", Matches(s)'
               PROVE  Pending(runner[s].job)'
    BY DEF StillPending
  <2>1. s # r /\ runner'[s] = runner[s]
    BY <1>3
  <2>2. runner[s].job \in Ids
    BY <2>1 DEF TypeOK, Runner, Claims, Placed, Ids
  <2>3. CASE runner[s].job = i
    <3>1. runner[s].held = request[i].claims + 1 /\ runner[s].held <= request[i].claims
      BY <1>2, <2>1, <2>2, <2>3 DEF Matches, Claims, Owned, Ids
    <3> QED BY <1>1, <3>1 DEF Row
  <2>4. CASE runner[s].job # i
    BY <1>2, <2>1, <2>2, <2>4 DEF Claims, StillPending, Matches, Pending, Open
  <2> QED BY <2>3, <2>4
<1>7. Owned'
  <2>1. \A s \in Runners : runner'[s].job # 0 => runner'[s].held <= request'[runner'[s].job].claims
    <3> SUFFICES ASSUME NEW s \in Runners, runner'[s].job # 0
                 PROVE  runner'[s].held <= request'[runner'[s].job].claims
      OBVIOUS
    <3>1. CASE s = r
      BY <1>1, <1>2, <1>3, <3>1 DEF Row
    <3>2. CASE s # r
      <4>1. runner[s].job \in Ids /\ runner[s].held \in Nat
        BY <1>3, <3>2 DEF TypeOK, Runner, Ids
      <4>2. request[runner[s].job].claims \in Nat
        BY <4>1 DEF TypeOK, Row
      <4>3. runner[s].held <= request[runner[s].job].claims
        BY <1>3, <3>2 DEF Claims, Owned
      <4> QED BY <1>2, <1>3, <3>2, <4>1, <4>2, <4>3
    <3> QED BY <3>1, <3>2
  <2>2. \A s \in Runners : Holds(s)' => runner'[s].held > 0
    BY <1>1, <1>3 DEF Claims, Owned, Holds, Row
  <2>3. ASSUME NEW s \in Runners \ {r}, Holds(s)', Holds(r)',
               runner'[s].job = runner'[r].job
        PROVE  runner'[s].held # runner'[r].held
    <3>1. runner[s].job = i /\ runner[s].held <= request[i].claims
      BY <1>1, <1>3, <2>3 DEF Claims, Owned, Holds, Ids
    <3>2. runner'[r].held = request[i].claims + 1
      BY <1>3, <2>3 DEF Holds
    <3> QED BY <1>1, <1>3, <2>3, <3>1, <3>2 DEF Row, TypeOK, Runner
  <2> QED BY <1>3, <2>1, <2>2, <2>3 DEF Claims, Owned, Holds
<1>8. InTime'
  <2> SUFFICES ASSUME NEW c \in Cloud
               PROVE  /\ runner'[c].used <= Limit
                      /\ Holds(c)' => /\ Matches(c)'
                                      /\ request'[runner'[c].job].age <= runner'[c].used
    BY DEF InTime
  <2>1. runner'[c].used = runner[c].used
    BY <1>3
  <2>2. ASSUME Holds(c)', c # r
        PROVE  Matches(c)' /\ request'[runner'[c].job].age <= runner'[c].used
    <3>1. Holds(c) /\ runner[c].job # i
      BY <1>3, <2>2, TakesPending DEF Holds
    <3>2. runner[c].job \in Ids
      BY <3>1 DEF Holds, TypeOK, Runner, Ids
    <3> QED BY <1>2, <1>3, <2>2, <3>1, <3>2 DEF Claims, InTime, Matches, Open
  <2>3. ASSUME Holds(c)', c = r
        PROVE  Matches(c)' /\ request'[runner'[c].job].age <= runner'[c].used
    BY <1>1, <1>2, <1>3, <2>3 DEF Holds, Matches, Open, Runner
  <2> QED BY <2>1, <2>2, <2>3 DEF Claims, InTime
<1> QED BY <1>4, <1>6, <1>7, <1>8 DEF Claims

LEMMA StartStep == ASSUME TypeOK, Claims, NEW r \in Runners, Start(r) PROVE Claims'
<1>1. CASE WithoutClaim(r)
  BY <1>1, LetsGo DEF Start
<1>2. ASSUME NEW i \in Ids, Pending(i),
             runner' = [runner EXCEPT ![r] = [pc |-> "claim", job |-> i,
                                              held |-> request[i].claims, used |-> 0]]
      PROVE  Claims'
  <2>1. request' = request /\ request[i] \in Row
    BY DEF Start, TypeOK
  <2>2. Placed'
    BY <1>2 DEF TypeOK, Claims, Placed, Exits, Ids
  <2>3. StillPending'
    BY <1>2, <2>1 DEF TypeOK, Claims, StillPending, Matches, Pending, Open
  <2>4. Owned'
    BY <1>2, <2>1 DEF TypeOK, Claims, Owned, Holds, Row, Exits
  <2>5. InTime'
    BY <1>2, <2>1 DEF TypeOK, Claims, InTime, Holds, Matches, Open, Exits
  <2> QED BY <2>2, <2>3, <2>4, <2>5 DEF Claims
<1> QED BY <1>1, <1>2 DEF Start

LEMMA ClaimStep == ASSUME TypeOK, Claims, NEW r \in Runners, Claim(r) PROVE Claims'
<1>1. CASE UNCHANGED request /\ WithoutClaim(r)
  BY <1>1, LetsGo
<1>2. CASE Matches(r) /\ TakeRow(r)
  BY <1>2, TakeRowStep DEF Claim
<1> QED BY <1>1, <1>2 DEF Claim

LEMMA RunCycleStep == ASSUME TypeOK, Claims, NEW r \in Runners, RunCycle(r) PROVE Claims'
<1>1. CASE runner' = [runner EXCEPT ![r] = Off]
  BY <1>1, LetsGo DEF RunCycle
<1>2. ASSUME NEW exit \in Exits, runner[r].job # 0, runner' = [runner EXCEPT ![r].pc = exit]
      PROVE  Claims'
  <2>1. /\ request' = request
        /\ \A s \in Runners \ {r} : runner'[s] = runner[s]
        /\ runner'[r].pc = exit /\ runner'[r].job = runner[r].job
        /\ runner'[r].held = runner[r].held /\ runner'[r].used = runner[r].used
    BY <1>2 DEF RunCycle, TypeOK, Runner
  <2>2. \A s \in Runners : (Holds(s)' => Holds(s)) /\ (Matches(s)' <=> Matches(s))
    BY <1>2, <2>1 DEF Holds, Matches, Open, RunCycle
  <2>3. Placed'
    BY <1>2, <2>1 DEF Claims, Placed
  <2>4. StillPending'
    BY <2>1, <2>2 DEF Claims, StillPending, Pending, Open, Exits
  <2>5. Owned'
    BY <2>1, <2>2 DEF Claims, Owned
  <2>6. InTime'
    BY <2>1, <2>2 DEF Claims, InTime
  <2> QED BY <2>3, <2>4, <2>5, <2>6 DEF Claims
<1> QED BY <1>1, <1>2 DEF RunCycle

LEMMA FinishStep == ASSUME TypeOK, Claims, NEW r \in Runners, Finish(r) PROVE Claims'
<1> DEFINE i == runner[r].job
<1>1. CASE request' = request
  BY <1>1, LetsGo DEF Finish
<1>2. CASE Matches(r) /\ request' = [request EXCEPT ![i].outcome = runner[r].pc]
  <2>1. i \in Ids /\ Holds(r)
    BY DEF TypeOK, Runner, Claims, Placed, Ids, Finish, Holds
  <2>2. /\ \A j \in Ids \ {i} : request'[j] = request[j]
        /\ request'[i].claims = request[i].claims /\ request'[i].age = request[i].age
        /\ request'[i].outcome \in Exits
    BY <1>2, <2>1 DEF TypeOK, Row, Finish
  <2>3. \A s \in Runners \ {r} : runner'[s] = runner[s]
    BY DEF Finish
  <2>4. runner'[r] = Off
    BY DEF Finish, TypeOK
  <2>5. Placed'
    BY <2>3, <2>4 DEF Claims, Placed, Off, Exits
  <2>6. StillPending'
    <3> SUFFICES ASSUME NEW s \in Runners, runner'[s].pc = "claim", Matches(s)'
                 PROVE  Pending(runner[s].job)'
      BY DEF StillPending
    <3>1. s # r /\ runner'[s] = runner[s] /\ runner[s].job \in Ids
      BY <2>3, <2>4 DEF Off, TypeOK, Runner, Claims, Placed, Ids
    <3>2. runner[s].job # i
      BY <2>2, <3>1 DEF Matches, Open, Exits
    <3> QED BY <2>2, <3>1, <3>2 DEF Claims, StillPending, Matches, Pending, Open
  <2>7. Owned'
    <3>1. \A s \in Runners : runner'[s].job # 0 =>
             /\ s # r /\ runner[s].job \in Ids
             /\ request'[runner[s].job].claims = request[runner[s].job].claims
      BY <2>2, <2>3, <2>4 DEF Off, TypeOK, Runner, Ids
    <3> QED BY <2>3, <3>1 DEF Claims, Owned, Holds
  <2>8. InTime'
    <3> SUFFICES ASSUME NEW c \in Cloud
                 PROVE  /\ runner'[c].used <= Limit
                        /\ Holds(c)' => /\ Matches(c)'
                                        /\ request'[runner'[c].job].age <= runner'[c].used
      BY DEF InTime
    <3>1. CASE c = r
      BY <2>4, <3>1 DEF Off, Holds
    <3>2. ASSUME c # r, Holds(c)
          PROVE  Matches(c)' /\ request'[runner'[c].job].age <= runner'[c].used
      <4>1. runner[c].job \in Ids /\ Matches(c)
        BY <3>2 DEF Holds, TypeOK, Runner, Ids, Claims, InTime
      <4>2. runner[c].job # i
        BY <1>2, <2>1, <3>2, <4>1 DEF Matches, Claims, Owned
      <4> QED BY <2>2, <2>3, <3>2, <4>1, <4>2 DEF Claims, InTime, Matches, Open
    <3> QED BY <2>3, <3>1, <3>2 DEF Claims, InTime, Holds
  <2> QED BY <2>5, <2>6, <2>7, <2>8 DEF Claims
<1> QED BY <1>1, <1>2 DEF Finish

LEMMA TickStep == ASSUME TypeOK, Claims, Tick PROVE Claims'
<1>1. \A s \in Runners :
         /\ runner'[s].pc = runner[s].pc /\ runner'[s].job = runner[s].job
         /\ runner'[s].held = runner[s].held
         /\ runner'[s].used = IF runner[s].pc # "off" THEN Older(runner[s].used)
                                                     ELSE runner[s].used
  BY DEF Tick, TypeOK, Runner
<1>2. \A j \in Ids :
         /\ request'[j].outcome = request[j].outcome
         /\ request'[j].claims = request[j].claims
         /\ request'[j].age = IF Open(j) /\ request[j].claims > 0
                              THEN Older(request[j].age) ELSE request[j].age
  BY DEF Tick, TypeOK, Row
<1>3. \A s \in Runners : runner[s].job # 0 => runner[s].job \in Ids
  BY DEF TypeOK, Runner, Ids
<1>4. \A s \in Runners : runner[s].job # 0 => (Matches(s)' <=> Matches(s))
  BY <1>1, <1>2, <1>3 DEF Matches, Open
<1>5. Placed'
  BY <1>1 DEF Claims, Placed
<1>6. StillPending'
  <2> SUFFICES ASSUME NEW s \in Runners, runner'[s].pc = "claim", Matches(s)'
               PROVE  Pending(runner[s].job)'
    BY <1>1 DEF StillPending
  <2>1. runner[s].job \in Ids /\ Pending(runner[s].job)
    BY <1>1, <1>3, <1>4 DEF Claims, Placed, StillPending
  <2>2. request[runner[s].job] \in Row
    BY <2>1 DEF TypeOK
  <2> QED BY <1>1, <1>2, <2>1, <2>2 DEF Pending, Open, Older, Row
<1>7. Owned'
  BY <1>1, <1>2, <1>3 DEF Claims, Owned, Holds
<1>8. InTime'
  <2> SUFFICES ASSUME NEW c \in Cloud
               PROVE  /\ runner'[c].used <= Limit
                      /\ Holds(c)' => /\ Matches(c)'
                                      /\ request'[runner'[c].job].age <= runner'[c].used
    BY DEF InTime
  <2>1. runner[c].used \in Nat
    BY DEF TypeOK, Runner
  <2>2. runner'[c].used <= Limit
    BY <1>1, <2>1 DEF Claims, InTime, Tick, Older
  <2>3. ASSUME Holds(c)
        PROVE  Matches(c)' /\ request'[runner'[c].job].age <= runner'[c].used
    <3>1. /\ runner[c].job \in Ids /\ Matches(c) /\ runner[c].pc # "off"
          /\ request[runner[c].job].age <= runner[c].used /\ runner[c].used < Limit
      BY <1>3, <2>3 DEF Holds, Claims, InTime, Tick, Exits
    <3>2. request[runner[c].job].age \in Nat
      BY <3>1 DEF TypeOK, Row
    <3>3. Matches(c)'
      BY <1>4, <2>3, <3>1 DEF Holds
    <3>4. runner'[c].used = runner[c].used + 1
      BY <1>1, <2>1, <3>1 DEF Older
    <3>5. CASE Open(runner[c].job) /\ request[runner[c].job].claims > 0
      BY <1>1, <1>2, <2>1, <3>1, <3>2, <3>3, <3>4, <3>5 DEF Older
    <3>6. CASE ~(Open(runner[c].job) /\ request[runner[c].job].claims > 0)
      BY <1>1, <1>2, <2>1, <3>1, <3>2, <3>3, <3>4, <3>6
    <3> QED BY <3>5, <3>6
  <2> QED BY <1>1, <2>2, <2>3 DEF Holds
<1> QED BY <1>5, <1>6, <1>7, <1>8 DEF Claims

LEMMA UntouchedStep == TypeOK /\ Placed /\ Untouched /\ [Next]_vars => Untouched'
<1> SUFFICES ASSUME TypeOK, Placed, Untouched, [Next]_vars PROVE Untouched'
  OBVIOUS
<1> USE DEF Untouched
<1>1. CASE UNCHANGED request
  BY <1>1
<1>2. ASSUME NEW v \in Visitors, Insert(v) PROVE Untouched'
  BY <1>2 DEF Insert, TypeOK, Row
<1>3. ASSUME NEW r \in Runners, Matches(r), TakeRow(r), runner[r].pc = "claim"
      PROVE  Untouched'
  BY <1>3 DEF TakeRow, Matches, Open, TypeOK, Row
<1>4. ASSUME NEW r \in Runners, Finish(r) PROVE Untouched'
  BY <1>4 DEF Finish, Matches, TypeOK, Row, Exits
<1>5. CASE Tick
  BY <1>5 DEF Tick, TypeOK, Row
<1> QED
  BY Steps, <1>1, <1>2, <1>3, <1>4, <1>5
  DEF vars, Ask, Click, ReadActive, Leave, Start, Claim, RunCycle, Stop

LEMMA AskStep ==
    ASSUME TypeOK, Untouched, Claims, NEW v \in Visitors, Ask(v) PROVE Claims'
<1>1. runner' = runner
  BY DEF Ask, Click, Insert, ReadActive, Leave
<1>2. CASE request' = request
  BY <1>1, <1>2 DEF Claims, Placed, StillPending, Owned, InTime, Holds, Matches, Pending, Open
<1>3. ASSUME NEW i \in Ids, request[i].outcome = "absent",
             request' = [request EXCEPT ![i].outcome = "open"]
      PROVE  Claims'
  <2>1. /\ \A j \in Ids : request'[j].claims = request[j].claims
                        /\ request'[j].age = request[j].age
        /\ \A j \in Ids \ {i} : request'[j] = request[j]
        /\ request'[i].outcome = "open" /\ request'[i].claims = 0
    BY <1>3 DEF TypeOK, Row, Untouched
  <2>2. \A r \in Runners : runner[r].job # 0 => runner[r].job \in Ids
    BY DEF TypeOK, Runner, Ids
  <2>3. Placed'
    BY <1>1 DEF Claims, Placed
  <2>4. StillPending'
    <3> SUFFICES ASSUME NEW r \in Runners, runner[r].pc = "claim", Matches(r)'
                 PROVE  Pending(runner[r].job)'
      BY <1>1 DEF StillPending
    <3>1. runner[r].job \in Ids
      BY <2>2 DEF Claims, Placed
    <3>2. CASE runner[r].job = i
      BY <1>1, <2>1, <3>2 DEF Pending, Open
    <3>3. CASE runner[r].job # i
      BY <1>1, <2>1, <3>1, <3>3 DEF Claims, StillPending, Matches, Pending, Open
    <3> QED BY <3>2, <3>3
  <2>5. Owned'
    BY <1>1, <2>1, <2>2 DEF Claims, Owned, Holds
  <2>6. InTime'
    <3> SUFFICES ASSUME NEW c \in Cloud, Holds(c)
                 PROVE  Matches(c)' /\ request'[runner[c].job].age <= runner[c].used
      BY <1>1 DEF Claims, InTime, Holds
    <3>1. Matches(c) /\ runner[c].job \in Ids /\ runner[c].job # i
      BY <1>3, <2>2 DEF Claims, InTime, Holds, Matches, Open
    <3> QED BY <1>1, <2>1, <3>1 DEF Claims, InTime, Matches, Open
  <2> QED BY <2>3, <2>4, <2>5, <2>6 DEF Claims
<1> QED BY <1>2, <1>3 DEF Ask, Click, Insert, ReadActive, Leave

LEMMA ClaimsStep == TypeOK /\ Untouched /\ Claims /\ [Next]_vars => Claims'
<1> SUFFICES ASSUME TypeOK, Untouched, Claims, [Next]_vars PROVE Claims'
  OBVIOUS
<1>1. CASE UNCHANGED vars
  BY <1>1
  DEF vars, Claims, Placed, StillPending, Owned, InTime, Holds, Matches, Pending, Open
<1>2. ASSUME NEW r \in Runners, Stop(r) PROVE Claims'
  BY <1>2, LetsGo DEF Stop
<1> QED
  BY Steps, AskStep, StartStep, ClaimStep, RunCycleStep, FinishStep, TickStep, <1>1, <1>2

-----------------------------------------------------------------------------
\* What a step does to a row that is over: nothing.
LEMMA DoneStays ==
    ASSUME TypeOK, [Next]_vars, NEW i \in Ids, Done(i)
    PROVE  request'[i] = request[i]
<1>1. request[i].outcome # "open" /\ request[i].outcome # "absent"
  BY DEF Done, Exits
<1>2. ASSUME NEW v \in Visitors, Insert(v) PROVE request'[i] = request[i]
  BY <1>1, <1>2 DEF Insert, TypeOK
<1>3. ASSUME NEW r \in Runners, Matches(r), TakeRow(r) PROVE request'[i] = request[i]
  BY <1>1, <1>3 DEF Matches, TakeRow, Open, TypeOK
<1>4. ASSUME NEW r \in Runners, Finish(r) PROVE request'[i] = request[i]
  BY <1>1, <1>4 DEF Finish, Matches, Open, TypeOK
<1>5. CASE Tick
  BY <1>1, <1>5 DEF Tick, Open
<1> QED
  BY Steps, <1>2, <1>3, <1>4, <1>5
  DEF vars, Ask, Click, ReadActive, Leave, Start, Claim, RunCycle, Stop

LEMMA ToldStep == TypeOK /\ Placed /\ Told /\ [Next]_vars => Told' /\ ended \subseteq ended'
<1> SUFFICES ASSUME TypeOK, Placed, Told, [Next]_vars PROVE Told' /\ ended \subseteq ended'
  OBVIOUS
<1>1. CASE UNCHANGED <<runner, ended>>
  BY <1>1 DEF Told
<1>2. ASSUME NEW r \in Runners, UNCHANGED ended, runner'[r].pc \notin Exits,
             \A s \in Runners \ {r} : runner'[s] = runner[s]
      PROVE  Told' /\ ended \subseteq ended'
  BY <1>2 DEF Told
<1>3. ASSUME NEW r \in Runners, Start(r) \/ Claim(r) \/ Finish(r) \/ Stop(r)
      PROVE  Told' /\ ended \subseteq ended'
  <2>1. UNCHANGED ended /\ \A s \in Runners \ {r} : runner'[s] = runner[s]
    BY <1>3 DEF Start, Claim, Finish, Stop, WithoutClaim, TypeOK
  <2>2. runner'[r].pc \notin Exits
    BY <1>3 DEF Start, Claim, Finish, Stop, WithoutClaim, TypeOK, Runner, Off, Exits
  <2> QED BY <1>2, <2>1, <2>2
<1>4. ASSUME NEW r \in Runners, RunCycle(r) PROVE Told' /\ ended \subseteq ended'
  <2>1. CASE runner' = [runner EXCEPT ![r] = Off] /\ UNCHANGED ended
    BY <1>2, <2>1 DEF TypeOK, Off, Exits
  <2>2. ASSUME NEW exit \in Exits, runner' = [runner EXCEPT ![r].pc = exit],
               ended' = ended \cup {<<runner[r].job, runner[r].held, exit>>}
        PROVE  Told' /\ ended \subseteq ended'
    BY <2>2 DEF Told, TypeOK, Runner
  <2> QED BY <1>4, <2>1, <2>2 DEF RunCycle
<1>5. CASE Tick
  BY <1>5 DEF Tick, Told, TypeOK, Runner
<1> QED
  BY Steps, <1>1, <1>3, <1>4, <1>5
  DEF vars, Ask, Click, Insert, ReadActive, Leave

LEMMA ReportsStep == TypeOK /\ Placed /\ Reports /\ [Next]_vars => Reports'
<1> SUFFICES ASSUME TypeOK, Placed, Reports, [Next]_vars PROVE OutcomeIsOfTheClaim'
  BY ToldStep DEF Reports
<1> SUFFICES ASSUME NEW i \in Ids, Done(i)'
             PROVE  <<i, request'[i].claims, request'[i].outcome>> \in ended'
  BY DEF OutcomeIsOfTheClaim
<1>1. ended \subseteq ended'
  BY ToldStep DEF Reports
<1>2. CASE Done(i)
  BY <1>1, <1>2, DoneStays DEF Reports, OutcomeIsOfTheClaim
<1>3. CASE ~Done(i)
  <2>1. PICK r \in Runners : /\ Finish(r) /\ Matches(r) /\ runner[r].job = i
                            /\ request' = [request EXCEPT ![i].outcome = runner[r].pc]
    <3>1. CASE UNCHANGED request
      BY <1>3, <3>1 DEF Done
    <3>2. ASSUME NEW v \in Visitors, Insert(v) PROVE FALSE
      BY <1>3, <3>2 DEF Insert, Done, TypeOK, Row, Exits
    <3>3. ASSUME NEW r \in Runners, TakeRow(r) PROVE FALSE
      BY <1>3, <3>3 DEF TakeRow, Done, TypeOK, Row
    <3>4. CASE Tick
      BY <1>3, <3>4 DEF Tick, Done, TypeOK, Row
    <3>5. ASSUME NEW r \in Runners, Finish(r)
          PROVE  /\ Matches(r) /\ runner[r].job = i
                 /\ request' = [request EXCEPT ![i].outcome = runner[r].pc]
      BY <1>3, <3>5 DEF Finish, Done, TypeOK, Row
    <3> QED
      BY Steps, <3>1, <3>2, <3>3, <3>4, <3>5
      DEF vars, Ask, Click, ReadActive, Leave, Start, Claim, RunCycle, Stop
  <2>2. /\ request'[i].claims = runner[r].held
        /\ request'[i].outcome = runner[r].pc
    BY <2>1 DEF Matches, TypeOK, Row
  <2> QED BY <1>1, <2>1, <2>2 DEF Finish, Reports, Told
<1> QED BY <1>2, <1>3

LEMMA AnswersStep == TypeOK /\ Answers /\ [Next]_vars => Answers'
<1> SUFFICES ASSUME TypeOK, Answers, [Next]_vars PROVE Answers'
  OBVIOUS
<1>1. \A i \in Ids : Done(i) => Done(i)'
  BY DoneStays DEF Done
<1>2. CASE visitor' = visitor
  BY <1>1, <1>2 DEF Answers, OverBefore, AnswerIsFresh, TypeOK, Visitor
<1>3. ASSUME NEW v \in Visitors, Click(v) \/ Leave(v) PROVE Answers'
  BY <1>1, <1>3 DEF Click, Leave, Away, Answers, OverBefore, AnswerIsFresh, TypeOK, Visitor
<1>4. ASSUME NEW v \in Visitors, NEW i \in Ids, Answer(v, i), ~Done(i) PROVE Answers'
  BY <1>1, <1>4 DEF Answer, Answers, OverBefore, AnswerIsFresh, TypeOK, Visitor
<1>5. ASSUME NEW v \in Visitors, NEW pc \in {"read", "insert"},
             visitor' = [visitor EXCEPT ![v].pc = pc]
      PROVE  Answers'
  BY <1>1, <1>5 DEF Answers, OverBefore, AnswerIsFresh, TypeOK, Visitor
<1>6. ASSUME NEW v \in Visitors, Insert(v) \/ ReadActive(v) PROVE Answers'
  BY <1>4, <1>5, <1>6 DEF Insert, ReadActive, Done, Open, Exits
<1> QED
  BY Steps, <1>2, <1>3, <1>6
  DEF vars, Ask, Start, Claim, RunCycle, Finish, Stop, Tick

-----------------------------------------------------------------------------
LEMMA Everything == Spec => [](TypeOK /\ Untouched /\ Claims /\ Reports /\ Answers)
<1>1. Init => TypeOK /\ Untouched /\ Claims /\ Reports /\ Answers
  <2>1. Init => Untouched /\ Reports /\ Answers
    BY DEF Init, Untouched, Reports, Told, OutcomeIsOfTheClaim, Done, Answers, OverBefore,
           AnswerIsFresh, Off, Away, Exits
  <2> QED BY <2>1, TypeInit, ClaimsInit
<1>2. TypeOK /\ Untouched /\ Claims /\ Reports /\ Answers /\ [Next]_vars
      => (TypeOK /\ Untouched /\ Claims /\ Reports /\ Answers)'
  BY TypeStep, UntouchedStep, ClaimsStep, ReportsStep, AnswersStep DEF Claims
<1> QED BY <1>1, <1>2, PTL DEF Spec

(* Types of the rows and processes (refresh_requests, claim-refresh.ts). *)
THEOREM RequestTypes == Spec => []TypeOK
BY Everything, PTL

(* What a job of the workflow claims is its own until the job is over
   (claimRequest, with CLAIM_TIMEOUT_MS against the workflow's limit). *)
THEOREM CloudKeeps == Spec => []CloudKeepsItsClaim
<1>1. Claims => CloudKeepsItsClaim
  BY DEF Claims, InTime, CloudKeepsItsClaim
<1> QED BY <1>1, Everything, PTL

(* A request shows the outcome of its standing claim's cycle (finishRequest). *)
THEOREM OutcomesBelong == Spec => []OutcomeIsOfTheClaim
<1>1. Reports => OutcomeIsOfTheClaim
  BY DEF Reports
<1> QED BY <1>1, Everything, PTL

(* No visitor is sent to a request that was over (requestRefresh). *)
THEOREM AnswersAreFresh == Spec => []AnswerIsFresh
<1>1. Answers => AnswerIsFresh
  BY DEF Answers
<1> QED BY <1>1, Everything, PTL

(* A request that is over is never claimed again, and keeps its outcome. *)
THEOREM CompletedForGood == Spec => CompletedStays
<1>1. TypeOK /\ [Next]_vars => [\A i \in Ids : Done(i) => request'[i] = request[i]]_vars
  BY DoneStays
<1> QED BY <1>1, Everything, PTL DEF Spec, CompletedStays

-----------------------------------------------------------------------------
\* The lock

OnItsWay(p) == proc[p].pc \notin {"off", "cycle"}
NoCycle == \A p \in Lock!Procs : proc[p].pc # "cycle"

(* Beside an undisturbed cycle the others are where they can only find that the
   lock is taken, or have read whose it is. *)
Undisturbed ==
    sole # Lock!Nobody =>
       /\ lock = sole /\ sole \in Lock!Procs /\ proc[sole].pc = "cycle"
       /\ \A p \in Lock!Procs \ {sole} :
             Lock!Harmless(p) \/ (proc[p].pc = "probe" /\ proc[p].other = sole)

(* While starts do not overlap at most one process is on its way to the lock.
   What it has read is the pid of the cycle that runs, if one does; from the
   moment it takes a lock to be stale, and while it holds one without its pid, no
   cycle runs. *)
Named == \A p \in Lock!Procs : proc[p].pc = "cycle" => lock = p /\ sole = p
Alone == \A p, q \in Lock!Procs : OnItsWay(p) /\ OnItsWay(q) => p = q
ReadRight ==
    \A p, q \in Lock!Procs : proc[p].pc = "probe" /\ proc[q].pc = "cycle" => proc[p].other = q
TakenRight ==
    \A p \in Lock!Procs :
       /\ proc[p].pc \in {"remove", "remake", "write"} => NoCycle
       /\ proc[p].pc = "write" => lock # "free"
Serial == Named /\ Alone /\ ReadRight /\ TakenRight

LockInv == Lock!TypeOK /\ Undisturbed /\ (~overlapped => Serial)

LEMMA NamesDiffer ==
    /\ "free" \notin Lock!Procs /\ "empty" \notin Lock!Procs
    /\ Lock!Nobody = "empty" /\ MaxCrashes \in Nat
BY LockValues DEF Lock!LockAssumption, Lock!Procs, Lock!Nobody

LEMMA LockTyped ==
    ASSUME Lock!TypeOK, [Lock!Next]_Lock!vars
    PROVE  Lock!TypeOK'
<1> USE NamesDiffer DEF Lock!TypeOK
<1>1. CASE UNCHANGED Lock!vars
  BY <1>1 DEF Lock!vars
<1>2. ASSUME NEW p \in Lock!Procs, Lock!Launch(p) PROVE Lock!TypeOK'
  <2>1. overlapped' \in BOOLEAN
    BY <1>2 DEF Lock!Launch
  <2> QED BY <1>2, <2>1 DEF Lock!Launch, Lock!Goto
<1>3. ASSUME NEW p \in Lock!Procs,
             Lock!Mkdir(p) \/ Lock!ReadPid(p) \/ Lock!Probe(p) \/ Lock!Remove(p) \/ Lock!Remake(p)
      PROVE  Lock!TypeOK'
  BY <1>3 DEF Lock!Mkdir, Lock!ReadPid, Lock!Probe, Lock!Remove, Lock!Remake, Lock!Goto,
              Lock!Quit, Lock!Off
<1>4. ASSUME NEW p \in Lock!Procs, Lock!WritePid(p) \/ Lock!Exit(p) \/ Lock!Crash(p)
      PROVE  Lock!TypeOK'
  BY <1>4 DEF Lock!WritePid, Lock!Exit, Lock!Crash, Lock!Goto, Lock!Quit, Lock!Off
<1> QED BY <1>1, <1>2, <1>3, <1>4 DEF Lock!Next, Lock!Go

\* Nobody takes the lock of an undisturbed cycle, however many start beside it.
LEMMA UndisturbedStep ==
    ASSUME Lock!TypeOK, Undisturbed, [Lock!Next]_Lock!vars
    PROVE  Undisturbed'
<1> USE NamesDiffer DEF Lock!TypeOK, Undisturbed, Lock!Harmless
<1>1. CASE UNCHANGED Lock!vars
  BY <1>1 DEF Lock!vars
<1>2. ASSUME NEW p \in Lock!Procs, Lock!Launch(p) PROVE Undisturbed'
  BY <1>2 DEF Lock!Launch, Lock!Goto
<1>3. ASSUME NEW p \in Lock!Procs, Lock!Mkdir(p) \/ Lock!ReadPid(p) PROVE Undisturbed'
  BY <1>3 DEF Lock!Mkdir, Lock!ReadPid, Lock!Goto, Lock!Quit, Lock!Off
<1>4. ASSUME NEW p \in Lock!Procs, Lock!Probe(p) PROVE Undisturbed'
  BY <1>4 DEF Lock!Probe, Lock!Alive, Lock!Quit, Lock!Off
<1>5. ASSUME NEW p \in Lock!Procs, Lock!Remove(p) \/ Lock!Remake(p) PROVE Undisturbed'
  BY <1>5 DEF Lock!Remove, Lock!Remake, Lock!Goto, Lock!Quit, Lock!Off
<1>6. ASSUME NEW p \in Lock!Procs, Lock!WritePid(p) PROVE Undisturbed'
  BY <1>6 DEF Lock!WritePid, Lock!Goto, Lock!Quit, Lock!Off
<1>7. ASSUME NEW p \in Lock!Procs, Lock!Exit(p) \/ Lock!Crash(p) PROVE Undisturbed'
  BY <1>7 DEF Lock!Exit, Lock!Crash, Lock!Alive, Lock!Quit, Lock!Off
<1> QED BY <1>1, <1>2, <1>3, <1>4, <1>5, <1>6, <1>7 DEF Lock!Next, Lock!Go

\* A start that meets no other under way leaves Serial, and so does one when all
\* were off, whatever the lock was left to be.
LEMMA SerialStep ==
    ASSUME LockInv, [Lock!Next]_Lock!vars, ~overlapped'
    PROVE  Serial'
<1> USE DEF Serial, Lock!TypeOK
<1>a. Lock!TypeOK /\ Lock!TypeOK' /\ (~overlapped => Serial)
  BY LockTyped DEF LockInv
<1>1. CASE UNCHANGED Lock!vars
  BY <1>1, <1>a DEF Lock!vars, Named, Alone, ReadRight, TakenRight, OnItsWay, NoCycle
<1>2. ASSUME NEW p \in Lock!Procs, Lock!Launch(p) PROVE Serial'
  <2>1. CASE \A q \in Lock!Procs : ~Lock!Alive(q)
    BY <1>2, <2>1, <1>a
    DEF Lock!Launch, Lock!Goto, Lock!Alive, Named, Alone, ReadRight, TakenRight, OnItsWay, NoCycle
  <2>2. CASE ~overlapped /\ Lock!Calm
    <3>1. Named' /\ ReadRight' /\ TakenRight'
      BY <1>2, <2>2, <1>a
      DEF Lock!Launch, Lock!Goto, Lock!Calm, Named, ReadRight, TakenRight, NoCycle
    <3>2. Alone'
      BY <1>2, <2>2, <1>a DEF Lock!Launch, Lock!Goto, Lock!Calm, Alone, OnItsWay
    <3> QED BY <3>1, <3>2
  <2>3. (\A q \in Lock!Procs : ~Lock!Alive(q)) \/ (~overlapped /\ Lock!Calm)
    BY <1>2, <1>a DEF Lock!Launch
  <2> QED BY <2>1, <2>2, <2>3
<1>3. ASSUME NEW p \in Lock!Procs, Lock!Mkdir(p) PROVE Serial'
  <2>0. Serial
    BY <1>3, <1>a DEF Lock!Mkdir
  <2>1. Alone'
    BY <1>3, <1>a, <2>0 DEF Lock!Mkdir, Lock!Goto, Alone, OnItsWay
  <2>2. Named' /\ ReadRight' /\ TakenRight'
    BY <1>3, <1>a, <2>0, NamesDiffer
    DEF Lock!Mkdir, Lock!Goto, Named, ReadRight, TakenRight, NoCycle, Alone, OnItsWay
  <2> QED BY <2>1, <2>2
<1>4. ASSUME NEW p \in Lock!Procs, Lock!ReadPid(p) PROVE Serial'
  <2>0. Serial
    BY <1>4, <1>a DEF Lock!ReadPid
  <2>1. Alone'
    BY <1>4, <1>a, <2>0 DEF Lock!ReadPid, Lock!Goto, Lock!Quit, Lock!Off, Lock!Nobody, Alone, OnItsWay
  <2>2. Named' /\ ReadRight' /\ TakenRight'
    BY <1>4, <1>a, <2>0, NamesDiffer
    DEF Lock!ReadPid, Lock!Goto, Lock!Quit, Lock!Off, Named, ReadRight, TakenRight, NoCycle
  <2> QED BY <2>1, <2>2
<1>5. ASSUME NEW p \in Lock!Procs, Lock!Probe(p) PROVE Serial'
  <2>0. Serial
    BY <1>5, <1>a DEF Lock!Probe
  <2>1. Alone'
    BY <1>5, <1>a, <2>0 DEF Lock!Probe, Lock!Quit, Lock!Off, Lock!Nobody, Alone, OnItsWay
  <2>2. Named' /\ ReadRight'
    BY <1>5, <1>a, <2>0 DEF Lock!Probe, Lock!Quit, Lock!Off, Named, ReadRight
  <2>3. TakenRight'
    BY <1>5, <1>a, <2>0 DEF Lock!Probe, Lock!Quit, Lock!Off, Lock!Alive, ReadRight, TakenRight, NoCycle
  <2> QED BY <2>1, <2>2, <2>3
<1>6. ASSUME NEW p \in Lock!Procs, Lock!Remove(p) \/ Lock!Remake(p) PROVE Serial'
  <2>0. Serial
    BY <1>6, <1>a DEF Lock!Remove, Lock!Remake
  <2>1. Alone'
    BY <1>6, <1>a, <2>0
    DEF Lock!Remove, Lock!Remake, Lock!Goto, Lock!Quit, Lock!Off, Lock!Nobody, Alone, OnItsWay
  <2>2. Named' /\ ReadRight' /\ TakenRight'
    BY <1>6, <1>a, <2>0
    DEF Lock!Remove, Lock!Remake, Lock!Goto, Lock!Quit, Lock!Off, Named,
        ReadRight, TakenRight, NoCycle, Alone, OnItsWay
  <2> QED BY <2>1, <2>2
<1>7. ASSUME NEW p \in Lock!Procs, Lock!WritePid(p) PROVE Serial'
  <2>0. Serial
    BY <1>7, <1>a DEF Lock!WritePid
  <2>1. Alone'
    BY <1>7, <1>a, <2>0
    DEF Lock!WritePid, Lock!Goto, Lock!Quit, Lock!Off, Lock!Nobody, Alone, OnItsWay
  <2>2. \A q \in Lock!Procs \ {p} : Lock!Harmless(q)
    BY <1>7, <1>a, <2>0 DEF Lock!WritePid, Lock!Harmless, Alone, OnItsWay, TakenRight, NoCycle
  <2>3. lock # "free"
    BY <1>7, <2>0 DEF Lock!WritePid, TakenRight
  <2>4. sole' = p /\ lock' = p /\ proc' = [proc EXCEPT ![p].pc = "cycle"]
    BY <1>7, <2>2, <2>3 DEF Lock!WritePid, Lock!Goto
  <2>5. Named' /\ ReadRight' /\ TakenRight'
    BY <1>7, <1>a, <2>0, <2>4
    DEF Lock!WritePid, Named, ReadRight, TakenRight, NoCycle, Alone, OnItsWay
  <2> QED BY <2>1, <2>5
<1>8. ASSUME NEW p \in Lock!Procs, Lock!Exit(p) \/ Lock!Crash(p) PROVE Serial'
  <2>0. Serial
    BY <1>8, <1>a DEF Lock!Exit, Lock!Crash
  <2>1. Alone'
    BY <1>8, <1>a, <2>0, NamesDiffer
    DEF Lock!Exit, Lock!Crash, Lock!Quit, Lock!Off, Lock!Nobody, Alone, OnItsWay
  <2>2. Named' /\ ReadRight' /\ TakenRight'
    BY <1>8, <1>a, <2>0
    DEF Lock!Exit, Lock!Crash, Lock!Quit, Lock!Off, Named, ReadRight, TakenRight, NoCycle
  <2> QED BY <2>1, <2>2
<1> QED
  BY <1>1, <1>2, <1>3, <1>4, <1>5, <1>6, <1>7, <1>8 DEF Lock!Next, Lock!Go

LEMMA LockStep == LockInv /\ [Lock!Next]_Lock!vars => LockInv'
BY LockTyped, UndisturbedStep, SerialStep DEF LockInv

LEMMA LockInit == Lock!Init => LockInv
<1> SUFFICES ASSUME Lock!Init PROVE LockInv
  OBVIOUS
<1>1. \A p \in Lock!Procs : proc[p].pc = "off"
  BY DEF Lock!Init, Lock!Off
<1>2. Lock!TypeOK
  <2>1. 0 \in 0..MaxCrashes
    BY NamesDiffer
  <2>2. Lock!Off \in [pc : {"off", "mkdir", "read", "probe", "remove", "remake", "write", "cycle"},
                      other : {Lock!Nobody} \cup Lock!Procs]
    BY DEF Lock!Off
  <2>3. proc \in [Lock!Procs -> [pc : {"off", "mkdir", "read", "probe", "remove", "remake",
                                        "write", "cycle"},
                                 other : {Lock!Nobody} \cup Lock!Procs]]
    BY <2>2 DEF Lock!Init
  <2> QED BY <2>1, <2>3 DEF Lock!Init, Lock!TypeOK
<1>3. Undisturbed
  BY DEF Lock!Init, Undisturbed
<1>4. Serial
  BY <1>1 DEF Serial, Named, Alone, ReadRight, TakenRight, OnItsWay
<1> QED BY <1>2, <1>3, <1>4 DEF LockInv

LEMMA LockInvSuffices == LockInv => Lock!OneCycle
BY NamesDiffer
DEF LockInv, Undisturbed, Serial, Named, Lock!Harmless, Lock!OneCycle, Lock!SoleCycle,
    Lock!SerialIsSole

(* Starts may overlap in any way and be killed anywhere: a cycle that began while
   nobody was about to take or to remove the lock is the only one to its end, and
   each cycle is such a one until a start meets another under way (refresh.sh,
   takeLock of push-remote.ts). *)
THEOREM OneCycleAtATime == Lock!Spec => []Lock!OneCycle
BY LockInit, LockStep, LockInvSuffices, PTL DEF Lock!Spec

-----------------------------------------------------------------------------
\* The queue and the lock, side by side

QueueInv == TypeOK /\ Untouched /\ Claims
BothInv == QueueInv /\ LockInv

LEMMA BothInit == RefreshInit => BothInv
<1> SUFFICES ASSUME RefreshInit PROVE BothInv
  OBVIOUS
<1>1. QueueInv
  <2>1. Untouched
    BY DEF RefreshInit, Init, Untouched, Row
  <2> QED BY <2>1, TypeInit, ClaimsInit DEF RefreshInit, QueueInv, Claims
<1> QED BY <1>1, LockInit DEF BothInv, RefreshInit

LEMMA BothStep == BothInv /\ [RefreshNext]_refreshVars => BothInv'
<1> SUFFICES ASSUME BothInv, [RefreshNext]_refreshVars PROVE BothInv'
  OBVIOUS
<1>1. [Next]_vars /\ [Lock!Next]_Lock!vars
  BY DEF RefreshNext, QueueActs, LockActs, refreshVars, lockVars, Lock!vars
<1>2. QueueInv'
  BY <1>1, TypeStep, UntouchedStep, ClaimsStep DEF BothInv, QueueInv, Claims
<1>3. LockInv'
  BY <1>1, LockStep DEF BothInv
<1> QED BY <1>2, <1>3 DEF BothInv

LEMMA BothAlways == RefreshSpec => []BothInv
BY BothInit, BothStep, PTL DEF RefreshSpec

(* Every variable of either part keeps its type, the requests a runner or a
   visitor refers to and the pid a process has read included. *)
THEOREM BothTyped == RefreshSpec => []RefreshTypeOK
<1>1. BothInv => RefreshTypeOK
  BY DEF BothInv, QueueInv, RefreshTypeOK, LockInv
<1> QED BY <1>1, BothAlways, PTL

(* OneCycle of run Refresh, for any shells, mirrors and crashes and beside any
   requests: an undisturbed cycle runs alone under its name, whoever starts beside
   it (refresh.sh, takeLock of push-remote.ts). *)
THEOREM OneCycleNamed == RefreshSpec => []OneCycle
<1>1. BothInv => OneCycle
  BY LockInvSuffices DEF BothInv, OneCycle
<1> QED BY <1>1, BothAlways, PTL
=============================================================================
