----------------------------- MODULE ProviderBudget -----------------------------
(***************************************************************************)
(* What the worker may spend on a language model (worker/providers.ts):    *)
(* each request reserves its estimate in a ledger on the disk, under a     *)
(* lock that is not waited for, and settles it once it was answered.       *)
(***************************************************************************)
EXTENDS Integers, FiniteSets, FiniteSetsExt

CONSTANTS
    Requests, Runs,         \* requests; the runs they are for
    Costs,                  \* what a request may be estimated at, or cost
    PerRun, PerDay,         \* limits of the policy
    Ttl,                    \* how long a reservation holds
    MaxClock, MaxCrashes    \* bounds

VARIABLES
    clock, day,
    ledger,     \* the file: its day, what was spent, what is reserved
    lock,       \* who has the ledger's lock
    requests,
    billed,     \* history: what the provider charged for each reservation
    crashes

vars == <<clock, day, ledger, lock, requests, billed, crashes>>

Free == "free"
EmptyLedger(d) == [day |-> d, spent |-> [r \in Runs |-> 0], reserved |-> {}]
NoRequest == [phase |-> "idle", run |-> 0, cost |-> 0, charge |-> 0, tries |-> 0,
              seen |-> EmptyLedger(0)]

Init ==
    /\ clock = 0 /\ day = 1
    /\ ledger = EmptyLedger(1)
    /\ lock = Free
    /\ requests = [q \in Requests |-> NoRequest]
    /\ billed = {}
    /\ crashes = 0

Is(q, phase) == requests[q].phase = phase
\* The sum of a function's values, counted unit by unit.
Units(f) == UNION {{x} \X (1..f[x]) : x \in DOMAIN f}
Total(f) == Cardinality(Units(f))
Cost(set) == Total([x \in set |-> x.cost])
Spent(l) == Total(l.spent)
Of(q, set) == {x \in set : x.id = q}
\* The ledger is read anew, and empty if it is another day's.
Current == IF ledger.day = day THEN ledger ELSE EmptyLedger(day)

-----------------------------------------------------------------------------
\* Mutant of Takes: the lock keeps no one out.
TakesAnyway(q) == lock' = q

Takes(q) == lock = Free /\ lock' = q

\* Mutant of Within: what others have reserved is not counted.
WithinSpent(l, run, cost) ==
    Spent(l) + cost <= PerDay /\ l.spent[run] + cost <= PerRun

Within(l, run, cost) ==
    /\ Spent(l) + Cost(l.reserved) + cost <= PerDay
    /\ l.spent[run] + Cost({x \in l.reserved : x.run = run}) + cost <= PerRun

\* Mutant of Expired: reservations do not hold at all.
ExpiredSoon(x) == x.expires <= clock + Ttl

Expired(x) == x.expires <= clock

\* The lock is held by another: the request fails before it is sent.
Reserve(q, run, cost) ==
    /\ Is(q, "idle") /\ Takes(q)
    /\ requests' = [requests EXCEPT ![q] = [NoRequest EXCEPT !.phase = "reserving",
                                  !.run = run, !.cost = cost, !.seen = Current]]
    /\ UNCHANGED <<clock, day, ledger, billed, crashes>>

Reserved(q) ==
    /\ Is(q, "reserving")
    /\ LET r == requests[q]
           kept == [r.seen EXCEPT !.reserved = {x \in @ : ~Expired(x)}]
       IN IF Within(kept, r.run, r.cost)
          THEN /\ ledger' = [kept EXCEPT !.reserved = @ \cup
                                {[id |-> q, run |-> r.run, cost |-> r.cost, expires |-> clock + Ttl]}]
               /\ requests' = [requests EXCEPT ![q].phase = "ready"]
          ELSE /\ UNCHANGED ledger
               /\ requests' = [requests EXCEPT ![q].phase = "over"]
    /\ lock' = Free
    /\ UNCHANGED <<clock, day, billed, crashes>>

\* The provider charges for what it was sent, whatever becomes of the answer.
Send(q, charge) ==
    /\ Is(q, "ready") /\ charge <= requests[q].cost
    /\ requests' = [requests EXCEPT ![q].phase = "sent", ![q].charge = charge]
    /\ billed' = billed \cup {[id |-> q, cost |-> charge, day |-> day]}
    /\ UNCHANGED <<clock, day, ledger, lock, crashes>>

\* An answer is settled at what it cost, a failure at the estimate; a settlement
\* that fails is tried once more, an answer that cannot be read has one try.
Answer(q, readable) ==
    /\ Is(q, "sent")
    /\ requests' = [requests EXCEPT ![q].phase = "settle", ![q].tries = IF readable THEN 2 ELSE 1]
    /\ UNCHANGED <<clock, day, ledger, lock, billed, crashes>>

Settle(q) ==
    /\ Is(q, "settle") /\ Takes(q)
    /\ requests' = [requests EXCEPT ![q].phase = "settling", ![q].seen = Current]
    /\ UNCHANGED <<clock, day, ledger, billed, crashes>>

FailsToSettle(q) ==
    requests' = [requests EXCEPT ![q].tries = @ - 1,
                                 ![q].phase = IF requests[q].tries = 1 THEN "lost" ELSE "settle"]

SettleLocked(q) ==
    /\ Is(q, "settle") /\ lock # Free
    /\ FailsToSettle(q)
    /\ UNCHANGED <<clock, day, ledger, lock, billed, crashes>>

\* Never less than was reserved.
Charged(x, q) == Max({x.cost, requests[q].charge})

\* The reservation of another day is gone with its ledger.
Settled(q) ==
    /\ Is(q, "settling")
    /\ \/ \E x \in Of(q, requests[q].seen.reserved) :
              /\ ledger' = [requests[q].seen EXCEPT !.reserved = @ \ {x},
                                                    !.spent[x.run] = @ + Charged(x, q)]
              /\ requests' = [requests EXCEPT ![q].phase = "over"]
       \/ /\ Of(q, requests[q].seen.reserved) = {}
          /\ FailsToSettle(q)
          /\ UNCHANGED ledger
    /\ lock' = Free
    /\ UNCHANGED <<clock, day, billed, crashes>>

-----------------------------------------------------------------------------
\* The worker's process ends; the lock of a dead process is taken over.
Crash ==
    /\ crashes < MaxCrashes /\ crashes' = crashes + 1
    /\ requests' = [q \in Requests |-> IF Is(q, "idle") THEN requests[q]
                                       ELSE [requests[q] EXCEPT !.phase = "over"]]
    /\ lock' = Free
    /\ UNCHANGED <<clock, day, ledger, billed>>

\* A request is over long before its reservation would expire.
Tick ==
    /\ clock < MaxClock /\ clock' = clock + 1
    /\ \A q \in Requests : requests[q].phase \in {"idle", "over", "lost"}
    /\ UNCHANGED <<day, ledger, lock, requests, billed, crashes>>

NextDay ==
    /\ day = 1 /\ day' = 2
    /\ UNCHANGED <<clock, ledger, lock, requests, billed, crashes>>

Next ==
    \/ \E q \in Requests :
          \/ \E run \in Runs, cost \in Costs : Reserve(q, run, cost)
          \/ \E charge \in Costs : Send(q, charge)
          \/ \E readable \in BOOLEAN : Answer(q, readable)
          \/ Reserved(q) \/ Settle(q) \/ SettleLocked(q) \/ Settled(q)
    \/ Crash \/ Tick \/ NextDay

Spec == Init /\ [][Next]_vars

-----------------------------------------------------------------------------
\* Every variable keeps its type; the lock is of a request that uses the ledger.
TypeOK ==
    /\ ledger.day \in 1..2 /\ IsFiniteSet(ledger.reserved)
    /\ lock # Free => Is(lock, "reserving") \/ Is(lock, "settling")

\* What the ledger spent and holds stays within the day's and each run's limit.
LedgerWithin ==
    /\ Spent(ledger) + Cost(ledger.reserved) <= PerDay
    /\ \A run \in Runs :
          ledger.spent[run] + Cost({x \in ledger.reserved : x.run = run}) <= PerRun

\* A request under way is in the ledger of its day, so long as that is on.
SendsAreHeld ==
    day = 1 => \A q \in Requests :
        Is(q, "ready") \/ Is(q, "sent") \/ Is(q, "settle") => Of(q, ledger.reserved) # {}

\* What the provider charged is in the ledger, but for what could not be settled.
ChargesAreKept ==
    day = 1 /\ crashes = 0 =>
        Cost({b \in billed : ~Is(b.id, "lost")}) <= Spent(ledger) + Cost(ledger.reserved)

\* The ledger is the boundary of what the worker spends.
BudgetKept == LedgerWithin /\ SendsAreHeld /\ ChargesAreKept

\* The provider charges no more in a day than the policy allows ("the worker's
\* atomic request/run/day budget boundary").
BilledWithin == \A d \in 1..2 : Cost({b \in billed : b.day = d}) <= PerDay
=============================================================================
