------------------------------ MODULE PoliteFetch ------------------------------
(***************************************************************************)
(* The connectors' shared way to the network (lib/runtime.ts): requests    *)
(* made side by side, each after the robots.txt of its host, in the        *)
(* host's next slot, retried after a pause.  A request that is guarded     *)
(* ("publicOnly") is led on only where the destination may be asked; any   *)
(* other is led on by fetch itself, to whatever host.                      *)
(***************************************************************************)
EXTENDS Integers, Sequences, FiniteSets, FiniteSetsExt

CONSTANTS
    Callers, Hosts, Public,     \* requests; hosts; those with a public address
    MinGap, CrawlDelay, Ttl,    \* the gap; the one a robots.txt asks for; how long that holds
    Retries, MaxHops,           \* of one request
    MaxClock                    \* bound

VARIABLES
    clock,
    callers,
    gaps, lastAt,   \* of each host: the gap it asked for, the last slot booked
    loads,          \* the loads of robots.txt, in order; the newest is the cache's
    sends           \* history: the slots used at each host, and if two were too close

vars == <<clock, callers, gaps, lastAt, loads, sends>>

Never == 0 - 9
NoCaller == [phase |-> "idle", host |-> 0, guarded |-> FALSE, respects |-> TRUE,
             hops |-> 0, tries |-> 0, at |-> 0, gap |-> 0, delay |-> 0, load |-> 0,
             away |-> 0]     \* away: where fetch followed it to, 0 for nowhere

Init ==
    /\ clock = 0
    /\ callers = [c \in Callers |-> NoCaller]
    /\ gaps = [h \in Hosts |-> 0] /\ lastAt = [h \in Hosts |-> Never]
    /\ loads = <<>>
    /\ sends = [used |-> [h \in Hosts |-> {}], close |-> FALSE]

Larger(a, b) == IF a > b THEN a ELSE b
Is(c, phase) == callers[c].phase = phase
Goes(c, r) == callers' = [callers EXCEPT ![c] = r]

\* The load of robots.txt that is good for a host, 0 if there is none.  A guarded
\* one follows no redirect, and is kept apart.
Cached(host, guarded) ==
    LET good == {n \in 1..Len(loads) : /\ loads[n].host = host /\ loads[n].guarded = guarded
                                       /\ loads[n].expires > clock}
    IN IF good = {} THEN 0 ELSE Max(good)

-----------------------------------------------------------------------------
\* Mutant of Slot: the slot does not follow the one booked before.
SlotNow(host, gap) == clock

Slot(host, gap) ==
    IF lastAt[host] = Never THEN clock ELSE Larger(clock, lastAt[host] + gap)

\* The next slot is booked before the wait for it.
Books(c, r) ==
    LET gap == Larger(gaps[r.host], Larger(MinGap, r.delay))
        at == Slot(r.host, gap)
    IN /\ gaps' = [gaps EXCEPT ![r.host] = gap]
       /\ lastAt' = [lastAt EXCEPT ![r.host] = at]
       /\ Goes(c, [r EXCEPT !.phase = "slot", !.at = at, !.gap = gap])

\* Mutant of Known: a load that has not answered is not waited for.
KnownAnswered(host, guarded) ==
    Cached(host, guarded) # 0 /\ loads[Cached(host, guarded)].status # "loading"

Known(host, guarded) == Cached(host, guarded) # 0

AsksRobots(c, r) ==
    /\ IF Known(r.host, r.guarded)
       THEN UNCHANGED loads /\ Goes(c, [r EXCEPT !.phase = "robots", !.load = Cached(r.host, r.guarded)])
       ELSE /\ loads' = Append(loads, [host |-> r.host, guarded |-> r.guarded, status |-> "loading",
                                       delay |-> 0, from |-> clock, expires |-> clock + Ttl])
            /\ Goes(c, [r EXCEPT !.phase = "robots", !.load = Len(loads) + 1])
    /\ UNCHANGED <<gaps, lastAt>>

Ended(c) == Goes(c, [NoCaller EXCEPT !.phase = "done"]) /\ UNCHANGED <<gaps, lastAt, loads>>

\* A name is public when every address it has is, and it has one.
IsPublic(host) == host \in Public

\* A destination is looked at, where the caller is guarded, before anything is asked.
Mutes(r) == r.guarded /\ ~IsPublic(r.host)
Asks(c, r) ==
    \/ Mutes(r) /\ Ended(c)
    \/ ~Mutes(r) /\ r.respects /\ AsksRobots(c, r)
    \/ ~Mutes(r) /\ ~r.respects /\ Books(c, r) /\ UNCHANGED loads

Begin(c, host, guarded, respects) ==
    /\ Is(c, "idle")
    /\ Asks(c, [NoCaller EXCEPT !.host = host, !.guarded = guarded, !.respects = respects])
    /\ UNCHANGED <<clock, sends>>

\* What the rules of the longest group that names the agent come to for the one path
\* of a host: the longest rule on it allows it or not; a delay may come with them.
Verdicts ==
    {[status |-> "open", delay |-> d] : d \in {0, CrawlDelay}} \cup {[status |-> "shut", delay |-> 0]}

\* A robots.txt answers with rules; without any, all is allowed; one that fails, or
\* leads elsewhere when guarded, disallows all.
RobotsAnswers(n, v) ==
    /\ loads[n].status = "loading"
    /\ loads' = [loads EXCEPT ![n].status = v.status, ![n].delay = v.delay]
    /\ UNCHANGED <<clock, callers, gaps, lastAt, sends>>

ReadsRobots(c) ==
    /\ Is(c, "robots")
    /\ \/ /\ loads[callers[c].load].status = "shut"
          /\ Ended(c)
       \/ /\ loads[callers[c].load].status = "open"
          /\ Books(c, [callers[c] EXCEPT !.delay = loads[callers[c].load].delay])
          /\ UNCHANGED loads
    /\ UNCHANGED <<clock, sends>>

\* Of two slots of one host the later follows the other by the gap it was booked with.
Apart(a, b) == a.at >= b.at + a.gap \/ b.at >= a.at + b.gap

\* A timer fires when its slot has come, or later.
Send(c) ==
    /\ Is(c, "slot") /\ callers[c].at <= clock
    /\ Goes(c, [callers[c] EXCEPT !.phase = "sent"])
    /\ LET h == callers[c].host
           slot == [at |-> callers[c].at, gap |-> callers[c].gap]
       IN sends' = [used |-> [sends.used EXCEPT ![h] = @ \cup {slot}],
                    close |-> sends.close \/ \E s \in sends.used[h] : ~Apart(slot, s)]
    /\ UNCHANGED <<clock, gaps, lastAt, loads>>

-----------------------------------------------------------------------------
\* What the page is, or an answer that asking again would not change, or none in time.
Answers(c) == Is(c, "sent") /\ Ended(c) /\ UNCHANGED <<clock, sends>>

\* Mutant of Hop: the next host is asked as the first one was.
HopUnasked(c, r) == Books(c, r) /\ UNCHANGED loads

\* A hop is a request to a destination the other side chose.
Hop(c, r) == Asks(c, r)

Redirects(c, host) ==
    /\ Is(c, "sent") /\ callers[c].guarded
    /\ IF callers[c].hops >= MaxHops THEN Ended(c)
       ELSE Hop(c, [callers[c] EXCEPT !.host = host, !.hops = @ + 1])
    /\ UNCHANGED <<clock, sends>>

\* fetch follows what is not guarded by itself: no rules are read and no slot is booked.
Follows(c, host) ==
    /\ Is(c, "sent") /\ ~callers[c].guarded
    /\ Goes(c, [callers[c] EXCEPT !.away = host])
    /\ UNCHANGED <<clock, gaps, lastAt, loads, sends>>

\* Mutant of MayRetry: a hop starts the count anew.
MayRetryByHop(r) == r.tries < Retries + r.hops

MayRetry(r) == r.tries < Retries

\* Only 429 and 5xx are tried again, where fetch was sent, after the wait they ask for or a
\* longer and longer one.
Busy(c, wait) ==
    /\ Is(c, "sent")
    /\ IF MayRetry(callers[c])
       THEN /\ Goes(c, [callers[c] EXCEPT !.phase = "backoff", !.tries = @ + 1, !.at = clock + wait,
                                       !.away = 0])
            /\ UNCHANGED <<gaps, lastAt, loads>>
       ELSE Ended(c)
    /\ UNCHANGED <<clock, sends>>

Wake(c) ==
    /\ Is(c, "backoff") /\ callers[c].at <= clock
    /\ Books(c, callers[c])
    /\ UNCHANGED <<clock, loads, sends>>

Tick ==
    /\ clock < MaxClock
    /\ clock' = clock + 1
    /\ UNCHANGED <<callers, gaps, lastAt, loads, sends>>

Next ==
    \/ \E c \in Callers, h \in Hosts, g, r \in BOOLEAN : Begin(c, h, g, r)
    \/ \E n \in 1..Len(loads), v \in Verdicts : RobotsAnswers(n, v)
    \/ \E c \in Callers : \/ ReadsRobots(c) \/ Send(c) \/ Answers(c) \/ Wake(c)
                          \/ \E h \in Hosts : Redirects(c, h) \/ Follows(c, h)
                          \/ \E w \in 1..2 : Busy(c, w)
    \/ Tick

Spec == Init /\ [][Next]_vars

-----------------------------------------------------------------------------
\* Every variable keeps its type.
TypeOK ==
    /\ clock \in 0..MaxClock
    /\ \A c \in Callers : /\ callers[c].host \in Hosts \cup {0}
                          /\ callers[c].load \in 0..Len(loads)
    /\ \A h \in Hosts : gaps[h] \in {0, MinGap, CrawlDelay}

\* Whatever hops, retries and other callers came between, a request is sent only
\* where the rules in hand are those of its host, as strict as the caller is, and
\* allow it; and a guarded one, or its look at robots.txt, is never anywhere but at a
\* public host.
AskedFirst ==
    /\ \A c \in Callers :
          LET r == callers[c]
          IN Is(c, "slot") \/ Is(c, "sent") \/ Is(c, "backoff") =>
               /\ r.guarded => r.host \in Public /\ r.away = 0
               /\ r.respects => /\ loads[r.load].host = r.host
                                /\ loads[r.load].guarded = r.guarded
                                /\ loads[r.load].status = "open"
                                /\ gaps[r.host] >= loads[r.load].delay
    /\ \A n \in 1..Len(loads) : loads[n].guarded => loads[n].host \in Public

\* "Everything that touches the network goes through here" (runtime.ts:4): a request
\* that is not guarded is followed to hosts whose rules nobody read, in no slot.
FollowedIsAsked ==
    \A c \in Callers :
        callers[c].respects /\ callers[c].away # 0 =>
            \E n \in 1..Len(loads) : loads[n].host = callers[c].away /\ loads[n].status = "open"

\* A host's robots.txt is read once while what it said holds, by however many
\* callers at once ("one request per host per day").
OneLoad ==
    \A m, n \in 1..Len(loads) :
        m < n /\ loads[m].host = loads[n].host /\ loads[m].guarded = loads[n].guarded =>
            loads[n].from >= loads[m].expires

\* A request is given up after so many tries, over all its hops.
FewTries == \A c \in Callers : callers[c].tries <= Retries /\ callers[c].hops <= MaxHops

\* The slots of a host are as far apart as it asked, in whatever order timers fire
\* (runtime.ts:57, of what is booked: a late timer, a robots.txt and what fetch follows
\* by itself are outside the slots).
Spaced ==
    /\ ~sends.close
    /\ \A c \in Callers : Is(c, "sent") => callers[c].at <= clock

\* The network is asked as politely as the harness says.
Polite == AskedFirst /\ OneLoad /\ FewTries /\ Spaced
-----------------------------------------------------------------------------
(* What Polite rests on, and what it asks of the constants. *)
PoliteAssumption ==
    MinGap \in Nat /\ CrawlDelay \in Nat /\ Ttl \in Nat /\ Retries \in Nat /\ MaxHops \in Nat

Requests == [phase : {"idle", "robots", "slot", "sent", "backoff", "done"}, host : Hosts \cup {0},
             guarded : BOOLEAN, respects : BOOLEAN, hops : Nat, tries : Nat, at : Nat, gap : Nat,
             delay : {0, CrawlDelay}, load : Nat, away : Hosts \cup {0}]
Loads == [host : Hosts, guarded : BOOLEAN, status : {"loading", "open", "shut"},
          delay : {0, CrawlDelay}, from : Nat, expires : Nat]
Slots == [at : Nat, gap : Nat]

Typed ==
    /\ clock \in Nat /\ callers \in [Callers -> Requests]
    /\ gaps \in [Hosts -> {0, MinGap, CrawlDelay}] /\ lastAt \in [Hosts -> Nat \cup {Never}]
    /\ loads \in Seq(Loads)
    /\ sends \in [used : [Hosts -> SUBSET Slots], close : BOOLEAN]

\* Whoever is past the first look has a host, a public one if guarded; and one that
\* waits for rules, or respects them, has those of its host, as strict as it is.
LooksAt(r) ==
    /\ r.host \in Hosts /\ (r.guarded => r.host \in Public /\ r.away = 0)
    /\ r.respects \/ r.phase = "robots" =>
          /\ r.load \in 1..Len(loads) /\ loads[r.load].host = r.host
          /\ loads[r.load].guarded = r.guarded

Looked == \A c \in Callers : ~Is(c, "idle") /\ ~Is(c, "done") => LooksAt(callers[c])

\* Loads began at some time that has been.
Loaded == \A n \in 1..Len(loads) : loads[n].from <= clock

\* A slot of a host is its last or before it, and was booked for a gap it had.
SlotOf(s, h) == lastAt[h] # Never /\ s.at <= lastAt[h] /\ s.gap <= gaps[h]

\* What is booked at a host and what was used there is apart from one another.
Spacing ==
    /\ \A c \in Callers : Is(c, "slot") =>
          /\ SlotOf(callers[c], callers[c].host)
          /\ \A s \in sends.used[callers[c].host] : Apart(callers[c], s)
    /\ \A c, d \in Callers :
          Is(c, "slot") /\ Is(d, "slot") /\ c # d /\ callers[c].host = callers[d].host =>
             Apart(callers[c], callers[d])
    /\ \A h \in Hosts : \A s \in sends.used[h] : SlotOf(s, h)
    /\ Spaced

PoliteInv == Typed /\ Looked /\ Loaded /\ AskedFirst /\ OneLoad /\ FewTries /\ Spacing
=============================================================================
