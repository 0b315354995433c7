---------------------- MODULE DiscoveryStaging_proofs -----------------------
(***************************************************************************)
(* Snapshots serve what is made from them, and nothing reported is queued, *)
(* for any number of roles, runs, polls and attempts.  A step of a poll    *)
(* rests on what an earlier transaction of it wrote and on nobody having   *)
(* undone it since, so the invariant says whose snapshot a run stages, who *)
(* may still commit one, and what a target says of a snapshot that is not  *)
(* complete.                                                               *)
(***************************************************************************)
EXTENDS DiscoveryStaging, SequenceTheorems, WellFoundedInduction, TLAPS

(* What the proofs assume of the constants. *)
StagingAssumption ==
    /\ NoPoll \notin Polls
    /\ First \in Versions
    /\ MaxManifests \in Nat
    /\ MaxAttempts \in Nat

-----------------------------------------------------------------------------
\* The types, with what records and sequences hold

RunRow == [state : {"running", "paused", "stopped"},
           discovery : {"idle", "capturing", "staging", "ready", "failed", "abandoned"},
           token : Polls \cup {NoPoll}, held : BOOLEAN, manifest : Manifests \cup {0}]

Snapshot == [run : Runs \cup {NoPoll}, content : [Roles -> Contents], left : SUBSET Roles,
             state : {"none", "staging", "ready", "abandoned", "pruned"},
             reported : SUBSET Roles]

TargetRow == [manifest : Manifests \cup {0}, version : Contents,
              disposition : {"absent", "eligible", "duplicate", "held_policy", "manual_reported"},
              app : Nat]

Attempt == [run : Runs, manifest : Manifests, version : Contents,
            state : {"live", "employer", "over", "stopped", "restarted"}, intent : BOOLEAN]

\* What a poll has in hand at each step.
Hand == [step : {"idle", "capture", "commit", "stage"}, run : Runs \cup {NoPoll},
         manifest : Manifests \cup {0}, content : [Roles -> Contents] \cup {<<>>}]
InHand(p) ==
    /\ poll[p] \in Hand
    /\ poll[p].step # "idle" => poll[p].run \in Runs
    /\ poll[p].step = "stage" => poll[p].manifest \in Manifests
    /\ poll[p].step = "commit" => poll[p].content \in [Roles -> Contents]

Typed ==
    /\ corpus \in [Roles -> Contents]
    /\ run \in [Runs -> RunRow]
    /\ manifest \in [Manifests -> Snapshot]
    /\ target \in [Runs -> [Roles -> TargetRow]]
    /\ app \in [Roles -> Seq(Attempt)]
    /\ \A x \in Roles : Len(app[x]) <= MaxAttempts
    /\ marks \subseteq Roles
    /\ loose \subseteq Roles
    /\ DOMAIN poll = Polls
    /\ \A p \in Polls : InHand(p)

-----------------------------------------------------------------------------
\* What the transactions leave for each other

\* A capture lease is held by a poll only while its run is captured.
Captured == \A r \in Runs : run[r].token # NoPoll => run[r].discovery = "capturing"

\* A run's snapshot was committed for that run; while it stages, it is the
\* snapshot it stages; and what is staged is some run's.
OwnSnapshot ==
    /\ \A r \in Runs :
         /\ run[r].manifest # 0 =>
               manifest[run[r].manifest].run = r /\ manifest[run[r].manifest].state # "none"
         /\ run[r].discovery = "staging" =>
               run[r].manifest # 0 /\ manifest[run[r].manifest].state = "staging"
    /\ \A m \in Manifests : manifest[m].state = "staging" => manifest[m].run \in Runs

\* A target points at a snapshot that was committed.
Committed ==
    \A r \in Runs, x \in Roles :
        target[r][x].manifest # 0 => manifest[target[r][x].manifest].state # "none"

\* Who was reported when a snapshot was committed still is.
ReportsStay == \A m \in Manifests : manifest[m].reported \subseteq marks \cup loose

\* While a snapshot is staged, no target that points at it calls a role
\* eligible that its posting's report ruled out before.
StagedAfresh ==
    \A r \in Runs, x \in Roles :
        LET t == target[r][x]
        IN /\ t.manifest # 0
           /\ manifest[t.manifest].state = "staging"
           /\ x \in manifest[t.manifest].reported \ marks
           => t.disposition # "eligible"

-----------------------------------------------------------------------------
\* Lemmas about the rows

LEMMA LeastIsThere ==
    ASSUME NEW S \in SUBSET Manifests, S # {}, MaxManifests \in Nat
    PROVE  Min(S) \in S
<1>1. S \subseteq Nat
  BY DEF Manifests
<1>2. PICK n \in S : \A k \in S : <<k, n>> \notin OpToRel(<, Nat)
  BY <1>1, NatLessThanWellFounded, WFMin
<1>3. \A k \in S : ~(k < n)
  BY <1>1, <1>2, Zenon DEF OpToRel
<1>4. \A k \in S : n =< k
  BY <1>1, <1>3
<1> QED BY <1>4 DEF Min

\* A sequence whose elements are rewritten in place.
LEMMA Rewritten ==
    ASSUME NEW s \in Seq(Attempt), NEW F, DOMAIN F = DOMAIN s,
           F = [i \in DOMAIN s |-> F[i]], \A i \in DOMAIN s : F[i] \in Attempt
    PROVE  F \in Seq(Attempt) /\ Len(F) = Len(s)
<1>1. DOMAIN s = 1..Len(s) /\ Len(s) \in Nat
  OBVIOUS
<1>2. F \in [1..Len(s) -> Attempt]
  BY <1>1
<1>3. F \in Seq(Attempt)
  BY <1>1, <1>2, SeqDef, Zenon
<1> QED BY <1>1, <1>3, LenProperties

-----------------------------------------------------------------------------
\* What staging does to one role

StagedBy(r, m, chunk) ==
    [x \in Roles |-> IF x \in chunk THEN Upserted(Freed(target[r][x], x), x, m)
                     ELSE target[r][x]]
CheckedBy(r, m, chunk) ==
    [x \in Roles |-> Suppressed(StagedBy(r, m, chunk)[x], x, m)]

\* A chunk that is not the last, and the last.
StagesPart(r, m, chunk) ==
    /\ manifest[m].state = "staging" /\ run[r].manifest = m
    /\ target' = [target EXCEPT ![r] = StagedBy(r, m, chunk)]
    /\ manifest' = [manifest EXCEPT ![m].left = @ \ chunk]
    /\ UNCHANGED <<run, app>>
StagesLast(r, m, chunk) ==
    /\ manifest[m].state = "staging" /\ run[r].manifest = m
    /\ Finish(r, m, StagedBy(r, m, chunk))

LEMMA StageIs ==
    ASSUME Typed, NEW p \in Polls, Stage(p)
    PROVE  /\ poll[p].run \in Runs /\ poll[p].manifest \in Manifests
           /\ poll' = [poll EXCEPT ![p] = Idle]
           /\ UNCHANGED <<corpus, marks, loose>>
           /\ \/ UNCHANGED <<run, manifest, target, app>>
              \/ \E chunk \in SUBSET Roles :
                    \/ StagesPart(poll[p].run, poll[p].manifest, chunk)
                    \/ StagesLast(poll[p].run, poll[p].manifest, chunk)
<1> DEFINE r == poll[p].run
           m == poll[p].manifest
<1>1. r \in Runs /\ m \in Manifests
  BY DEF Stage, Typed, InHand
<1>2. manifest[m].left \subseteq Roles
  BY <1>1 DEF Typed, Snapshot
<1>3. CASE manifest[m].state = "staging" /\ Current(r) /\ run[r].manifest = m
  <2>1. PICK chunk \in IF manifest[m].left = {} THEN {{}} ELSE {{x} : x \in manifest[m].left} :
            IF manifest[m].left # chunk
            THEN /\ target' = [target EXCEPT ![r] = StagedBy(r, m, chunk)]
                 /\ manifest' = [manifest EXCEPT ![m].left = @ \ chunk]
                 /\ UNCHANGED <<run, app>>
            ELSE Finish(r, m, StagedBy(r, m, chunk))
    BY <1>3 DEF Stage, StagedBy
  <2>2. chunk \in SUBSET Roles
    BY <1>2
  <2>3. StagesPart(r, m, chunk) \/ StagesLast(r, m, chunk)
    BY <1>3, <2>1 DEF StagesPart, StagesLast
  <2> QED BY <1>1, <2>2, <2>3 DEF Stage
<1>4. CASE ~(manifest[m].state = "staging" /\ Current(r) /\ run[r].manifest = m)
  BY <1>1, <1>4 DEF Stage
<1> QED BY <1>3, <1>4

\* Evidence a target's application holds is not moved, and a role that is
\* evaluated anew is not called eligible if its posting was reported.
LEMMA StagedRow ==
    ASSUME Typed, NEW r \in Runs, NEW m \in Manifests, NEW chunk \in SUBSET Roles,
           NEW x \in Roles
    PROVE  LET t == target[r][x]
               s == StagedBy(r, m, chunk)[x]
           IN /\ s \in TargetRow
              /\ t.app # 0 /\ app[x][t.app].state # "stopped" => s = t
              /\ \/ s.manifest = t.manifest /\ s.disposition = t.disposition
                 \/ s.manifest = m /\ (x \in loose => s.disposition # "eligible")
<1> DEFINE t == target[r][x]
           f == Freed(t, x)
           s == StagedBy(r, m, chunk)[x]
<1>1. t \in TargetRow /\ manifest[m].content[x] \in Contents
  BY DEF Typed, Snapshot
<1>2. s = IF x \in chunk THEN Upserted(f, x, m) ELSE t
  BY DEF StagedBy
<1>3. /\ f \in TargetRow /\ f.manifest = t.manifest /\ f.disposition = t.disposition
      /\ f.app = 0 \/ f = t
      /\ t.app # 0 /\ app[x][t.app].state # "stopped" => f = t
  BY <1>1 DEF Freed, TargetRow
<1>4. CASE x \notin chunk
  BY <1>1, <1>2, <1>4
<1>5. CASE x \in chunk /\ (f.app # 0 \/ f.disposition = "manual_reported")
  BY <1>2, <1>3, <1>5 DEF Upserted
<1>6. CASE x \in chunk /\ ~(f.app # 0 \/ f.disposition = "manual_reported")
  <2>1. s = [manifest |-> m, version |-> manifest[m].content[x], app |-> 0,
             disposition |-> IF x \in loose THEN "manual_reported"
                             ELSE IF manifest[m].content[x] \in Refused THEN "held_policy"
                             ELSE "eligible"]
    BY <1>2, <1>6 DEF Upserted
  <2>2. s \in TargetRow /\ s.manifest = m /\ (x \in loose => s.disposition # "eligible")
    BY <1>1, <2>1 DEF TargetRow
  <2>3. ~(t.app # 0 /\ app[x][t.app].state # "stopped")
    BY <1>3, <1>6
  <2> QED BY <2>2, <2>3
<1> QED BY <1>4, <1>5, <1>6

LEMMA CheckedRow ==
    ASSUME Typed, NEW r \in Runs, NEW m \in Manifests, NEW chunk \in SUBSET Roles,
           NEW x \in Roles
    PROVE  LET s == StagedBy(r, m, chunk)[x]
               c == CheckedBy(r, m, chunk)[x]
           IN /\ c \in TargetRow
              /\ c.manifest = s.manifest /\ c.version = s.version /\ c.app = s.app
              /\ c.disposition = s.disposition \/ c.disposition = "manual_reported"
              /\ c.manifest = m /\ x \in marks => c.disposition # "eligible"
<1> DEFINE s == StagedBy(r, m, chunk)[x]
<1>1. s \in TargetRow
  BY StagedRow
<1>2. CheckedBy(r, m, chunk)[x] = Suppressed(s, x, m)
  BY DEF CheckedBy
<1> QED BY <1>1, <1>2 DEF Suppressed, TargetRow

\* The transaction of the last chunk, role by role.
LEMMA LastRows ==
    ASSUME Typed, NEW r \in Runs, NEW m \in Manifests, NEW chunk \in SUBSET Roles,
           StagesLast(r, m, chunk), NEW x \in Roles
    PROVE  LET c == CheckedBy(r, m, chunk)[x]
               stands == c.manifest = m /\ c.disposition = "eligible"
           IN /\ app'[x] = IF stands /\ ~Blocked(x)
                           THEN Append(app[x], NewAttempt(r, m, c.version)) ELSE app[x]
              /\ target'[r][x] \in TargetRow
              /\ target'[r][x].manifest = c.manifest /\ target'[r][x].version = c.version
              /\ stands => target'[r][x].app = Len(app'[x])
              /\ ~stands => target'[r][x] = c
<1> DEFINE checked == CheckedBy(r, m, chunk)
           c == checked[x]
           rows == Queued(r, m, checked)
<1>1. checked = [y \in Roles |-> Suppressed(StagedBy(r, m, chunk)[y], y, m)]
  BY DEF CheckedBy
<1>2. app' = rows /\ target' = [target EXCEPT ![r] = Pointed(r, m, checked, rows)]
  BY <1>1 DEF StagesLast, Finish
<1>3. c \in TargetRow
  BY CheckedRow
<1>4. app'[x] = IF c.manifest = m /\ c.disposition = "eligible" /\ ~Blocked(x)
                THEN Append(app[x], NewAttempt(r, m, c.version)) ELSE app[x]
  BY <1>2 DEF Queued
<1>5. app[x] \in Seq(Attempt) /\ NewAttempt(r, m, c.version) \in Attempt
  BY <1>3 DEF Typed, NewAttempt, Attempt, TargetRow
<1>6. Len(app'[x]) \in Nat
  BY <1>4, <1>5
<1>7. target'[r][x] = Pointed(r, m, checked, rows)[x]
  BY <1>2 DEF Typed
<1>8. target'[r][x] =
        IF c.manifest = m /\ c.disposition = "eligible"
        THEN [c EXCEPT !.app = Len(app'[x]),
                       !.disposition = IF Newest(rows, x).run = r THEN "eligible" ELSE "duplicate"]
        ELSE c
  BY <1>2, <1>7 DEF Pointed
<1>9. target'[r][x] \in TargetRow
  BY <1>3, <1>6, <1>8 DEF TargetRow
<1> QED BY <1>3, <1>4, <1>8, <1>9 DEF TargetRow

-----------------------------------------------------------------------------
\* What the commands do to the attempts of one role

\* The attempts stay what they were made from, and none starts again.
OnlyEnds(x) ==
    /\ app'[x] \in Seq(Attempt)
    /\ Len(app'[x]) = Len(app[x])
    /\ \A i \in 1..Len(app[x]) :
         LET a == app[x][i]
             b == app'[x][i]
         IN /\ b.run = a.run /\ b.manifest = a.manifest /\ b.version = a.version
            /\ b.state \in {"live", "employer"} => a.state \in {"live", "employer"}

LEMMA StopEnds ==
    ASSUME Typed, NEW r \in Runs, Stop(r), NEW x \in Roles
    PROVE  OnlyEnds(x)
<1> DEFINE s == app[x]
           G == [i \in DOMAIN s |-> IF s[i].run = r /\ s[i].state = "live"
                                    THEN [s[i] EXCEPT !.state = "stopped"] ELSE s[i]]
<1>1. s \in Seq(Attempt)
  BY DEF Typed
<1>2. app'[x] = G
  BY DEF Stop
<1>3. \A i \in DOMAIN s : s[i] \in Attempt
  BY <1>1
<1>4. \A i \in DOMAIN s :
         /\ G[i] \in Attempt
         /\ G[i].run = s[i].run /\ G[i].manifest = s[i].manifest /\ G[i].version = s[i].version
         /\ G[i].state \in {"live", "employer"} => s[i].state \in {"live", "employer"}
  BY <1>3 DEF Attempt
<1> HIDE DEF G
<1>5. G = [i \in DOMAIN s |-> G[i]] /\ DOMAIN G = DOMAIN s
  BY DEF G
<1>6. G \in Seq(Attempt) /\ Len(G) = Len(s)
  BY <1>1, <1>4, <1>5, Rewritten
<1>7. DOMAIN s = 1..Len(s)
  BY <1>1
<1> QED BY <1>2, <1>4, <1>6, <1>7 DEF OnlyEnds

LEMMA ReportEnds ==
    ASSUME Typed, NEW y \in Roles, Report(y), NEW x \in Roles
    PROVE  OnlyEnds(x)
<1> DEFINE s == app[x]
           G == [i \in DOMAIN s |-> IF x = y /\ s[i].state = "live"
                                    THEN [s[i] EXCEPT !.state = "over"] ELSE s[i]]
<1>1. s \in Seq(Attempt)
  BY DEF Typed
<1>2. app'[x] = G
  <2>1. s = [i \in DOMAIN s |-> s[i]]
    BY <1>1
  <2>2. CASE x = y
    BY <2>2 DEF Report, Typed
  <2>3. CASE x # y
    BY <2>1, <2>3 DEF Report, Typed
  <2> QED BY <2>2, <2>3
<1>3. \A i \in DOMAIN s : s[i] \in Attempt
  BY <1>1
<1>4. \A i \in DOMAIN s :
         /\ G[i] \in Attempt
         /\ G[i].run = s[i].run /\ G[i].manifest = s[i].manifest /\ G[i].version = s[i].version
         /\ G[i].state \in {"live", "employer"} => s[i].state \in {"live", "employer"}
  BY <1>3 DEF Attempt
<1> HIDE DEF G
<1>5. G = [i \in DOMAIN s |-> G[i]] /\ DOMAIN G = DOMAIN s
  BY DEF G
<1>6. G \in Seq(Attempt) /\ Len(G) = Len(s)
  BY <1>1, <1>4, <1>5, Rewritten
<1>7. DOMAIN s = 1..Len(s)
  BY <1>1
<1> QED BY <1>2, <1>4, <1>6, <1>7 DEF OnlyEnds

LEMMA AdvanceEnds ==
    ASSUME Typed, NEW y \in Roles, NEW state \in {"employer", "over"}, Advance(y, state),
           NEW x \in Roles
    PROVE  OnlyEnds(x)
<1> DEFINE s == app[x]
           n == Len(s)
           b == [s[n] EXCEPT !.state = state, !.intent = @ \/ state = "employer"]
<1>1. s \in Seq(Attempt)
  BY DEF Typed
<1>2. CASE x # y
  BY <1>1, <1>2 DEF Advance, OnlyEnds, Typed
<1>3. CASE x = y
  <2>1. n \in 1..n /\ s[n] \in Attempt /\ s[n].state \in {"live", "employer"}
    BY <1>1, <1>3 DEF Advance, Newest
  <2>2. b \in Attempt /\ b.run = s[n].run /\ b.manifest = s[n].manifest /\ b.version = s[n].version
    BY <2>1 DEF Attempt
  <2>3. app'[x] = [s EXCEPT ![n] = b]
    BY <1>1, <1>3, <2>1 DEF Advance, Typed, Attempt
  <2> HIDE DEF b
  <2>4. /\ app'[x] \in Seq(Attempt) /\ Len(app'[x]) = n
        /\ \A j \in 1..n : app'[x][j] = IF j = n THEN b ELSE s[j]
    BY <1>1, <2>1, <2>2, <2>3, ExceptSeq
  <2> QED BY <2>1, <2>2, <2>4 DEF OnlyEnds
<1> QED BY <1>2, <1>3

LEMMA PointedRow ==
    ASSUME NEW t \in TargetRow, NEW n \in Nat
    PROVE  LET f == [t EXCEPT !.app = n, !.disposition = "eligible"]
           IN /\ f \in TargetRow /\ f.manifest = t.manifest /\ f.version = t.version
              /\ f.app = n /\ f.disposition = "eligible"
BY DEF TargetRow

\* The applicant's next attempt is the newest, made from a complete snapshot
\* to which the target of its run points.
LEMMA NextIs ==
    ASSUME Typed, NEW r \in Runs, NEW x \in Roles, NextAttempt(r, x), MaxAttempts \in Nat
    PROVE  LET n == Len(app[x]) + 1
               f == Refrozen(r, x)
           IN /\ n =< MaxAttempts
              /\ f \in TargetRow /\ Ready(f.manifest) /\ f.manifest \in Manifests
              /\ app'[x] \in Seq(Attempt) /\ Len(app'[x]) = n
              /\ app'[x][n] = NewAttempt(r, f.manifest, f.version)
              /\ \A i \in 1..Len(app[x]) : app'[x][i].manifest = app[x][i].manifest
              /\ target'[r][x] = [f EXCEPT !.app = n, !.disposition = "eligible"]
              /\ target'[r][x] \in TargetRow
              /\ target'[r][x].manifest = f.manifest /\ target'[r][x].version = f.version
              /\ target'[r][x].app = n
<1> DEFINE s == app[x]
           last == Len(s)
           f == Refrozen(r, x)
           ended == IF Newest(app, x).state = "live"
                    THEN [s EXCEPT ![last].state = "restarted"] ELSE s
           new == NewAttempt(r, f.manifest, f.version)
<1>1. s \in Seq(Attempt) /\ last \in 1..last /\ last + 1 =< MaxAttempts /\ last \in Nat
  BY DEF Typed, NextAttempt
<1>2. f \in TargetRow /\ Ready(f.manifest)
  <2> DEFINE latest == run[r].manifest
             t == target[r][x]
  <2>1. t \in TargetRow /\ latest \in Manifests \cup {0} /\ Ready(t.manifest)
    BY DEF NextAttempt, Typed, RunRow
  <2>2. CASE f = t
    BY <2>1, <2>2
  <2>3. CASE f # t
    <3>1. /\ f = [t EXCEPT !.manifest = latest, !.version = manifest[latest].content[x]]
          /\ Ready(latest)
      BY <2>3 DEF Refrozen
    <3>2. latest \in Manifests /\ manifest[latest].content[x] \in Contents
      BY <2>1, <3>1 DEF Ready, Typed, Snapshot
    <3> QED BY <2>1, <3>1, <3>2 DEF TargetRow
  <2> QED BY <2>2, <2>3
<1>3. f.manifest \in Manifests
  BY <1>2 DEF Ready, TargetRow
<1>4. new \in Attempt
  BY <1>2, <1>3 DEF NewAttempt, Attempt, TargetRow
<1>5. /\ ended \in Seq(Attempt) /\ Len(ended) = last
      /\ \A i \in 1..last : ended[i].manifest = s[i].manifest
  <2>1. s[last] \in Attempt
    BY <1>1
  <2> DEFINE b == [s[last] EXCEPT !.state = "restarted"]
  <2>2. b \in Attempt /\ b.manifest = s[last].manifest
    BY <2>1 DEF Attempt
  <2>3. [s EXCEPT ![last].state = "restarted"] = [s EXCEPT ![last] = b]
    BY <1>1
  <2> HIDE DEF b
  <2>4. LET e == [s EXCEPT ![last] = b]
        IN e \in Seq(Attempt) /\ Len(e) = last
           /\ \A i \in 1..last : e[i] = IF i = last THEN b ELSE s[i]
    BY <1>1, <2>2, ExceptSeq
  <2> QED BY <1>1, <2>2, <2>3, <2>4
<1>6. /\ app' = [app EXCEPT ![x] = Append(ended, new)]
      /\ target' = [target EXCEPT ![r][x] = [f EXCEPT !.app = last + 1, !.disposition = "eligible"]]
  BY DEF NextAttempt
<1>7. app'[x] = Append(ended, new)
  BY <1>6 DEF Typed
<1> HIDE DEF ended, new
<1>8. /\ app'[x] \in Seq(Attempt) /\ Len(app'[x]) = last + 1
      /\ app'[x][last + 1] = new
      /\ \A i \in 1..last : app'[x][i].manifest = s[i].manifest
  BY <1>1, <1>4, <1>5, <1>7
<1>9. target'[r][x] = [f EXCEPT !.app = last + 1, !.disposition = "eligible"]
  BY <1>6 DEF Typed
<1>10. /\ target'[r][x] \in TargetRow
       /\ target'[r][x].manifest = f.manifest /\ target'[r][x].version = f.version
       /\ target'[r][x].app = last + 1
  <2>1. last + 1 \in Nat
    BY <1>1
  <2> HIDE DEF f, last
  <2>2. target'[r][x] \in TargetRow
    BY <2>1, <1>2, <1>9, PointedRow
  <2>3. /\ target'[r][x].manifest = f.manifest /\ target'[r][x].version = f.version
        /\ target'[r][x].app = last + 1
    BY <1>2, <1>9 DEF TargetRow
  <2> QED BY <2>2, <2>3
<1> QED BY <1>1, <1>2, <1>3, <1>8, <1>9, <1>10 DEF new

LEMMA NextElsewhere ==
    ASSUME Typed, NEW r \in Runs, NEW x \in Roles, NextAttempt(r, x)
    PROVE  /\ \A y \in Roles : y # x => app'[y] = app[y]
           /\ \A q \in Runs, y \in Roles :
                 q # r \/ y # x => target'[q][y] = target[q][y]
           /\ DOMAIN app' = Roles
BY DEF NextAttempt, Typed

-----------------------------------------------------------------------------
\* Types

\* A poll's step leaves the other polls alone.
LEMMA HandsKept ==
    ASSUME Typed, NEW p \in Polls, NEW h, poll' = [poll EXCEPT ![p] = h],
           /\ h \in Hand
           /\ h.step # "idle" => h.run \in Runs
           /\ h.step = "stage" => h.manifest \in Manifests
           /\ h.step = "commit" => h.content \in [Roles -> Contents]
    PROVE  DOMAIN poll' = Polls /\ \A q \in Polls : InHand(q)'
<1>1. DOMAIN poll' = Polls /\ poll'[p] = h /\ \A q \in Polls : q # p => poll'[q] = poll[q]
  BY DEF Typed
<1>2. \A q \in Polls : InHand(q)'
  <2> TAKE q \in Polls
  <2>1. CASE q = p
    BY <1>1, <2>1 DEF InHand
  <2>2. CASE q # p
    BY <1>1, <2>2 DEF InHand, Typed
  <2> QED BY <2>1, <2>2
<1> QED BY <1>1, <1>2

LEMMA Hands ==
    /\ Idle \in Hand /\ Idle.step = "idle"
    /\ \A r \in Runs :
         LET h == [Idle EXCEPT !.step = "capture", !.run = r]
         IN h \in Hand /\ h.step = "capture" /\ h.run = r
BY DEF Idle, Hand

LEMMA StagingHand ==
    ASSUME NEW r \in Runs, NEW m \in Manifests
    PROVE  LET h == [Idle EXCEPT !.step = "stage", !.run = r, !.manifest = m]
           IN h \in Hand /\ h.step = "stage" /\ h.run = r /\ h.manifest = m
BY DEF Idle, Hand

LEMMA ReadHand ==
    ASSUME NEW h \in Hand, NEW c \in [Roles -> Contents]
    PROVE  LET g == [h EXCEPT !.step = "commit", !.content = c]
           IN g \in Hand /\ g.step = "commit" /\ g.run = h.run /\ g.content = c
BY DEF Hand

LEMMA Puts ==
    ASSUME Typed, NEW p \in Polls, poll' = [poll EXCEPT ![p] = Idle]
    PROVE  DOMAIN poll' = Polls /\ \A q \in Polls : InHand(q)'
BY HandsKept, Hands

\* Polls that nobody served have what they had.
LEMMA SameHands ==
    ASSUME Typed, UNCHANGED poll
    PROVE  DOMAIN poll' = Polls /\ \A q \in Polls : InHand(q)'
BY DEF Typed, InHand

LEMMA RunTypes ==
    ASSUME NEW q \in RunRow
    PROVE  /\ \A p \in Polls : [q EXCEPT !.discovery = "capturing", !.token = p, !.held = TRUE] \in RunRow
           /\ \A m \in Manifests \cup {0}, d \in {"ready", "staging"}, h \in BOOLEAN :
                 [q EXCEPT !.discovery = d, !.token = NoPoll, !.held = h, !.manifest = m] \in RunRow
           /\ [q EXCEPT !.discovery = "failed", !.token = NoPoll, !.held = TRUE] \in RunRow
           /\ [q EXCEPT !.discovery = "ready", !.held = TRUE] \in RunRow
           /\ [q EXCEPT !.held = FALSE] \in RunRow
           /\ \A s \in {"running", "paused"} : [q EXCEPT !.state = s] \in RunRow
BY DEF RunRow

LEMMA SelectTypes ==
    ASSUME StagingAssumption, Typed, NEW p \in Polls, NEW r \in Runs, Select(p, r)
    PROVE  Typed'
<1> DEFINE fresh == [Idle EXCEPT !.step = "capture", !.run = r]
           again == [Idle EXCEPT !.step = "stage", !.run = r, !.manifest = run[r].manifest]
<1>0. run[r] \in RunRow
  BY DEF Typed
<1>1. CASE run[r].discovery = "staging" /\ run[r].manifest # 0
  <2>1. poll' = [poll EXCEPT ![p] = again] /\ UNCHANGED run
    BY <1>1 DEF Select
  <2>2. run[r].manifest \in Manifests
    BY <1>0, <1>1 DEF RunRow
  <2>3. again \in Hand /\ again.step = "stage" /\ again.run = r /\ again.manifest = run[r].manifest
    BY <2>2, StagingHand
  <2> HIDE DEF again
  <2>4. DOMAIN poll' = Polls /\ \A q \in Polls : InHand(q)'
    BY <2>1, <2>2, <2>3, HandsKept
  <2> QED BY <2>1, <2>4 DEF Typed, Select
<1>2. CASE ~(run[r].discovery = "staging" /\ run[r].manifest # 0)
  <2>1. /\ poll' = [poll EXCEPT ![p] = fresh]
        /\ run' = [run EXCEPT ![r] = [@ EXCEPT !.discovery = "capturing", !.token = p, !.held = TRUE]]
    BY <1>0, <1>2 DEF Select, Typed, RunRow
  <2>2. fresh \in Hand /\ fresh.step = "capture" /\ fresh.run = r
    BY Hands
  <2> HIDE DEF fresh
  <2>3. DOMAIN poll' = Polls /\ \A q \in Polls : InHand(q)'
    BY <2>1, <2>2, HandsKept
  <2>4. run' \in [Runs -> RunRow]
    BY <1>0, <2>1, RunTypes DEF Typed
  <2> QED BY <2>3, <2>4 DEF Typed, Select
<1> QED BY <1>1, <1>2

LEMMA CaptureTypes ==
    ASSUME Typed, NEW p \in Polls, Capture(p)
    PROVE  Typed'
<1> DEFINE h == [poll[p] EXCEPT !.step = "commit", !.content = corpus]
<1>1. InHand(p) /\ corpus \in [Roles -> Contents] /\ poll[p].step = "capture"
  BY DEF Typed, Capture
<1>2. poll' = [poll EXCEPT ![p] = h]
  BY <1>1 DEF Capture, Typed, InHand
<1>3. h \in Hand /\ h.step = "commit" /\ h.run \in Runs /\ h.content = corpus
  <2>1. poll[p] \in Hand /\ poll[p].run \in Runs
    BY <1>1 DEF InHand
  <2> QED BY <1>1, <2>1, ReadHand
<1> HIDE DEF h
<1>4. DOMAIN poll' = Polls /\ \A q \in Polls : InHand(q)'
  BY <1>1, <1>2, <1>3, HandsKept
<1> QED BY <1>4 DEF Typed, Capture

\* The snapshot a commit makes, and what becomes of its run.
Fresh(p) == [run |-> poll[p].run, content |-> poll[p].content, left |-> Listed(poll[p].content),
             state |-> "staging", reported |-> marks \cup loose]

LEMMA CommitIs ==
    ASSUME StagingAssumption, Typed, NEW p \in Polls, Commit(p)
    PROVE  LET r == poll[p].run
               n == Min({m \in Manifests : manifest[m].state = "none"})
           IN /\ r \in Runs /\ run[r].token = p
              /\ UNCHANGED <<corpus, target, app, marks, loose>>
              /\ \/ /\ Ready(run[r].manifest)
                    /\ run' = [run EXCEPT ![r] = [@ EXCEPT !.discovery = "ready", !.token = NoPoll,
                                                 !.held = TRUE, !.manifest = run[r].manifest]]
                    /\ poll' = [poll EXCEPT ![p] = Idle]
                    /\ UNCHANGED manifest
                 \/ /\ n \in Manifests /\ manifest[n].state = "none"
                    /\ run' = [run EXCEPT ![r] = [@ EXCEPT !.discovery = "staging", !.token = NoPoll,
                                                 !.held = FALSE, !.manifest = n]]
                    /\ manifest' = [manifest EXCEPT ![n] = Fresh(p)]
                    /\ poll' = [poll EXCEPT ![p] =
                          [Idle EXCEPT !.step = "stage", !.run = r, !.manifest = n]]
<1> DEFINE r == poll[p].run
           old == run[r].manifest
           new == {m \in Manifests : manifest[m].state = "none"}
           n == Min(new)
<1>1. r \in Runs /\ run[r].token = p
  BY DEF Typed, InHand, Commit, MayCommit, Owns
<1>2. run[r] \in RunRow
  BY <1>1 DEF Typed
<1>3. CASE Ready(old) /\ manifest[old].content = poll[p].content
  <2>1. Scanned(r, old, "ready", TRUE) /\ poll' = [poll EXCEPT ![p] = Idle] /\ UNCHANGED manifest
    BY <1>3 DEF Commit
  <2>2. run' = [run EXCEPT ![r] = [@ EXCEPT !.discovery = "ready", !.token = NoPoll,
                                            !.held = TRUE, !.manifest = old]]
    BY <1>1, <1>2, <2>1 DEF Scanned, Typed, RunRow
  <2> QED BY <1>1, <1>3, <2>1, <2>2 DEF Commit
<1>4. CASE ~(Ready(old) /\ manifest[old].content = poll[p].content)
  <2>1. /\ new # {} /\ Scanned(r, n, "staging", FALSE)
        /\ manifest' = [manifest EXCEPT ![n] = Fresh(p)]
        /\ poll' = [poll EXCEPT ![p] = [Idle EXCEPT !.step = "stage", !.run = r, !.manifest = n]]
    BY <1>4 DEF Commit, Fresh
  <2>2. n \in new
    BY <2>1, LeastIsThere DEF StagingAssumption
  <2>3. run' = [run EXCEPT ![r] = [@ EXCEPT !.discovery = "staging", !.token = NoPoll,
                                            !.held = FALSE, !.manifest = n]]
    BY <1>1, <1>2, <2>1 DEF Scanned, Typed, RunRow
  <2> QED BY <1>1, <2>1, <2>2, <2>3 DEF Commit
<1> QED BY <1>3, <1>4

LEMMA CommitTypes ==
    ASSUME StagingAssumption, Typed, NEW p \in Polls, Commit(p)
    PROVE  Typed'
<1> DEFINE r == poll[p].run
           n == Min({m \in Manifests : manifest[m].state = "none"})
<1> HIDE DEF n
<1>1. r \in Runs /\ run[r] \in RunRow
  BY CommitIs DEF Typed
<1>2. CASE UNCHANGED manifest
  <2>1. /\ run' = [run EXCEPT ![r] = [@ EXCEPT !.discovery = "ready", !.token = NoPoll,
                                              !.held = TRUE, !.manifest = run[r].manifest]]
        /\ poll' = [poll EXCEPT ![p] = Idle]
    <3>1. ~(/\ n \in Manifests /\ manifest[n].state = "none"
            /\ manifest' = [manifest EXCEPT ![n] = Fresh(p)])
      BY <1>2 DEF Fresh, Typed
    <3> QED BY <3>1, CommitIs DEF n
  <2>2. DOMAIN poll' = Polls /\ \A q \in Polls : InHand(q)'
    BY <2>1, Puts
  <2>3. run' \in [Runs -> RunRow]
    <3>1. run[r].manifest \in Manifests \cup {0}
      BY <1>1 DEF RunRow
    <3> QED BY <1>1, <2>1, <3>1, RunTypes DEF Typed
  <2>4. UNCHANGED <<corpus, target, app, marks, loose>>
    BY CommitIs
  <2> QED BY <1>2, <2>2, <2>3, <2>4 DEF Typed
<1>3. CASE manifest' # manifest
  <2>1. /\ n \in Manifests
        /\ run' = [run EXCEPT ![r] = [@ EXCEPT !.discovery = "staging", !.token = NoPoll,
                                              !.held = FALSE, !.manifest = n]]
        /\ manifest' = [manifest EXCEPT ![n] = Fresh(p)]
        /\ poll' = [poll EXCEPT ![p] = [Idle EXCEPT !.step = "stage", !.run = r, !.manifest = n]]
    BY <1>3, CommitIs DEF n
  <2>2. DOMAIN poll' = Polls /\ \A q \in Polls : InHand(q)'
    <3> DEFINE h == [Idle EXCEPT !.step = "stage", !.run = r, !.manifest = n]
    <3>1. h \in Hand /\ h.step = "stage" /\ h.run = r /\ h.manifest = n
      BY <1>1, <2>1, StagingHand
    <3>2. poll' = [poll EXCEPT ![p] = h]
      BY <2>1
    <3> HIDE DEF h
    <3> QED BY <1>1, <2>1, <3>1, <3>2, HandsKept
  <2>3. run' \in [Runs -> RunRow]
    <3>1. run[r].manifest \in Manifests \cup {0}
      BY <1>1 DEF RunRow
    <3> QED BY <1>1, <2>1, <3>1, RunTypes DEF Typed
  <2>4. poll[p].content \in [Roles -> Contents] /\ marks \cup loose \subseteq Roles
    BY DEF Commit, Typed, InHand
  <2>5. Fresh(p) \in Snapshot
    BY <1>1, <2>4 DEF Fresh, Snapshot, Listed
  <2>6. manifest' \in [Manifests -> Snapshot]
    BY <2>1, <2>5 DEF Typed
  <2>7. UNCHANGED <<corpus, target, app, marks, loose>>
    BY CommitIs
  <2> QED BY <2>2, <2>3, <2>6, <2>7 DEF Typed
<1> QED BY <1>2, <1>3

LEMMA CaptureFailsTypes ==
    ASSUME Typed, NEW p \in Polls, CaptureFails(p)
    PROVE  Typed'
<1> DEFINE r == poll[p].run
<1>1. r \in Runs /\ run[r] \in RunRow
  BY DEF Typed, InHand, CaptureFails
<1>2. \/ UNCHANGED run
      \/ run' = [run EXCEPT ![r] = [@ EXCEPT !.discovery = "failed", !.token = NoPoll, !.held = TRUE]]
  BY <1>1 DEF CaptureFails, Typed, RunRow
<1>3. run' \in [Runs -> RunRow]
  BY <1>1, <1>2, RunTypes DEF Typed
<1>4. DOMAIN poll' = Polls /\ \A q \in Polls : InHand(q)'
  BY Puts DEF CaptureFails
<1> QED BY <1>3, <1>4 DEF CaptureFails, Typed

\* The snapshots the last chunk leaves: its own is complete, and of the others
\* only those are pruned that no run, target or attempt points at.
LEMMA LastSnapshots ==
    ASSUME Typed, NEW r \in Runs, NEW m \in Manifests, NEW chunk \in SUBSET Roles,
           StagesLast(r, m, chunk)
    PROVE  /\ DOMAIN manifest' = Manifests
           /\ manifest'[m] \in Snapshot
           /\ manifest'[m].state = "ready" /\ manifest'[m].run = manifest[m].run
           /\ manifest'[m].reported = manifest[m].reported
<1> DEFINE done == [manifest[m] EXCEPT !.state = "ready", !.left = {}]
<1>1. manifest[m] \in Snapshot
  BY DEF Typed
<1>2. DOMAIN manifest' = Manifests /\ manifest'[m] = done
  BY DEF StagesLast, Finish
<1>3. done \in Snapshot /\ done.state = "ready" /\ done.run = manifest[m].run
      /\ done.reported = manifest[m].reported
  BY <1>1 DEF Snapshot
<1> HIDE DEF done
<1> QED BY <1>2, <1>3

LEMMA LastPrunes ==
    ASSUME Typed, NEW r \in Runs, NEW m \in Manifests, NEW chunk \in SUBSET Roles,
           StagesLast(r, m, chunk), NEW n \in Manifests, n # m, manifest'[n] # manifest[n]
    PROVE  /\ manifest'[n] \in Snapshot
           /\ manifest'[n].state = "pruned" /\ manifest'[n].reported = {}
           /\ manifest[n].run = r
           /\ \A q \in Runs : run[q].manifest # n
           /\ \A x \in Roles : \A i \in DOMAIN app'[x] : app'[x][i].manifest # n
<1> DEFINE checked == [y \in Roles |-> Suppressed(StagedBy(r, m, chunk)[y], y, m)]
           rows == Queued(r, m, checked)
           targets == [target EXCEPT ![r] = Pointed(r, m, checked, rows)]
           unused == Unused(r, m, targets, rows)
           gone == [NoManifest EXCEPT !.state = "pruned"]
<1>1. app' = rows
  BY DEF StagesLast, Finish
<1>2. manifest'[n] = IF n \in unused THEN gone ELSE manifest[n]
  BY DEF StagesLast, Finish
<1>3. gone \in Snapshot /\ gone.state = "pruned" /\ gone.reported = {}
  BY DEF Snapshot, NoManifest, Contents
<1>4. n \in unused =>
         /\ manifest[n].run = r
         /\ \A q \in Runs : run[q].manifest # n
         /\ \A x \in Roles : \A i \in DOMAIN rows[x] : rows[x][i].manifest # n
  BY DEF Unused
<1> HIDE DEF unused, gone, rows
<1> QED BY <1>1, <1>2, <1>3, <1>4

LEMMA LastLeaves ==
    ASSUME Typed, NEW r \in Runs, NEW m \in Manifests, NEW chunk \in SUBSET Roles,
           StagesLast(r, m, chunk)
    PROVE  /\ run' = [run EXCEPT ![r] = [@ EXCEPT !.discovery = "ready", !.held = TRUE]]
           /\ \A q \in Runs : q # r => target'[q] = target[q]
           /\ \A x \in Roles : Len(app'[x]) <= MaxAttempts
<1> DEFINE checked == [y \in Roles |-> Suppressed(StagedBy(r, m, chunk)[y], y, m)]
           rows == Queued(r, m, checked)
           F == Pointed(r, m, checked, rows)
<1>1. /\ app' = rows /\ \A x \in Roles : Len(rows[x]) <= MaxAttempts
      /\ target' = [target EXCEPT ![r] = F]
      /\ run' = [run EXCEPT ![r].discovery = "ready", ![r].held = TRUE]
  BY DEF StagesLast, Finish
<1>2. run' = [run EXCEPT ![r] = [@ EXCEPT !.discovery = "ready", !.held = TRUE]]
  BY <1>1 DEF Typed, RunRow
<1> HIDE DEF rows, F
<1>3. \A q \in Runs : q # r => target'[q] = target[q]
  BY <1>1 DEF Typed
<1> QED BY <1>1, <1>2, <1>3

LEMMA PartTypes ==
    ASSUME Typed, NEW r \in Runs, NEW m \in Manifests, NEW chunk \in SUBSET Roles,
           StagesPart(r, m, chunk)
    PROVE  /\ manifest' \in [Manifests -> Snapshot]
           /\ target' \in [Runs -> [Roles -> TargetRow]]
           /\ UNCHANGED <<run, app>>
<1>1. manifest' \in [Manifests -> Snapshot]
  <2> DEFINE k == [manifest[m] EXCEPT !.left = manifest[m].left \ chunk]
  <2>1. manifest \in [Manifests -> Snapshot]
    BY DEF Typed
  <2>2. manifest' = [manifest EXCEPT ![m] = k]
    BY <2>1 DEF StagesPart
  <2>3. k \in Snapshot
    BY <2>1 DEF Snapshot
  <2> HIDE DEF k
  <2> QED BY <2>1, <2>2, <2>3
<1>2. target' \in [Runs -> [Roles -> TargetRow]]
  <2>1. \A x \in Roles : StagedBy(r, m, chunk)[x] \in TargetRow
    BY StagedRow
  <2>2. StagedBy(r, m, chunk) = [x \in Roles |-> StagedBy(r, m, chunk)[x]]
    BY DEF StagedBy
  <2>3. StagedBy(r, m, chunk) \in [Roles -> TargetRow]
    BY <2>1, <2>2
  <2> QED BY <2>3 DEF StagesPart, Typed
<1> QED BY <1>1, <1>2 DEF StagesPart

LEMMA LastTypes ==
    ASSUME Typed, NEW r \in Runs, NEW m \in Manifests, NEW chunk \in SUBSET Roles,
           StagesLast(r, m, chunk)
    PROVE  /\ manifest' \in [Manifests -> Snapshot]
           /\ run' \in [Runs -> RunRow]
           /\ target' \in [Runs -> [Roles -> TargetRow]]
           /\ app' \in [Roles -> Seq(Attempt)]
           /\ \A x \in Roles : Len(app'[x]) <= MaxAttempts
<1>1. manifest' \in [Manifests -> Snapshot]
  <2>1. \A n \in Manifests : manifest'[n] \in Snapshot
    <3> TAKE n \in Manifests
    <3>1. manifest[n] \in Snapshot
      BY DEF Typed
    <3>2. CASE n = m
      BY <3>2, LastSnapshots
    <3>3. CASE n # m /\ manifest'[n] # manifest[n]
      BY <3>3, LastPrunes
    <3> QED BY <3>1, <3>2, <3>3
  <2>2. manifest' = [n \in Manifests |-> manifest'[n]]
    BY DEF StagesLast, Finish
  <2> QED BY <2>1, <2>2
<1>5. /\ run' = [run EXCEPT ![r] = [@ EXCEPT !.discovery = "ready", !.held = TRUE]]
      /\ \A x \in Roles : Len(app'[x]) <= MaxAttempts
  BY LastLeaves
<1>2. run' \in [Runs -> RunRow]
  BY <1>5, RunTypes DEF Typed
<1>3. target' \in [Runs -> [Roles -> TargetRow]]
  <2>1. PICK F : target' = [target EXCEPT ![r] = [x \in Roles |-> F[x]]]
    <3> DEFINE checked == [x \in Roles |-> Suppressed(StagedBy(r, m, chunk)[x], x, m)]
               F == Pointed(r, m, checked, Queued(r, m, checked))
    <3>1. target' = [target EXCEPT ![r] = F]
      BY DEF StagesLast, Finish
    <3>2. F = [x \in Roles |-> F[x]]
      BY DEF Pointed
    <3> HIDE DEF F
    <3> QED BY <3>1, <3>2
  <2>2. \A x \in Roles : target'[r][x] \in TargetRow
    BY LastRows
  <2>3. \A x \in Roles : F[x] \in TargetRow
    BY <2>1, <2>2 DEF Typed
  <2>4. [x \in Roles |-> F[x]] \in [Roles -> TargetRow]
    BY <2>3
  <2> QED BY <2>1, <2>4 DEF Typed
<1>4. app' \in [Roles -> Seq(Attempt)]
  <2>1. \A x \in Roles : app'[x] \in Seq(Attempt)
    <3> TAKE x \in Roles
    <3> DEFINE c == CheckedBy(r, m, chunk)[x]
    <3>1. app'[x] = app[x] \/ app'[x] = Append(app[x], NewAttempt(r, m, c.version))
      BY LastRows
    <3>2. c \in TargetRow
      BY CheckedRow
    <3>3. NewAttempt(r, m, c.version) \in Attempt
      BY <3>2 DEF NewAttempt, Attempt, TargetRow
    <3>4. app[x] \in Seq(Attempt)
      BY DEF Typed
    <3> HIDE DEF c
    <3> QED BY <3>1, <3>3, <3>4
  <2>2. app' = [x \in Roles |-> app'[x]]
    BY DEF StagesLast, Finish, Queued
  <2> QED BY <2>1, <2>2
<1> QED BY <1>1, <1>2, <1>3, <1>4, <1>5

LEMMA StageTypes ==
    ASSUME Typed, NEW p \in Polls, Stage(p)
    PROVE  Typed'
<1>1. PICK r \in Runs, m \in Manifests :
        /\ poll' = [poll EXCEPT ![p] = Idle] /\ UNCHANGED <<corpus, marks, loose>>
        /\ \/ UNCHANGED <<run, manifest, target, app>>
           \/ \E chunk \in SUBSET Roles : StagesPart(r, m, chunk) \/ StagesLast(r, m, chunk)
  BY StageIs
<1>2. DOMAIN poll' = Polls /\ \A q \in Polls : InHand(q)'
  BY <1>1, Puts
<1>3. CASE UNCHANGED <<run, manifest, target, app>>
  BY <1>1, <1>2, <1>3 DEF Typed
<1>4. ASSUME NEW chunk \in SUBSET Roles, StagesPart(r, m, chunk) PROVE Typed'
  BY <1>1, <1>2, <1>4, PartTypes DEF Typed
<1>5. ASSUME NEW chunk \in SUBSET Roles, StagesLast(r, m, chunk) PROVE Typed'
  BY <1>1, <1>2, <1>5, LastTypes DEF Typed
<1> QED BY <1>1, <1>3, <1>4, <1>5

LEMMA StopIs ==
    ASSUME Typed, NEW r \in Runs, Stop(r)
    PROVE  LET q == AfterStop(r)
           IN /\ run' = [run EXCEPT ![r] = q] /\ q \in RunRow
              /\ q.state = "stopped" /\ q.token = NoPoll /\ q.manifest = run[r].manifest
              /\ q.discovery # "staging"
              /\ manifest' \in [Manifests -> Snapshot]
              /\ \A m \in Manifests :
                    /\ m = run[r].manifest /\ run[r].discovery = "staging" =>
                          /\ manifest'[m].state = "abandoned" /\ manifest'[m].run = manifest[m].run
                          /\ manifest'[m].reported = manifest[m].reported
                    /\ ~(m = run[r].manifest /\ run[r].discovery = "staging") =>
                          manifest'[m] = manifest[m]
<1>1. run[r] \in RunRow /\ manifest \in [Manifests -> Snapshot]
  BY DEF Typed
<1>2. LET q == AfterStop(r)
      IN /\ q \in RunRow /\ q.state = "stopped" /\ q.token = NoPoll
         /\ q.manifest = run[r].manifest /\ q.discovery # "staging"
  BY <1>1 DEF AfterStop, RunRow
<1>3. \A m \in Manifests :
        LET k == [manifest[m] EXCEPT !.state = "abandoned"]
        IN k \in Snapshot /\ k.state = "abandoned" /\ k.run = manifest[m].run
           /\ k.reported = manifest[m].reported
  BY <1>1 DEF Snapshot
<1>4. manifest' = [m \in Manifests |->
         IF m = run[r].manifest /\ run[r].discovery = "staging"
         THEN [manifest[m] EXCEPT !.state = "abandoned"] ELSE manifest[m]]
  BY DEF Stop
<1>5. \A m \in Manifests : manifest'[m] \in Snapshot
  BY <1>1, <1>3, <1>4
<1>6. manifest' = [m \in Manifests |-> manifest'[m]]
  BY <1>4
<1>7. manifest' \in [Manifests -> Snapshot]
  BY <1>5, <1>6
<1> QED BY <1>2, <1>3, <1>4, <1>7 DEF Stop

LEMMA CommandTypes ==
    ASSUME StagingAssumption, Typed
    PROVE  /\ \A r \in Runs : Expire(r) \/ Pause(r) \/ Resume(r) \/ Stop(r) => Typed'
           /\ \A x \in Roles : /\ \A state \in {"employer", "over"} : Advance(x, state) => Typed'
                               /\ \A r \in Runs : NextAttempt(r, x) => Typed'
                               /\ Report(x) \/ ReportUnresolved(x) => Typed'
                               /\ \A c \in Contents : Change(x, c) => Typed'
<1>1. ASSUME NEW r \in Runs, Expire(r) \/ Pause(r) \/ Resume(r) PROVE Typed'
  <2>1. run[r] \in RunRow
    BY DEF Typed
  <2>2. \/ run' = [run EXCEPT ![r] = [@ EXCEPT !.held = FALSE]]
        \/ run' = [run EXCEPT ![r] = [@ EXCEPT !.state = "running"]]
        \/ run' = [run EXCEPT ![r] = [@ EXCEPT !.state = "paused"]]
    BY <1>1 DEF Expire, Pause, Resume
  <2>3. run' \in [Runs -> RunRow]
    BY <2>1, <2>2, RunTypes DEF Typed
  <2>4. UNCHANGED <<corpus, manifest, target, app, marks, loose, poll>>
    BY <1>1 DEF Expire, Pause, Resume
  <2>5. DOMAIN poll' = Polls /\ \A q \in Polls : InHand(q)'
    BY <2>4, SameHands
  <2> QED BY <2>3, <2>4, <2>5 DEF Typed
<1>2. ASSUME NEW r \in Runs, Stop(r) PROVE Typed'
  <2>1. run' \in [Runs -> RunRow] /\ manifest' \in [Manifests -> Snapshot]
    <3> DEFINE q == AfterStop(r)
    <3>1. run' = [run EXCEPT ![r] = q] /\ q \in RunRow /\ manifest' \in [Manifests -> Snapshot]
      BY <1>2, StopIs
    <3> HIDE DEF q
    <3> QED BY <3>1 DEF Typed
  <2>2. \A x \in Roles : app'[x] \in Seq(Attempt) /\ Len(app'[x]) = Len(app[x])
    BY <1>2, StopEnds DEF OnlyEnds
  <2>3. app' = [x \in Roles |-> app'[x]]
    BY <1>2 DEF Stop
  <2>4. app' \in [Roles -> Seq(Attempt)]
    BY <2>2, <2>3
  <2>5. UNCHANGED <<corpus, target, marks, loose, poll>>
    BY <1>2 DEF Stop
  <2>6. DOMAIN poll' = Polls /\ \A q \in Polls : InHand(q)'
    BY <2>5, SameHands
  <2> QED BY <2>1, <2>2, <2>4, <2>5, <2>6 DEF Typed
<1>3. ASSUME NEW x \in Roles, NEW state \in {"employer", "over"}, Advance(x, state) PROVE Typed'
  <2>1. \A y \in Roles : app'[y] \in Seq(Attempt) /\ Len(app'[y]) = Len(app[y])
    BY <1>3, AdvanceEnds DEF OnlyEnds
  <2>2. app' = [y \in Roles |-> app'[y]]
    <3>1. DOMAIN app' = Roles /\ app' = [y \in DOMAIN app' |-> app'[y]]
      BY <1>3 DEF Advance, Typed
    <3> QED BY <3>1
  <2>3. app' \in [Roles -> Seq(Attempt)]
    BY <2>1, <2>2
  <2>4. UNCHANGED <<corpus, run, manifest, target, marks, loose, poll>>
    BY <1>3 DEF Advance
  <2>5. DOMAIN poll' = Polls /\ \A q \in Polls : InHand(q)'
    BY <2>4, SameHands
  <2> QED BY <2>1, <2>3, <2>4, <2>5 DEF Typed
<1>4. ASSUME NEW x \in Roles, NEW r \in Runs, NextAttempt(r, x) PROVE Typed'
  <2>1. /\ app'[x] \in Seq(Attempt) /\ Len(app'[x]) <= MaxAttempts
        /\ target'[r][x] \in TargetRow
    BY <1>4, NextIs DEF StagingAssumption
  <2>2. PICK s, t : app' = [app EXCEPT ![x] = s] /\ target' = [target EXCEPT ![r] = [@ EXCEPT ![x] = t]]
    BY <1>4 DEF NextAttempt
  <2>3. s = app'[x] /\ t = target'[r][x]
    BY <2>2 DEF Typed
  <2>4. app' \in [Roles -> Seq(Attempt)] /\ target' \in [Runs -> [Roles -> TargetRow]]
    BY <2>1, <2>2, <2>3 DEF Typed
  <2>5. UNCHANGED <<corpus, run, manifest, marks, loose, poll>>
    BY <1>4 DEF NextAttempt
  <2>6. DOMAIN poll' = Polls /\ \A q \in Polls : InHand(q)'
    BY <2>5, SameHands
  <2>7. \A y \in Roles : Len(app'[y]) <= MaxAttempts
    BY <1>4, <2>1, NextElsewhere DEF Typed
  <2> QED BY <2>4, <2>5, <2>6, <2>7 DEF Typed
<1>5. ASSUME NEW x \in Roles, Report(x) PROVE Typed'
  <2>1. \A y \in Roles : app'[y] \in Seq(Attempt) /\ Len(app'[y]) = Len(app[y])
    BY <1>5, ReportEnds DEF OnlyEnds
  <2>2. app' = [y \in Roles |-> app'[y]]
    <3>1. DOMAIN app' = Roles /\ app' = [y \in DOMAIN app' |-> app'[y]]
      BY <1>5 DEF Report, Typed
    <3> QED BY <3>1
  <2>3. app' \in [Roles -> Seq(Attempt)]
    BY <2>1, <2>2
  <2>4. target' \in [Runs -> [Roles -> TargetRow]]
    <3>1. \A r \in Runs : target[r][x] \in TargetRow
      BY DEF Typed
    <3>2. \A r \in Runs : [target[r][x] EXCEPT !.disposition = "manual_reported"] \in TargetRow
      BY <3>1 DEF TargetRow
    <3>3. target' = [r \in Runs |-> [target[r] EXCEPT ![x] =
             IF target[r][x].manifest = 0 THEN target[r][x]
             ELSE [target[r][x] EXCEPT !.disposition = "manual_reported"]]]
      BY <1>5 DEF Report
    <3>4. \A r \in Runs : target'[r] \in [Roles -> TargetRow]
      BY <3>1, <3>2, <3>3 DEF Typed
    <3>5. target' = [r \in Runs |-> target'[r]]
      BY <3>3
    <3> QED BY <3>4, <3>5
  <2>5. UNCHANGED <<corpus, run, manifest, loose, poll>> /\ marks' = marks \cup {x}
    BY <1>5 DEF Report
  <2>6. DOMAIN poll' = Polls /\ \A q \in Polls : InHand(q)'
    BY <2>5, SameHands
  <2> QED BY <2>1, <2>3, <2>4, <2>5, <2>6 DEF Typed
<1>6. ASSUME NEW x \in Roles, ReportUnresolved(x) PROVE Typed'
  <2>1. DOMAIN poll' = Polls /\ \A q \in Polls : InHand(q)'
    BY <1>6, SameHands DEF ReportUnresolved
  <2> QED BY <1>6, <2>1 DEF ReportUnresolved, Typed
<1>7. ASSUME NEW x \in Roles, NEW c \in Contents, Change(x, c) PROVE Typed'
  <2>1. DOMAIN poll' = Polls /\ \A q \in Polls : InHand(q)'
    BY <1>7, SameHands DEF Change
  <2> QED BY <1>7, <2>1 DEF Change, Typed
<1> QED BY <1>1, <1>2, <1>3, <1>4, <1>5, <1>6, <1>7

LEMMA TypeStep ==
    ASSUME StagingAssumption, Typed, [Next]_vars
    PROVE  Typed'
<1>1. CASE UNCHANGED vars
  <2>1. DOMAIN poll' = Polls /\ \A q \in Polls : InHand(q)'
    BY <1>1, SameHands DEF vars
  <2> QED BY <1>1, <2>1 DEF vars, Typed
<1>2. ASSUME NEW p \in Polls, PollStep(p) \/ Dies(p) PROVE Typed'
  <2>1. CASE Dies(p)
    <3>1. DOMAIN poll' = Polls /\ \A q \in Polls : InHand(q)'
      BY <2>1, Puts DEF Dies
    <3> QED BY <2>1, <3>1 DEF Dies, Typed
  <2>2. CASE PollStep(p)
    BY <2>2, SelectTypes, CaptureTypes, CommitTypes, CaptureFailsTypes, StageTypes DEF PollStep
  <2> QED BY <1>2, <2>1, <2>2
<1> QED BY <1>1, <1>2, CommandTypes DEF Next

-----------------------------------------------------------------------------
\* Whose snapshot is staged

Owned == Captured /\ OwnSnapshot /\ StagingIsResumed

\* A part of a chunk changes nothing of a snapshot but what is left of it.
LEMMA PartSnapshots ==
    ASSUME Typed, NEW r \in Runs, NEW m \in Manifests, NEW chunk \in SUBSET Roles,
           StagesPart(r, m, chunk), NEW n \in Manifests
    PROVE  /\ manifest'[n].state = manifest[n].state
           /\ manifest'[n].run = manifest[n].run
           /\ manifest'[n].reported = manifest[n].reported
<1>1. manifest[n] \in Snapshot /\ manifest \in [Manifests -> Snapshot]
  BY DEF Typed
<1>2. manifest' = [manifest EXCEPT ![m] = [manifest[m] EXCEPT !.left = manifest[m].left \ chunk]]
  BY <1>1 DEF StagesPart
<1> QED BY <1>1, <1>2 DEF Snapshot

\* Owned speaks of these fields only.
LEMMA OwnedFields ==
    ASSUME Typed, Typed', Owned,
           \A r \in Runs :
              /\ run'[r].manifest = run[r].manifest
              /\ run'[r].token # NoPoll => run'[r].discovery = "capturing"
              /\ run'[r].discovery = "staging" <=> run[r].discovery = "staging"
              /\ run'[r].state = "stopped" => run[r].state = "stopped",
           \A n \in Manifests :
              manifest'[n].state = manifest[n].state /\ manifest'[n].run = manifest[n].run
    PROVE  Owned'
<1>1. Captured'
  BY DEF Captured
<1>2. OwnSnapshot'
  <2>1. \A r \in Runs : run[r].manifest # 0 => run[r].manifest \in Manifests
    BY DEF Typed, RunRow
  <2> QED BY <2>1 DEF Owned, OwnSnapshot
<1>3. StagingIsResumed'
  BY DEF Owned, StagingIsResumed, OwnSnapshot
<1> QED BY <1>1, <1>2, <1>3 DEF Owned

LEMMA SelectOwned ==
    ASSUME Typed, Typed', Owned, NEW p \in Polls, NEW r \in Runs, Select(p, r)
    PROVE  Owned'
<1>1. run[r].discovery = "staging" => run[r].manifest # 0
  BY DEF Owned, OwnSnapshot
<1>2. CASE run[r].discovery = "staging"
  <2>1. UNCHANGED <<run, manifest>>
    BY <1>1, <1>2 DEF Select
  <2> QED BY <2>1, OwnedFields DEF Owned, Captured
<1>3. CASE run[r].discovery # "staging"
  <2>1. UNCHANGED manifest
        /\ run' = [run EXCEPT ![r].discovery = "capturing", ![r].token = p, ![r].held = TRUE]
    BY <1>3 DEF Select
  <2>2. /\ run'[r].manifest = run[r].manifest /\ run'[r].discovery = "capturing"
        /\ run'[r].state = run[r].state
        /\ \A q \in Runs : q # r => run'[q] = run[q]
    BY <2>1 DEF Typed, RunRow
  <2> QED BY <1>3, <2>1, <2>2, OwnedFields DEF Owned, Captured
<1> QED BY <1>2, <1>3

LEMMA CommitOwned ==
    ASSUME StagingAssumption, Typed, Typed', Owned, NEW p \in Polls, Commit(p)
    PROVE  Owned'
<1> DEFINE n == Min({m \in Manifests : manifest[m].state = "none"})
<1>1. PICK r \in Runs :
        /\ r = poll[p].run /\ run[r].token = p
        /\ \/ /\ run' = [run EXCEPT ![r] = [@ EXCEPT !.discovery = "ready", !.token = NoPoll,
                                                   !.held = TRUE, !.manifest = run[r].manifest]]
              /\ UNCHANGED manifest
           \/ /\ n \in Manifests /\ manifest[n].state = "none"
              /\ run' = [run EXCEPT ![r] = [@ EXCEPT !.discovery = "staging", !.token = NoPoll,
                                                     !.held = FALSE, !.manifest = n]]
              /\ manifest' = [manifest EXCEPT ![n] = Fresh(p)]
  BY CommitIs
<1>2. run[r].discovery = "capturing" /\ Current(r)
  BY <1>1 DEF Owned, Captured, StagingAssumption, Commit, MayCommit
<1>3. run[r] \in RunRow
  BY DEF Typed
<1> HIDE DEF n
<1>4. CASE UNCHANGED manifest /\ run' = [run EXCEPT ![r] = [@ EXCEPT !.discovery = "ready", !.token = NoPoll,
                                                   !.held = TRUE, !.manifest = run[r].manifest]]
  <2>1. /\ run'[r].manifest = run[r].manifest /\ run'[r].discovery = "ready"
        /\ run'[r].token = NoPoll /\ run'[r].state = run[r].state
        /\ \A q \in Runs : q # r => run'[q] = run[q]
    BY <1>3, <1>4 DEF Typed, RunRow
  <2> QED BY <1>2, <1>4, <2>1, OwnedFields DEF Owned, Captured
<1>5. CASE /\ n \in Manifests /\ manifest[n].state = "none"
           /\ run' = [run EXCEPT ![r] = [@ EXCEPT !.discovery = "staging", !.token = NoPoll,
                                                  !.held = FALSE, !.manifest = n]]
           /\ manifest' = [manifest EXCEPT ![n] = Fresh(p)]
  <2>1. /\ run'[r].manifest = n /\ run'[r].discovery = "staging"
        /\ run'[r].token = NoPoll /\ run'[r].state = "running"
        /\ \A q \in Runs : q # r => run'[q] = run[q]
    BY <1>2, <1>3, <1>5 DEF Typed, RunRow, Current
  <2>2. /\ manifest'[n].run = r /\ manifest'[n].state = "staging"
        /\ \A m \in Manifests : m # n => manifest'[m] = manifest[m]
    BY <1>1, <1>5 DEF Typed, Fresh
  <2>3. Captured'
    BY <2>1 DEF Owned, Captured
  <2>4. n # 0 /\ \A q \in Runs : run[q].manifest # 0 => run[q].manifest \in Manifests \ {n}
    BY <1>5 DEF Typed, RunRow, Manifests, Owned, OwnSnapshot
  <2>5. OwnSnapshot'
    BY <2>1, <2>2, <2>4 DEF Owned, OwnSnapshot
  <2>6. StagingIsResumed'
    <3>1. SUFFICES ASSUME NEW m \in Manifests, manifest'[m].state = "staging"
          PROVE  LET q == manifest'[m].run
                 IN run'[q].manifest = m /\ run'[q].discovery = "staging" /\ run'[q].state # "stopped"
      BY DEF StagingIsResumed
    <3>2. CASE m = n
      BY <2>1, <2>2, <3>2
    <3>3. CASE m # n
      <4>1. /\ manifest[m].run \in Runs /\ manifest[m].run # r
            /\ run[manifest[m].run].manifest = m /\ run[manifest[m].run].discovery = "staging"
            /\ run[manifest[m].run].state # "stopped"
        BY <1>2, <2>2, <3>1, <3>3 DEF Owned, OwnSnapshot, StagingIsResumed
      <4> QED BY <2>1, <2>2, <3>3, <4>1
    <3> QED BY <3>2, <3>3
  <2> QED BY <2>3, <2>5, <2>6 DEF Owned
<1> QED BY <1>1, <1>4, <1>5

LEMMA CaptureFailsOwned ==
    ASSUME StagingAssumption, Typed, Typed', Owned, NEW p \in Polls, CaptureFails(p)
    PROVE  Owned'
<1> DEFINE r == poll[p].run
<1>1. r \in Runs /\ run[r] \in RunRow
  BY DEF Typed, InHand, CaptureFails
<1>2. CASE ~Owns(p)
  BY <1>2, OwnedFields DEF CaptureFails, Owned, Captured
<1>3. CASE Owns(p)
  <2>1. run[r].discovery = "capturing"
    BY <1>1, <1>3 DEF Owns, Owned, Captured, StagingAssumption
  <2>2. UNCHANGED manifest /\ run' = [run EXCEPT ![r].discovery = "failed", ![r].token = NoPoll, ![r].held = TRUE]
    BY <1>3 DEF CaptureFails
  <2>3. /\ run'[r].manifest = run[r].manifest /\ run'[r].discovery = "failed"
        /\ run'[r].token = NoPoll /\ run'[r].state = run[r].state
        /\ \A q \in Runs : q # r => run'[q] = run[q]
    BY <1>1, <2>2 DEF Typed, RunRow
  <2> QED BY <1>1, <2>1, <2>2, <2>3, OwnedFields DEF Owned, Captured
<1> QED BY <1>2, <1>3

LEMMA LastOwned ==
    ASSUME StagingAssumption, Typed, Typed', Owned, NEW r \in Runs, NEW m \in Manifests,
           NEW chunk \in SUBSET Roles, StagesLast(r, m, chunk)
    PROVE  Owned'
<1>1. /\ run' = [run EXCEPT ![r] = [@ EXCEPT !.discovery = "ready", !.held = TRUE]]
      /\ manifest'[m].state = "ready" /\ manifest'[m].run = manifest[m].run
      /\ \A n \in Manifests : n # m =>
            \/ manifest'[n] = manifest[n]
            \/ manifest'[n].state = "pruned" /\ \A q \in Runs : run[q].manifest # n
  <2>1. /\ run' = [run EXCEPT ![r] = [@ EXCEPT !.discovery = "ready", !.held = TRUE]]
        /\ manifest'[m].state = "ready" /\ manifest'[m].run = manifest[m].run
    BY LastSnapshots, LastLeaves
  <2>2. ASSUME NEW n \in Manifests, n # m, manifest'[n] # manifest[n]
        PROVE  manifest'[n].state = "pruned" /\ \A q \in Runs : run[q].manifest # n
    BY <2>2, LastPrunes
  <2> QED BY <2>1, <2>2
<1>2. manifest[m].state = "staging" /\ run[r].manifest = m /\ m # 0
  BY DEF StagesLast, Manifests
<1>3. manifest[m].run = r /\ run[r].discovery = "staging" /\ run[r].token = NoPoll
  BY <1>2 DEF Owned, OwnSnapshot, StagingIsResumed, Captured
<1>4. /\ run'[r].manifest = m /\ run'[r].discovery = "ready" /\ run'[r].token = NoPoll
      /\ \A q \in Runs : q # r => run'[q] = run[q]
  BY <1>1, <1>2, <1>3 DEF Typed, RunRow
<1>5. \A q \in Runs : q # r => run[q].manifest # m
  BY <1>2, <1>3 DEF Owned, OwnSnapshot
<1>6. \A q \in Runs : run[q].manifest # 0 => run[q].manifest \in Manifests
  BY DEF Typed, RunRow
<1>7. Captured'
  BY <1>4 DEF Owned, Captured
<1>8. OwnSnapshot'
  BY <1>1, <1>2, <1>3, <1>4, <1>5, <1>6 DEF Owned, OwnSnapshot
<1>9. StagingIsResumed'
  <2>1. SUFFICES ASSUME NEW n \in Manifests, manifest'[n].state = "staging"
        PROVE  LET q == manifest'[n].run
               IN run'[q].manifest = n /\ run'[q].discovery = "staging" /\ run'[q].state # "stopped"
    BY DEF StagingIsResumed
  <2>2. n # m /\ manifest'[n] = manifest[n]
    BY <1>1, <2>1
  <2>3. /\ manifest[n].run \in Runs /\ run[manifest[n].run].manifest = n
        /\ run[manifest[n].run].discovery = "staging" /\ run[manifest[n].run].state # "stopped"
    BY <2>1, <2>2 DEF Owned, OwnSnapshot, StagingIsResumed
  <2>4. manifest[n].run # r
    BY <1>2, <2>2, <2>3
  <2> QED BY <1>4, <2>2, <2>3, <2>4
<1> QED BY <1>7, <1>8, <1>9 DEF Owned

LEMMA StopOwned ==
    ASSUME Typed, Typed', Owned, NEW r \in Runs, Stop(r)
    PROVE  Owned'
<1>1. PICK q \in RunRow :
        /\ run' = [run EXCEPT ![r] = q]
        /\ q.state = "stopped" /\ q.token = NoPoll /\ q.manifest = run[r].manifest
        /\ q.discovery # "staging"
  BY StopIs
<1>2. \A m \in Manifests :
        /\ m = run[r].manifest /\ run[r].discovery = "staging" =>
              manifest'[m].state = "abandoned" /\ manifest'[m].run = manifest[m].run
        /\ ~(m = run[r].manifest /\ run[r].discovery = "staging") =>
              manifest'[m] = manifest[m]
  BY StopIs
<1>3. run'[r] = q /\ \A s \in Runs : s # r => run'[s] = run[s]
  BY <1>1 DEF Typed
<1>4. \A s \in Runs : run[s].manifest # 0 => run[s].manifest \in Manifests
  BY DEF Typed, RunRow
<1>5. \A s \in Runs : s # r /\ run[s].manifest # 0 => run[s].manifest # run[r].manifest
  BY DEF Owned, OwnSnapshot
<1>6. Captured'
  BY <1>1, <1>3 DEF Owned, Captured
<1>7. OwnSnapshot'
  BY <1>1, <1>2, <1>3, <1>4, <1>5 DEF Owned, OwnSnapshot
<1>8. StagingIsResumed'
  <2>1. SUFFICES ASSUME NEW n \in Manifests, manifest'[n].state = "staging"
        PROVE  LET s == manifest'[n].run
               IN run'[s].manifest = n /\ run'[s].discovery = "staging" /\ run'[s].state # "stopped"
    BY DEF StagingIsResumed
  <2>2. manifest'[n] = manifest[n] /\ ~(n = run[r].manifest /\ run[r].discovery = "staging")
    BY <1>2, <2>1
  <2>3. /\ manifest[n].run \in Runs /\ run[manifest[n].run].manifest = n
        /\ run[manifest[n].run].discovery = "staging" /\ run[manifest[n].run].state # "stopped"
    BY <2>1, <2>2 DEF Owned, OwnSnapshot, StagingIsResumed
  <2>4. manifest[n].run # r
    BY <2>2, <2>3
  <2> QED BY <1>3, <2>2, <2>3, <2>4
<1> QED BY <1>6, <1>7, <1>8 DEF Owned

LEMMA PausedRun ==
    ASSUME Typed, NEW r \in Runs, Expire(r) \/ Pause(r) \/ Resume(r), NEW q \in Runs
    PROVE  /\ run'[q].manifest = run[q].manifest /\ run'[q].discovery = run[q].discovery
           /\ run'[q].token = run[q].token
           /\ run'[q].state = run[q].state \/ run'[q].state \in {"running", "paused"}
<1>1. run \in [Runs -> RunRow] /\ run[r] \in RunRow
  BY DEF Typed
<1>2. CASE q = r
  BY <1>1, <1>2 DEF RunRow, Expire, Pause, Resume
<1>3. CASE q # r
  BY <1>1, <1>3 DEF Expire, Pause, Resume
<1> QED BY <1>2, <1>3

LEMMA OwnedStep ==
    ASSUME StagingAssumption, Typed, Owned, [Next]_vars
    PROVE  Owned'
<1>1. Typed'
  BY TypeStep
<1>2. CASE UNCHANGED <<run, manifest>>
  BY <1>1, <1>2, OwnedFields DEF Owned, Captured
<1>3. ASSUME NEW p \in Polls, PollStep(p) \/ Dies(p) PROVE Owned'
  <2>1. CASE Dies(p) \/ Capture(p)
    BY <1>2, <2>1 DEF Dies, Capture
  <2>2. CASE Stage(p)
    <3>1. PICK r \in Runs, m \in Manifests :
            \/ UNCHANGED <<run, manifest, target, app>>
            \/ \E chunk \in SUBSET Roles : StagesPart(r, m, chunk) \/ StagesLast(r, m, chunk)
      BY <2>2, StageIs
    <3>2. ASSUME NEW chunk \in SUBSET Roles, StagesPart(r, m, chunk) PROVE Owned'
      <4>1. \A n \in Manifests :
              manifest'[n].state = manifest[n].state /\ manifest'[n].run = manifest[n].run
        BY <3>2, PartSnapshots
      <4>2. UNCHANGED run
        BY <3>2 DEF StagesPart
      <4> QED BY <1>1, <4>1, <4>2, OwnedFields DEF Owned, Captured
    <3> QED BY <1>1, <1>2, <3>1, <3>2, LastOwned
  <2> QED BY <1>1, <1>3, <2>1, <2>2, SelectOwned, CommitOwned, CaptureFailsOwned DEF PollStep
<1>4. ASSUME NEW r \in Runs, Expire(r) \/ Pause(r) \/ Resume(r) PROVE Owned'
  <2>1. UNCHANGED manifest
    BY <1>4 DEF Expire, Pause, Resume
  <2>2. \A q \in Runs :
          /\ run'[q].manifest = run[q].manifest /\ run'[q].discovery = run[q].discovery
          /\ run'[q].token = run[q].token
          /\ run'[q].state = run[q].state \/ run'[q].state \in {"running", "paused"}
    BY <1>4, PausedRun
  <2> QED BY <1>1, <2>1, <2>2, OwnedFields DEF Owned, Captured
<1>5. ASSUME NEW x \in Roles,
             \/ \E state \in {"employer", "over"} : Advance(x, state)
             \/ \E r \in Runs : NextAttempt(r, x)
             \/ Report(x) \/ ReportUnresolved(x) \/ \E c \in Contents : Change(x, c)
      PROVE Owned'
  BY <1>2, <1>5 DEF Advance, NextAttempt, Report, ReportUnresolved, Change
<1> QED BY <1>1, <1>2, <1>3, <1>4, <1>5, StopOwned DEF Next, vars

-----------------------------------------------------------------------------
\* What targets say of snapshots

\* A snapshot is made once, and is staged with the reports it was made with.
LEMMA SnapshotStep ==
    ASSUME StagingAssumption, Typed, [Next]_vars, NEW n \in Manifests
    PROVE  /\ manifest'[n].state = "none" => manifest[n].state = "none"
           /\ manifest'[n].reported \subseteq manifest[n].reported \cup marks \cup loose
           /\ manifest'[n].state = "staging" =>
                 \/ manifest[n].state = "none"
                 \/ manifest[n].state = "staging" /\ manifest'[n].reported = manifest[n].reported
<1> DEFINE Goal == /\ manifest'[n].state = "none" => manifest[n].state = "none"
                   /\ manifest'[n].reported \subseteq manifest[n].reported \cup marks \cup loose
                   /\ manifest'[n].state = "staging" =>
                         \/ manifest[n].state = "none"
                         \/ manifest[n].state = "staging" /\ manifest'[n].reported = manifest[n].reported
<1>1. CASE UNCHANGED manifest
  BY <1>1
<1>2. ASSUME NEW p \in Polls, Commit(p) PROVE Goal
  <2> DEFINE k == Min({m \in Manifests : manifest[m].state = "none"})
  <2>1. \/ UNCHANGED manifest
        \/ /\ k \in Manifests /\ manifest[k].state = "none"
           /\ manifest' = [manifest EXCEPT ![k] = Fresh(p)]
    BY <1>2, CommitIs
  <2>2. CASE manifest'[n] = manifest[n]
    BY <2>2
  <2>3. CASE manifest'[n] # manifest[n]
    <3> HIDE DEF k
    <3>1. n = k /\ manifest[n].state = "none" /\ manifest'[n] = Fresh(p)
      BY <2>1, <2>3 DEF Typed
    <3>2. manifest'[n].state = "staging" /\ manifest'[n].reported = marks \cup loose
      BY <3>1 DEF Fresh
    <3> QED BY <3>1, <3>2
  <2> QED BY <2>2, <2>3
<1>3. ASSUME NEW p \in Polls, Stage(p) PROVE Goal
  <2>1. PICK r \in Runs, m \in Manifests :
          \/ UNCHANGED <<run, manifest, target, app>>
          \/ \E chunk \in SUBSET Roles : StagesPart(r, m, chunk) \/ StagesLast(r, m, chunk)
    BY <1>3, StageIs
  <2>2. ASSUME NEW chunk \in SUBSET Roles, StagesPart(r, m, chunk) PROVE Goal
    BY <2>2, PartSnapshots
  <2>3. ASSUME NEW chunk \in SUBSET Roles, StagesLast(r, m, chunk) PROVE Goal
    <3>1. manifest'[m].state = "ready"
      BY <2>3, LastSnapshots
    <3>2. n # m /\ manifest'[n] # manifest[n] =>
            manifest'[n].state = "pruned" /\ manifest'[n].reported = {}
      BY <2>3, LastPrunes
    <3>3. manifest'[m].reported = manifest[m].reported
      BY <2>3, LastSnapshots
    <3> QED BY <3>1, <3>2, <3>3
  <2> QED BY <1>1, <2>1, <2>2, <2>3
<1>4. ASSUME NEW r \in Runs, Stop(r) PROVE Goal
  <2>1. \/ manifest'[n] = manifest[n]
        \/ manifest'[n].state = "abandoned" /\ manifest'[n].reported = manifest[n].reported
    BY <1>4, StopIs
  <2> QED BY <2>1
<1>5. Goal
  BY <1>1, <1>2, <1>3, <1>4
  DEF Next, PollStep, vars, Select, Capture, CaptureFails, Dies, Expire, Pause, Resume, Advance,
      NextAttempt, Report, ReportUnresolved, Change
<1> QED BY <1>5

LEMMA ReportsGrow ==
    ASSUME [Next]_vars
    PROVE  marks \subseteq marks' /\ loose \subseteq loose'
<1>1. ASSUME NEW p \in Polls, Commit(p) \/ Stage(p) PROVE UNCHANGED <<marks, loose>>
  BY <1>1 DEF Commit, Stage
<1> QED BY <1>1
    DEF Next, PollStep, vars, Select, Capture, CaptureFails, Dies, Expire, Pause, Resume, Stop,
        Advance, NextAttempt, Report, ReportUnresolved, Change

\* A target keeps the snapshot it points at, unless it is staged from another
\* or a next attempt is made from a complete one.
LEMMA TargetStep ==
    ASSUME StagingAssumption, Typed, [Next]_vars, NEW r \in Runs, NEW x \in Roles
    PROVE  LET t == target[r][x]
               u == target'[r][x]
           IN \/ u.manifest = t.manifest /\ u.disposition \in {t.disposition, "manual_reported"}
              \/ /\ u.manifest \in Manifests
                 /\ manifest[u.manifest].state \in {"staging", "ready"}
                 /\ \/ manifest'[u.manifest].state # "staging"
                    \/ x \in loose => u.disposition # "eligible"
<1> DEFINE t == target[r][x]
           u == target'[r][x]
           Goal == \/ u.manifest = t.manifest /\ u.disposition \in {t.disposition, "manual_reported"}
                   \/ /\ u.manifest \in Manifests
                      /\ manifest[u.manifest].state \in {"staging", "ready"}
                      /\ \/ manifest'[u.manifest].state # "staging"
                         \/ x \in loose => u.disposition # "eligible"
<1>1. CASE u = t
  BY <1>1
<1>2. ASSUME NEW p \in Polls, Stage(p) PROVE Goal
  <2>1. PICK q \in Runs, m \in Manifests :
          \/ UNCHANGED <<run, manifest, target, app>>
          \/ \E chunk \in SUBSET Roles : StagesPart(q, m, chunk) \/ StagesLast(q, m, chunk)
    BY <1>2, StageIs
  <2>2. ASSUME NEW chunk \in SUBSET Roles, StagesPart(q, m, chunk), q = r PROVE Goal
    <3> DEFINE s == StagedBy(r, m, chunk)[x]
    <3>1. u = s /\ manifest[m].state = "staging"
      BY <2>2 DEF StagesPart, Typed
    <3>2. \/ s.manifest = t.manifest /\ s.disposition = t.disposition
          \/ s.manifest = m /\ (x \in loose => s.disposition # "eligible")
      BY StagedRow
    <3> HIDE DEF s
    <3> QED BY <3>1, <3>2
  <2>3. ASSUME NEW chunk \in SUBSET Roles, StagesLast(q, m, chunk), q = r PROVE Goal
    <3> DEFINE s == StagedBy(r, m, chunk)[x]
               c == CheckedBy(r, m, chunk)[x]
    <3>1. manifest[m].state = "staging" /\ manifest'[m].state = "ready"
      BY <2>3, LastSnapshots DEF StagesLast
    <3>2. \/ s.manifest = t.manifest /\ s.disposition = t.disposition
          \/ s.manifest = m
      BY StagedRow
    <3>3. c.manifest = s.manifest /\ c.disposition \in {s.disposition, "manual_reported"}
      BY CheckedRow
    <3>4. u.manifest = c.manifest /\ (u.manifest # m => u = c)
      BY <2>3, LastRows
    <3> HIDE DEF s, c
    <3> QED BY <3>1, <3>2, <3>3, <3>4
  <2>4. ASSUME NEW chunk \in SUBSET Roles, StagesPart(q, m, chunk) \/ StagesLast(q, m, chunk), q # r
        PROVE  u = t
    <3>1. CASE StagesPart(q, m, chunk)
      BY <2>4, <3>1 DEF StagesPart, Typed
    <3>2. CASE StagesLast(q, m, chunk)
      BY <2>4, <3>2, LastLeaves
    <3> QED BY <2>4, <3>1, <3>2
  <2> HIDE DEF Goal
  <2>5. u = t => Goal
    BY DEF Goal
  <2> QED BY <2>1, <2>2, <2>3, <2>4, <2>5
<1>3. ASSUME NEW q \in Runs, NEW y \in Roles, NextAttempt(q, y) PROVE Goal
  <2>1. CASE q # r \/ y # x
    <3>1. u = t
      BY <1>3, <2>1, NextElsewhere
    <3> QED BY <3>1
  <2>2. CASE q = r /\ y = x
    <3> DEFINE f == Refrozen(r, x)
    <3>1. Ready(f.manifest) /\ f.manifest \in Manifests /\ u.manifest = f.manifest
      BY <1>3, <2>2, NextIs DEF StagingAssumption
    <3>2. UNCHANGED manifest
      BY <1>3 DEF NextAttempt
    <3> HIDE DEF f
    <3> QED BY <3>1, <3>2 DEF Ready
  <2> QED BY <2>1, <2>2
<1>4. ASSUME NEW y \in Roles, Report(y) PROVE Goal
  <2>1. u = t \/ u = [t EXCEPT !.disposition = "manual_reported"]
    BY <1>4 DEF Report, Typed
  <2>2. t \in TargetRow
    BY DEF Typed
  <2> QED BY <2>1, <2>2 DEF TargetRow
<1>5. ASSUME NEW p \in Polls, Commit(p) PROVE UNCHANGED target
  BY <1>5 DEF Commit
<1> HIDE DEF Goal
<1>6. u = t => Goal
  BY <1>1 DEF Goal
<1>7. Goal
  BY <1>2, <1>3, <1>4, <1>5, <1>6
  DEF Next, PollStep, vars, Select, Capture, CaptureFails, Dies, Expire, Pause, Resume, Stop,
      Advance, ReportUnresolved, Change
<1> QED BY <1>7 DEF Goal

Pointing == Committed /\ ReportsStay /\ StagedAfresh

LEMMA PointingStep ==
    ASSUME StagingAssumption, Typed, Pointing, [Next]_vars
    PROVE  Pointing'
<1>1. \A n \in Manifests :
        /\ manifest'[n].state = "none" => manifest[n].state = "none"
        /\ manifest'[n].reported \subseteq manifest[n].reported \cup marks \cup loose
        /\ manifest'[n].state = "staging" =>
              \/ manifest[n].state = "none"
              \/ manifest[n].state = "staging" /\ manifest'[n].reported = manifest[n].reported
  BY SnapshotStep
<1>2. marks \subseteq marks' /\ loose \subseteq loose'
  BY ReportsGrow
<1>3. ReportsStay'
  BY <1>1, <1>2 DEF Pointing, ReportsStay
<1>4. ASSUME NEW r \in Runs, NEW x \in Roles
      PROVE  LET u == target'[r][x]
             IN u.manifest # 0 =>
                  /\ manifest'[u.manifest].state # "none"
                  /\ /\ manifest'[u.manifest].state = "staging"
                     /\ x \in manifest'[u.manifest].reported \ marks'
                     => u.disposition # "eligible"
  <2> DEFINE t == target[r][x]
             u == target'[r][x]
  <2>1. t \in TargetRow
    BY DEF Typed
  <2>2. CASE u.manifest = t.manifest /\ u.disposition \in {t.disposition, "manual_reported"}
    <3>1. t.manifest # 0 => t.manifest \in Manifests /\ manifest[t.manifest].state # "none"
      BY <2>1 DEF TargetRow, Pointing, Committed
    <3> QED BY <1>1, <1>2, <2>2, <3>1 DEF Pointing, StagedAfresh
  <2>3. CASE /\ u.manifest \in Manifests
             /\ manifest[u.manifest].state \in {"staging", "ready"}
             /\ \/ manifest'[u.manifest].state # "staging"
                \/ x \in loose => u.disposition # "eligible"
    <3>1. manifest[u.manifest].reported \subseteq marks \cup loose
      BY <2>3 DEF Pointing, ReportsStay
    <3> QED BY <1>1, <1>2, <2>3, <3>1
  <2> QED BY <2>2, <2>3, TargetStep
<1>5. Committed' /\ StagedAfresh'
  BY <1>4 DEF Committed, StagedAfresh
<1> QED BY <1>3, <1>5 DEF Pointing

-----------------------------------------------------------------------------
\* The snapshots attempts are made from

\* WorkerFindsItsTarget and EvidenceIsKept of one role.
Served(x) ==
    /\ app[x] # <<>> =>
         LET a == Newest(app, x)
             t == target[a.run][x]
         IN a.state \in {"live", "employer"} =>
               /\ Ready(a.manifest)
               /\ t.manifest = a.manifest /\ t.version = a.version /\ t.app = Len(app[x])
    /\ \A i \in DOMAIN app[x] : manifest[app[x][i].manifest].state # "pruned"

\* No step takes a snapshot from the attempts that are there after it.
LEMMA SnapshotKept ==
    ASSUME StagingAssumption, Typed, Owned, [Next]_vars, NEW x \in Roles,
           NEW i \in DOMAIN app'[x], NEW n \in Manifests, n = app'[x][i].manifest
    PROVE  /\ manifest[n].state = "ready" => manifest'[n].state = "ready"
           /\ manifest[n].state # "pruned" => manifest'[n].state # "pruned"
<1> DEFINE Goal == /\ manifest[n].state = "ready" => manifest'[n].state = "ready"
                   /\ manifest[n].state # "pruned" => manifest'[n].state # "pruned"
<1>1. manifest'[n].state = manifest[n].state => Goal
  OBVIOUS
<1>2. ASSUME NEW p \in Polls, Commit(p) PROVE Goal
  <2> DEFINE k == Min({m \in Manifests : manifest[m].state = "none"})
  <2>1. \/ UNCHANGED manifest
        \/ /\ k \in Manifests /\ manifest[k].state = "none"
           /\ manifest' = [manifest EXCEPT ![k] = Fresh(p)]
    BY <1>2, CommitIs
  <2> HIDE DEF k
  <2>2. manifest'[n] = manifest[n] \/ (manifest[n].state = "none" /\ manifest'[n] = Fresh(p))
    BY <2>1 DEF Typed
  <2> QED BY <2>2 DEF Fresh
<1>3. ASSUME NEW p \in Polls, Stage(p) PROVE Goal
  <2>1. PICK r \in Runs, m \in Manifests :
          \/ UNCHANGED <<run, manifest, target, app>>
          \/ \E chunk \in SUBSET Roles : StagesPart(r, m, chunk) \/ StagesLast(r, m, chunk)
    BY <1>3, StageIs
  <2>2. ASSUME NEW chunk \in SUBSET Roles, StagesPart(r, m, chunk) PROVE Goal
    BY <2>2, PartSnapshots
  <2>3. ASSUME NEW chunk \in SUBSET Roles, StagesLast(r, m, chunk) PROVE Goal
    <3>1. manifest'[m].state = "ready"
      BY <2>3, LastSnapshots
    <3>2. n # m => manifest'[n] = manifest[n]
      BY <2>3, LastPrunes
    <3> QED BY <3>1, <3>2
  <2> QED BY <2>1, <2>2, <2>3
<1>4. ASSUME NEW r \in Runs, Stop(r) PROVE Goal
  <2>1. \/ manifest'[n] = manifest[n]
        \/ manifest'[n].state = "abandoned" /\ n = run[r].manifest /\ run[r].discovery = "staging"
    BY <1>4, StopIs
  <2> QED BY <2>1 DEF Owned, OwnSnapshot
<1> HIDE DEF Goal
<1>5. Goal
  BY <1>1, <1>2, <1>3, <1>4
  DEF Next, PollStep, vars, Select, Capture, CaptureFails, Dies, Expire, Pause, Resume, Advance,
      NextAttempt, Report, ReportUnresolved, Change
<1> QED BY <1>5 DEF Goal

LEMMA EndsServed ==
    ASSUME StagingAssumption, Typed, Owned, [Next]_vars, NEW x \in Roles, Served(x), OnlyEnds(x),
           \A r \in Runs : /\ target'[r][x].manifest = target[r][x].manifest
                           /\ target'[r][x].version = target[r][x].version
                           /\ target'[r][x].app = target[r][x].app
    PROVE  Served(x)'
<1>1. /\ app[x] \in Seq(Attempt) /\ app'[x] \in Seq(Attempt)
      /\ Len(app'[x]) = Len(app[x]) /\ DOMAIN app[x] = 1..Len(app[x])
      /\ DOMAIN app'[x] = 1..Len(app[x])
  BY DEF Typed, OnlyEnds
<1>2. \A i \in DOMAIN app'[x] :
        /\ app'[x][i].manifest = app[x][i].manifest /\ app[x][i].manifest \in Manifests
        /\ app[x][i].run \in Runs
  <2> TAKE i \in DOMAIN app'[x]
  <2>1. app[x][i] \in Attempt /\ app'[x][i].manifest = app[x][i].manifest
    BY <1>1 DEF OnlyEnds
  <2> QED BY <2>1 DEF Attempt
<1>3. \A i \in DOMAIN app'[x] : manifest'[app'[x][i].manifest].state # "pruned"
  BY <1>1, <1>2, SnapshotKept DEF Served
<1>4. ASSUME app'[x] # <<>>, Newest(app', x).state \in {"live", "employer"}
      PROVE  LET a == Newest(app', x)
                 t == target'[a.run][x]
             IN /\ a.manifest # 0 /\ manifest'[a.manifest].state = "ready"
                /\ t.manifest = a.manifest /\ t.version = a.version /\ t.app = Len(app'[x])
  <2> DEFINE k == Len(app[x])
  <2>1. k \in 1..k /\ app[x] # <<>>
    BY <1>1, <1>4
  <2>2. /\ app'[x][k].run = app[x][k].run /\ app'[x][k].manifest = app[x][k].manifest
        /\ app'[x][k].version = app[x][k].version
        /\ app[x][k].state \in {"live", "employer"}
    BY <1>1, <1>4, <2>1 DEF OnlyEnds, Newest
  <2>3. LET a == app[x][k]
            t == target[a.run][x]
        IN /\ a.manifest # 0 /\ manifest[a.manifest].state = "ready"
           /\ t.manifest = a.manifest /\ t.version = a.version /\ t.app = k
    BY <2>1, <2>2 DEF Served, Newest, Ready
  <2>4. manifest'[app'[x][k].manifest].state = "ready"
    BY <1>1, <1>2, <2>1, <2>2, <2>3, SnapshotKept
  <2>5. app'[x][k].run \in Runs
    BY <1>1, <1>2, <2>1, <2>2
  <2> QED BY <1>1, <2>2, <2>3, <2>4, <2>5 DEF Newest
<1> QED BY <1>3, <1>4 DEF Served, Newest, Ready

LEMMA SameServed ==
    ASSUME StagingAssumption, Typed, Owned, [Next]_vars, NEW x \in Roles, Served(x),
           app'[x] = app[x], \A r \in Runs : target'[r][x] = target[r][x]
    PROVE  Served(x)'
<1>1. OnlyEnds(x)
  BY DEF OnlyEnds, Typed
<1> QED BY <1>1, EndsServed

LEMMA NextServed ==
    ASSUME StagingAssumption, Typed, Owned, [Next]_vars, NEW x \in Roles, Served(x),
           NEW r \in Runs, NextAttempt(r, x)
    PROVE  Served(x)'
<1> DEFINE n == Len(app[x]) + 1
           f == Refrozen(r, x)
<1>1. /\ Ready(f.manifest) /\ f.manifest \in Manifests
      /\ app'[x] \in Seq(Attempt) /\ Len(app'[x]) = n
      /\ app'[x][n] = NewAttempt(r, f.manifest, f.version)
      /\ \A i \in 1..Len(app[x]) : app'[x][i].manifest = app[x][i].manifest
      /\ target'[r][x].manifest = f.manifest /\ target'[r][x].version = f.version
      /\ target'[r][x].app = n
  BY NextIs DEF StagingAssumption
<1>2. UNCHANGED manifest
  BY DEF NextAttempt
<1> HIDE DEF f
<1>3. /\ app'[x][n].run = r /\ app'[x][n].manifest = f.manifest /\ app'[x][n].version = f.version
  BY <1>1 DEF NewAttempt
<1>4. app[x] \in Seq(Attempt)
  BY DEF Typed
<1>5. \A i \in DOMAIN app'[x] : manifest'[app'[x][i].manifest].state # "pruned"
  <2> TAKE i \in DOMAIN app'[x]
  <2>1. CASE i = n
    BY <1>1, <1>2, <1>3, <2>1 DEF Ready
  <2>2. CASE i # n
    <3>1. i \in 1..Len(app[x]) /\ i \in DOMAIN app[x]
      BY <1>1, <1>4, <2>2
    <3> QED BY <1>1, <1>2, <3>1 DEF Served
  <2> QED BY <2>1, <2>2
<1>6. Newest(app', x) = app'[x][n]
  BY <1>1 DEF Newest
<1> QED BY <1>1, <1>2, <1>3, <1>5, <1>6 DEF Served, Newest, Ready

\* While its newest attempt is worked, staging leaves a role's target alone.
LEMMA WorkedStays ==
    ASSUME Typed, NEW r \in Runs, NEW m \in Manifests, NEW chunk \in SUBSET Roles,
           NEW x \in Roles, Served(x), app[x] # <<>>, Newest(app, x).run = r,
           Newest(app, x).state \in {"live", "employer"}
    PROVE  StagedBy(r, m, chunk)[x] = target[r][x]
<1>1. app[x] \in Seq(Attempt) /\ Len(app[x]) # 0
  BY DEF Typed
<1>2. target[r][x].app = Len(app[x])
  BY DEF Served
<1>3. app[x][target[r][x].app].state # "stopped"
  BY <1>2 DEF Newest
<1> QED BY <1>1, <1>2, <1>3, StagedRow

LEMMA PartServed ==
    ASSUME StagingAssumption, Typed, Owned, [Next]_vars, NEW x \in Roles, Served(x),
           NEW r \in Runs, NEW m \in Manifests, NEW chunk \in SUBSET Roles,
           StagesPart(r, m, chunk)
    PROVE  Served(x)'
<1>1. UNCHANGED app /\ target' = [target EXCEPT ![r] = StagedBy(r, m, chunk)]
  BY DEF StagesPart
<1>2. /\ \A q \in Runs : q # r => target'[q] = target[q]
      /\ target'[r][x] = StagedBy(r, m, chunk)[x]
  BY <1>1 DEF Typed
<1>3. app[x] \in Seq(Attempt) /\ \A i \in DOMAIN app[x] : app[x][i] \in Attempt
  BY DEF Typed
<1>4. \A i \in DOMAIN app[x] :
        /\ app[x][i].manifest \in Manifests
        /\ manifest'[app[x][i].manifest].state = manifest[app[x][i].manifest].state
  BY <1>3, PartSnapshots DEF Attempt
<1>5. ASSUME app[x] # <<>>, Newest(app, x).state \in {"live", "employer"}
      PROVE  target'[Newest(app, x).run][x] = target[Newest(app, x).run][x]
  <2>1. Newest(app, x).run \in Runs
    BY <1>3, <1>5 DEF Newest, Attempt
  <2>2. CASE Newest(app, x).run = r
    BY <1>2, <1>5, <2>2, WorkedStays
  <2> QED BY <1>2, <2>1, <2>2
<1>6. app[x] # <<>> => Len(app[x]) \in DOMAIN app[x]
  BY <1>3
<1> QED BY <1>1, <1>4, <1>5, <1>6 DEF Served, Newest, Ready

LEMMA LastServed ==
    ASSUME StagingAssumption, Typed, Owned, [Next]_vars, NEW x \in Roles, Served(x),
           NEW r \in Runs, NEW m \in Manifests, NEW chunk \in SUBSET Roles,
           StagesLast(r, m, chunk)
    PROVE  Served(x)'
<1> DEFINE s == StagedBy(r, m, chunk)[x]
           c == CheckedBy(r, m, chunk)[x]
           stands == c.manifest = m /\ c.disposition = "eligible"
<1>1. c.manifest = s.manifest /\ c.version = s.version /\ c.app = s.app
  BY CheckedRow
<1>2. /\ app'[x] = IF stands /\ ~Blocked(x)
                   THEN Append(app[x], NewAttempt(r, m, c.version)) ELSE app[x]
      /\ target'[r][x].manifest = c.manifest /\ target'[r][x].version = c.version
      /\ stands => target'[r][x].app = Len(app'[x])
      /\ ~stands => target'[r][x] = c
  BY LastRows
<1>3. m # 0 /\ manifest'[m].state = "ready"
  BY LastSnapshots DEF Manifests
<1>4. app[x] \in Seq(Attempt) /\ \A i \in DOMAIN app[x] : app[x][i] \in Attempt
  BY DEF Typed
<1>5. \A i \in DOMAIN app'[x] : app'[x][i] \in Attempt
  <2>1. app'[x] \in Seq(Attempt)
    BY LastTypes
  <2> QED BY <2>1
<1>6. \A q \in Runs : q # r => target'[q][x] = target[q][x]
  BY LastLeaves
<1>7. CASE app'[x] = app[x]
  <2>1. ASSUME app[x] # <<>>, Newest(app, x).state \in {"live", "employer"}
        PROVE  LET q == Newest(app, x).run
               IN /\ target'[q][x].manifest = target[q][x].manifest
                  /\ target'[q][x].version = target[q][x].version
                  /\ target'[q][x].app = Len(app[x])
    <3>1. Newest(app, x).run \in Runs
      BY <1>4, <2>1 DEF Newest, Attempt
    <3>2. target[Newest(app, x).run][x].app = Len(app[x])
      BY <2>1 DEF Served
    <3>3. CASE Newest(app, x).run = r
      <4>1. s = target[r][x]
        BY <2>1, <3>3, WorkedStays
      <4> HIDE DEF s, c
      <4> QED BY <1>1, <1>2, <1>7, <3>2, <3>3, <4>1
    <3>4. CASE Newest(app, x).run # r
      BY <1>6, <3>1, <3>2, <3>4
    <3> QED BY <3>3, <3>4
  <2>2. \A i \in DOMAIN app[x] :
          /\ manifest[app[x][i].manifest].state = "ready" =>
                manifest'[app[x][i].manifest].state = "ready"
          /\ manifest'[app[x][i].manifest].state # "pruned"
    <3> TAKE i \in DOMAIN app[x]
    <3>1. app[x][i].manifest \in Manifests
      BY <1>4 DEF Attempt
    <3>2. manifest[app[x][i].manifest].state # "pruned"
      BY DEF Served
    <3> QED BY <1>7, <3>1, <3>2, SnapshotKept
  <2>3. app[x] # <<>> => Len(app[x]) \in DOMAIN app[x]
    BY <1>4
  <2> HIDE DEF s, c, stands
  <2> QED BY <1>7, <2>1, <2>2, <2>3 DEF Served, Newest, Ready
<1>8. CASE app'[x] # app[x]
  <2> DEFINE b == NewAttempt(r, m, c.version)
             k == Len(app[x]) + 1
  <2>1. stands /\ app'[x] = Append(app[x], b)
    BY <1>2, <1>8
  <2>2. b.run = r /\ b.manifest = m /\ b.version = c.version
    BY DEF NewAttempt
  <2> HIDE DEF b
  <2>3. Len(app'[x]) = k /\ app'[x][k] = b /\ DOMAIN app'[x] = 1..k
        /\ \A i \in 1..Len(app[x]) : app'[x][i] = app[x][i]
    <3> HIDE DEF c, stands
    <3>1. app'[x] = Append(app[x], b)
      BY <2>1
    <3>2. k \in DOMAIN app'[x] /\ app'[x][k] = b /\ Len(app'[x]) = k
      BY <1>4, <3>1
    <3> QED BY <1>4, <3>1, <3>2
  <2>4. \A i \in DOMAIN app'[x] : manifest'[app'[x][i].manifest].state # "pruned"
    <3> TAKE i \in DOMAIN app'[x]
    <3>1. CASE i = k
      BY <1>3, <2>2, <2>3, <3>1
    <3>2. CASE i # k
      <4>1. i \in 1..Len(app[x]) /\ i \in DOMAIN app[x]
        BY <1>4, <2>3, <3>2
      <4>2. app'[x][i].manifest \in Manifests
        BY <1>5 DEF Attempt
      <4>3. manifest[app'[x][i].manifest].state # "pruned"
        BY <2>3, <4>1 DEF Served
      <4> QED BY <4>2, <4>3, SnapshotKept
    <3> QED BY <3>1, <3>2
  <2>5. Newest(app', x) = b
    BY <2>3 DEF Newest
  <2>6. /\ target'[r][x].manifest = m /\ target'[r][x].version = c.version
        /\ target'[r][x].app = k
    BY <1>2, <2>1, <2>3
  <2> HIDE DEF c, stands, k
  <2> QED BY <1>3, <2>2, <2>3, <2>4, <2>5, <2>6 DEF Served, Newest, Ready
<1> QED BY <1>7, <1>8

LEMMA ServedStep ==
    ASSUME StagingAssumption, Typed, Owned, [Next]_vars, NEW x \in Roles, Served(x)
    PROVE  Served(x)'
<1>1. CASE UNCHANGED <<app, target>>
  BY <1>1, SameServed
<1>2. ASSUME NEW p \in Polls, PollStep(p) \/ Dies(p) PROVE Served(x)'
  <2>1. CASE Stage(p)
    <3>1. PICK r \in Runs, m \in Manifests :
            \/ UNCHANGED <<run, manifest, target, app>>
            \/ \E chunk \in SUBSET Roles : StagesPart(r, m, chunk) \/ StagesLast(r, m, chunk)
      BY <2>1, StageIs
    <3> QED BY <1>1, <3>1, PartServed, LastServed
  <2>2. CASE ~Stage(p)
    <3>1. Commit(p) => UNCHANGED <<app, target>>
      BY DEF Commit
    <3> QED BY <1>1, <1>2, <2>2, <3>1 DEF PollStep, Select, Capture, CaptureFails, Dies
  <2> QED BY <2>1, <2>2
<1>3. ASSUME NEW r \in Runs, Expire(r) \/ Pause(r) \/ Resume(r) \/ Stop(r) PROVE Served(x)'
  <2>1. CASE Stop(r)
    <3>1. UNCHANGED target
      BY <2>1 DEF Stop
    <3> QED BY <2>1, <3>1, StopEnds, EndsServed
  <2> QED BY <1>1, <1>3, <2>1 DEF Expire, Pause, Resume
<1>4. ASSUME NEW y \in Roles, NEW state \in {"employer", "over"}, Advance(y, state)
      PROVE Served(x)'
  <2>1. UNCHANGED target
    BY <1>4 DEF Advance
  <2> QED BY <1>4, <2>1, AdvanceEnds, EndsServed
<1>5. ASSUME NEW y \in Roles, NEW r \in Runs, NextAttempt(r, y) PROVE Served(x)'
  <2>1. CASE x = y
    BY <1>5, <2>1, NextServed
  <2>2. CASE x # y
    BY <1>5, <2>2, NextElsewhere, SameServed
  <2> QED BY <2>1, <2>2
<1>6. ASSUME NEW y \in Roles, Report(y) PROVE Served(x)'
  <2>1. \A r \in Runs : /\ target'[r][x].manifest = target[r][x].manifest
                        /\ target'[r][x].version = target[r][x].version
                        /\ target'[r][x].app = target[r][x].app
    <3> TAKE r \in Runs
    <3>1. target'[r][x] \in {target[r][x], [target[r][x] EXCEPT !.disposition = "manual_reported"]}
      BY <1>6 DEF Report, Typed
    <3>2. target[r][x] \in TargetRow
      BY DEF Typed
    <3> QED BY <3>1, <3>2 DEF TargetRow
  <2> QED BY <1>6, <2>1, ReportEnds, EndsServed
<1>7. ASSUME NEW y \in Roles, ReportUnresolved(y) \/ \E c \in Contents : Change(y, c)
      PROVE Served(x)'
  BY <1>1, <1>7 DEF ReportUnresolved, Change
<1> QED BY <1>1, <1>2, <1>3, <1>4, <1>5, <1>6, <1>7 DEF Next, vars

-----------------------------------------------------------------------------
\* The invariant

Inv == Typed /\ Owned /\ Pointing /\ \A x \in Roles : Served(x)

LEMMA InvInit ==
    ASSUME StagingAssumption, Init
    PROVE  Inv
<1>1. Absent \in TargetRow /\ Absent.manifest = 0
  BY DEF Absent, TargetRow, Contents
<1>2. NoManifest \in Snapshot /\ NoManifest.state = "none" /\ NoManifest.reported = {}
  BY DEF NoManifest, Snapshot, Contents
<1>3. \A r \in Runs : run[r] \in RunRow /\ run[r].token = NoPoll /\ run[r].manifest = 0
                      /\ run[r].discovery = "idle"
  BY DEF Init, RunRow
<1>4. Typed
  <2>1. \A p \in Polls : InHand(p)
    BY Hands DEF Init, InHand
  <2>2. run \in [Runs -> RunRow]
    BY <1>3 DEF Init
  <2>3. app \in [Roles -> Seq(Attempt)] /\ \A x \in Roles : Len(app[x]) <= MaxAttempts
    <3>1. <<>> \in Seq(Attempt) /\ Len(<<>>) = 0
      OBVIOUS
    <3> QED BY <3>1 DEF Init, StagingAssumption
  <2>4. corpus \in [Roles -> Contents]
    BY DEF Init, StagingAssumption, Contents
  <2>5. manifest \in [Manifests -> Snapshot] /\ target \in [Runs -> [Roles -> TargetRow]]
    BY <1>1, <1>2 DEF Init
  <2> QED BY <2>1, <2>2, <2>3, <2>4, <2>5 DEF Init, Typed
<1>5. \A m \in Manifests : manifest[m].state = "none" /\ manifest[m].reported = {}
  BY <1>2 DEF Init
<1>6. Owned
  BY <1>3, <1>5 DEF Owned, Captured, OwnSnapshot, StagingIsResumed
<1>7. \A r \in Runs, x \in Roles : target[r][x].manifest = 0
  BY <1>1 DEF Init
<1>8. Pointing
  BY <1>5, <1>7 DEF Pointing, Committed, ReportsStay, StagedAfresh
<1>9. \A x \in Roles : Served(x)
  BY DEF Init, Served
<1> QED BY <1>4, <1>6, <1>8, <1>9 DEF Inv

LEMMA InvStep ==
    ASSUME StagingAssumption, Inv, [Next]_vars
    PROVE  Inv'
BY TypeStep, OwnedStep, PointingStep, ServedStep DEF Inv

LEMMA InvAlways ==
    ASSUME StagingAssumption
    PROVE  Spec => []Inv
<1>1. Init => Inv
  BY InvInit
<1>2. Inv /\ [Next]_vars => Inv'
  BY InvStep
<1> QED BY <1>1, <1>2, PTL DEF Spec

LEMMA InvMeans ==
    ASSUME Inv
    PROVE  TypeOK /\ SnapshotsServe
<1>1. TypeOK
  BY DEF Inv, Typed, TypeOK, RunRow, Snapshot
<1>2. SnapshotsServe
  BY DEF Inv, Owned, Served, SnapshotsServe, WorkerFindsItsTarget, EvidenceIsKept
<1> QED BY <1>1, <1>2

\* What makes a run's discovery ready is the last chunk of its snapshot.
LEMMA ReadyByLast ==
    ASSUME StagingAssumption, Inv, [Next]_vars, NEW r \in Runs,
           run'[r].discovery = "ready", run[r].discovery = "staging"
    PROVE  /\ UNCHANGED marks
           /\ \E m \in Manifests, chunk \in SUBSET Roles :
                 run[r].manifest = m /\ StagesLast(r, m, chunk)
<1>1. run'[r] # run[r] /\ run[r] \in RunRow /\ Typed /\ Owned
  BY DEF Inv, Typed
<1>2. PICK p \in Polls : Stage(p)
  <2>1. ASSUME NEW p \in Polls, Commit(p) PROVE FALSE
    <3> DEFINE q == poll[p].run
    <3>1. q \in Runs /\ run[q].token = p
      BY <1>1, <2>1, CommitIs
    <3>2. \A k \in Runs : k # q => run'[k] = run[k]
      BY <1>1, <2>1 DEF Commit, Scanned, Typed
    <3>3. run[q].discovery = "capturing"
      BY <1>1, <3>1 DEF Owned, Captured, StagingAssumption
    <3> QED BY <1>1, <3>2, <3>3
  <2>2. ASSUME NEW p \in Polls, NEW q \in Runs, Select(p, q) PROVE FALSE
    BY <1>1, <2>2 DEF Select, Typed, RunRow
  <2>3. ASSUME NEW p \in Polls, CaptureFails(p) PROVE FALSE
    BY <1>1, <2>3 DEF CaptureFails, Typed, RunRow
  <2>4. ASSUME NEW q \in Runs, Expire(q) \/ Pause(q) \/ Resume(q) PROVE FALSE
    BY <1>1, <2>4, PausedRun
  <2>5. ASSUME NEW q \in Runs, Stop(q) PROVE FALSE
    BY <1>1, <2>5 DEF Stop, AfterStop, Typed, RunRow
  <2> QED BY <1>1, <2>1, <2>2, <2>3, <2>4, <2>5
      DEF Next, PollStep, vars, Capture, Dies, Advance, NextAttempt, Report, ReportUnresolved,
          Change
<1>3. PICK q \in Runs, m \in Manifests :
        /\ UNCHANGED marks
        /\ \/ UNCHANGED <<run, manifest, target, app>>
           \/ \E chunk \in SUBSET Roles : StagesPart(q, m, chunk) \/ StagesLast(q, m, chunk)
  BY <1>1, <1>2, StageIs
<1>4. PICK chunk \in SUBSET Roles : StagesLast(q, m, chunk)
  BY <1>1, <1>3 DEF StagesPart
<1>5. run' = [run EXCEPT ![q] = [@ EXCEPT !.discovery = "ready", !.held = TRUE]]
  BY <1>1, <1>4, LastLeaves
<1>6. q = r
  BY <1>1, <1>5 DEF Typed
<1> QED BY <1>3, <1>4, <1>6 DEF StagesLast

LEMMA QueuedStep ==
    ASSUME StagingAssumption, Inv, [Next]_vars
    PROVE  QueuesNoReported
<1> SUFFICES ASSUME NEW r \in Runs, NEW x \in Roles,
                    run'[r].discovery = "ready", run[r].discovery = "staging",
                    Len(app'[x]) > Len(app[x])
             PROVE  x \notin marks' \cup manifest[run[r].manifest].reported
  BY DEF QueuesNoReported
<1>1. Typed /\ Pointing
  BY DEF Inv
<1>2. PICK m \in Manifests, chunk \in SUBSET Roles :
        run[r].manifest = m /\ StagesLast(r, m, chunk) /\ UNCHANGED marks
  BY ReadyByLast
<1> DEFINE t == target[r][x]
           s == StagedBy(r, m, chunk)[x]
           c == CheckedBy(r, m, chunk)[x]
<1>3. c.manifest = m /\ c.disposition = "eligible"
  <2>1. app'[x] # app[x]
    BY <1>1 DEF Typed
  <2> QED BY <1>1, <1>2, <2>1, LastRows
<1>4. s.manifest = m /\ s.disposition = "eligible" /\ x \notin marks
  BY <1>1, <1>3, CheckedRow
<1>5. \/ s.manifest = t.manifest /\ s.disposition = t.disposition
      \/ x \notin loose
  BY <1>1, <1>4, StagedRow
<1>6. m # 0 /\ manifest[m].state = "staging" /\ manifest[m].reported \subseteq marks \cup loose
  BY <1>1, <1>2 DEF StagesLast, Manifests, Pointing, ReportsStay
<1> HIDE DEF s, c
<1>7. x \notin manifest[m].reported
  <2>1. CASE x \notin loose
    BY <1>4, <1>6, <2>1
  <2>2. CASE t.manifest = m /\ t.disposition = "eligible"
    BY <1>1, <1>4, <1>6, <2>2 DEF Pointing, StagedAfresh
  <2> QED BY <1>4, <1>5, <2>1, <2>2
<1> QED BY <1>2, <1>4, <1>7

-----------------------------------------------------------------------------
(* Every variable keeps its type, and no role has more attempts than the
   bound, whatever polls, commands and failures come in whatever order
   (stageDiscoveryManifest, discovery.ts). *)
THEOREM TypeCorrect ==
    ASSUME StagingAssumption
    PROVE  Spec => []TypeOK
<1>1. Inv => TypeOK
  BY InvMeans
<1> QED BY <1>1, InvAlways, PTL

(* A live attempt finds its complete snapshot and the target that names it, no
   attempt's evidence is pruned, and a snapshot that is staged is that of a run
   that goes on staging it (prunableDiscoveryManifests, discovery.ts;
   application-context.ts). *)
THEOREM SnapshotsAlwaysServe ==
    ASSUME StagingAssumption
    PROVE  Spec => []SnapshotsServe
<1>1. Inv => SnapshotsServe
  BY InvMeans
<1> QED BY <1>1, InvAlways, PTL

(* No role is queued that was reported as applied: by its identity at any
   time, or by its posting before the snapshot was committed
   (stageDiscoveryManifest, discovery.ts). *)
THEOREM NothingReportedIsQueued ==
    ASSUME StagingAssumption
    PROVE  Spec => [][QueuesNoReported]_vars
<1>1. Inv /\ [Next]_vars => [QueuesNoReported]_vars
  BY QueuedStep
<1> QED BY <1>1, InvAlways, PTL DEF Spec
=============================================================================
