----------------------- MODULE WorkerSession_proofs -----------------------
(***************************************************************************)
(* Proofs about WorkerSession, for every lease and wait the assumptions    *)
(* allow and any number of faults and commands.                            *)
(***************************************************************************)
EXTENDS WorkerSession, TLAPS

-----------------------------------------------------------------------------
(* The invariant, by what its parts are about.                             *)

\* The phase of the loop says what is under way: the request it waits for, the
\* stage, the lease it holds, the report it has on disk.
CallOf(phase) ==
    CASE phase \in {"recover", "acknowledge"} -> {"event", "questions"}
      [] phase = "poll" -> {"poll"}
      [] phase = "reconcile" -> {"none", "receipt"}
      [] phase = "stage" -> {"none", "heartbeat"}
      [] phase = "report" -> {"none", "doubt"}
      [] OTHER -> {"none"}

Sequenced ==
    /\ net["call"].kind \in CallOf(proc.phase)
    /\ net["ask"].kind = (CASE stage.at = "begin" -> "begin"
                            [] stage.at = "sending" -> "receipt"
                            [] OTHER -> "none")
    /\ "ask" \in standing => stage.at = "begin"
    /\ net["call"].kind = "doubt" => stage.result = "unknown"
    /\ proc.phase \in {"down", "recover", "idle", "poll", "reconcile"} => stage = NoStage
    /\ proc.phase = "stage" => stage.at # "none"
    /\ proc.phase \in {"report", "journaled", "acknowledge"} => stage.at = "ended"
    /\ proc.phase \in {"down", "recover", "idle", "poll"} => held = NoLease
    /\ proc.phase = "closing" => (held.active => held.revoked)
    /\ proc.aborted <=> proc.phase = "closing"
    /\ form.open => stage.at = "pressed"
    /\ stage.at \in {"armed", "pressed"} => stage.submitting
    /\ proc.phase \in {"report", "journaled", "acknowledge"} /\ stage.result = "contained" =>
          disk.streak < ContainedLimit
    /\ proc.phase = "journaled" => disk.pending # NoReport

\* Whoever has the row's fence has its lease.  What is left of it counts from the
\* request that granted or renewed it.
Leased ==
    /\ standing # {} => row.leased
    /\ "held" \in standing => row.left >= held.left
    /\ net["call"].kind = "heartbeat" /\ net["call"].reply = "ok" /\ "held" \in standing =>
          row.left + net["call"].age >= Lease
    /\ net["call"].kind = "poll" /\ net["call"].reply = "leased" /\ "call" \in standing =>
          /\ standing = {"call"}
          /\ row.state = net["call"].state /\ row.state \in Working \union Ambiguous
          /\ row.rev = 0
          /\ row.left + net["call"].age >= Lease

\* Before its intent a stage works on a row that waits for one, and nobody else
\* has the fence to begin it.
Unbegun ==
    (stage.at = "fill" \/ (stage.at = "ended" /\ stage.result \in Reports)) /\ "held" \in standing =>
        /\ row.state \in Working /\ row.rev = 0
        /\ ~("late" \in standing /\ net["late"].kind = "begin")

\* A row that has been submitted never waits for it again, and a stage that may
\* still press is the first.
Begun == row.state \notin Working \union {"hold"}
Answers == stage.at = "begin" /\ net["ask"].reply = "ok"
FirstSender ==
    /\ form.senders <= 1
    /\ form.senders = 1 => Begun
    /\ stage.at = "armed" \/ Answers => form.senders = 0 /\ Begun
    /\ stage.at \in {"fill", "begin"} /\ ("held" \in standing \/ "ask" \in standing) =>
          form.senders = 0

\* The window at the form closes before the server's does.
Windows ==
    /\ stage.at = "begin" /\ "ask" \in standing /\ row.state = "submitting" =>
          row.age <= net["ask"].age
    /\ Answers => row.state # "refuted"
    /\ Answers /\ row.state \in Ambiguous => row.age <= net["ask"].age
    /\ stage.at \in {"armed", "pressed"} /\ row.state \in Ambiguous =>
          row.age + stage.wait <= WindowTicks
    /\ stage.at \in {"armed", "pressed"} /\ row.state = "refuted" => stage.wait = 0
    /\ stage.at \in {"armed", "pressed"} /\ proc.phase = "closing" =>
          stage.wait <= proc.linger + PromptWait

\* A report on disk was made under a lease that began no submission, and its
\* answer says what became of it.
Reported ==
    /\ proc.phase \in {"idle", "poll", "reconcile", "stage", "report"} => disk.pending = NoReport
    /\ "pending" \in standing =>
          /\ disk.pending # NoReport
          /\ row.state \in Working /\ row.rev = 0
          /\ net["ask"].kind # "begin"
          /\ ~("late" \in standing /\ net["late"].kind = "begin")
    /\ proc.phase \in {"recover", "acknowledge"} =>
          /\ "pending" \in standing => "call" \in standing /\ net["call"].rev = 0
          /\ net["call"].reply = "ok" => seen
          /\ net["call"].reply \in {"lost", "refused"} => seen \/ "pending" \notin standing

Inv == TypeOK /\ Sequenced /\ Leased /\ Unbegun /\ FirstSender /\ Windows /\ Reported

-----------------------------------------------------------------------------
(* What the records of the model become.                                   *)

\* The numbers a session counts with.
LEMMA Numbers ==
    /\ Lease \in Nat /\ Lease > 1
    /\ SubmitWait \in Nat /\ SubmitWait > 0
    /\ ContainedLimit \in Nat /\ ContainedLimit > 0
    /\ MaxFaults \in Nat /\ MaxCommands \in Nat
    /\ PromptWait \in Nat /\ PromptWait = Lease - 1
    /\ WindowTicks \in Nat /\ WindowTicks = SubmitWait + Lease
BY SessionAssumption DEF SessionAssumption, PromptWait, WindowTicks

\* A row stays a row when one of its fields is written.
LEMMA RowField ==
    ASSUME NEW r \in Rows
    PROVE  /\ \A v \in RowStates : [r EXCEPT !.state = v] \in Rows
           /\ \A v \in BOOLEAN : [r EXCEPT !.leased = v] \in Rows
           /\ \A v \in 0..Lease : [r EXCEPT !.left = v] \in Rows /\ [r EXCEPT !.wait = v] \in Rows
           /\ \A v \in 0..1 : [r EXCEPT !.rev = v] \in Rows
           /\ \A v \in 0..WindowTicks : [r EXCEPT !.age = v] \in Rows
BY DEF Rows

LEMMA RowHas ==
    ASSUME NEW r \in Rows
    PROVE  /\ r.state \in RowStates /\ r.leased \in BOOLEAN /\ r.left \in 0..Lease
           /\ r.rev \in 0..1 /\ r.age \in 0..WindowTicks /\ r.wait \in 0..Lease
BY DEF Rows

\* A lease that is over or granted anew counts its revision from 0.
LEMMA RowLeased ==
    ASSUME NEW r \in Rows, NEW leased \in BOOLEAN, NEW left \in 0..Lease,
           NEW state \in RowStates
    PROVE  [r EXCEPT !.leased = leased, !.left = left, !.rev = 0, !.state = state] \in Rows
<1> DEFINE r1 == [r EXCEPT !.leased = leased]
           r2 == [r1 EXCEPT !.left = left]
           r3 == [r2 EXCEPT !.rev = 0]
           r4 == [r3 EXCEPT !.state = state]
<1>0. 0 \in 0..1
  OBVIOUS
<1>1. r1 \in Rows
  BY RowField
<1> HIDE DEF r1
<1>2. r2 \in Rows
  BY <1>1, RowField
<1> HIDE DEF r2
<1>3. r3 \in Rows
  BY <1>0, <1>2, RowField
<1> HIDE DEF r3
<1>4. r4 \in Rows
  BY <1>3, RowField
<1> QED
  BY <1>4 DEF r1, r2, r3, r4

\* An intent, a receipt and a decision write the state and the age.
LEMMA RowAged ==
    ASSUME NEW r \in Rows, NEW state \in RowStates
    PROVE  /\ [r EXCEPT !.state = state, !.age = 0] \in Rows
           /\ [r EXCEPT !.state = state, !.rev = 1, !.age = 0] \in Rows
<1> DEFINE r1 == [r EXCEPT !.state = state]
           r2 == [r1 EXCEPT !.rev = 1]
<1>0. 1 \in 0..1 /\ 0 \in 0..WindowTicks
  BY Numbers
<1>1. r1 \in Rows
  BY RowField
<1> HIDE DEF r1
<1>2. r2 \in Rows /\ [r1 EXCEPT !.age = 0] \in Rows
  BY <1>0, <1>1, RowField
<1> HIDE DEF r2
<1>3. [r2 EXCEPT !.age = 0] \in Rows
  BY <1>0, <1>2, RowField
<1> QED
  BY <1>2, <1>3 DEF r1, r2

Ended(state) == IF state = "submitting" THEN "submission_unknown" ELSE state

LEMMA ReleasedRow ==
    ASSUME NEW r \in Rows
    PROVE  /\ Released(r) \in Rows
           /\ ~Released(r).leased /\ Released(r).left = 0 /\ Released(r).rev = 0
           /\ Released(r).age = r.age /\ Released(r).state = Ended(r.state)
<1>1. Ended(r.state) \in RowStates
  BY RowHas DEF Ended, RowStates, Ambiguous
<1>2. 0 \in 0..Lease
  BY Numbers
<1>3. Released(r) \in Rows
  BY <1>1, <1>2, RowLeased DEF Released, Ended
<1>4. /\ ~Released(r).leased /\ Released(r).left = 0 /\ Released(r).rev = 0
      /\ Released(r).age = r.age /\ Released(r).state = Ended(r.state)
  BY DEF Rows, Released, Ended
<1> QED
  BY <1>3, <1>4

LEMMA GrantedRow ==
    ASSUME NEW r \in Rows
    PROVE  /\ Granted(r) \in Rows
           /\ Granted(r).leased /\ Granted(r).left = Lease /\ Granted(r).rev = 0
           /\ Granted(r).age = r.age /\ Granted(r).state = Ended(r.state)
<1>1. Ended(r.state) \in RowStates
  BY RowHas DEF Ended, RowStates, Ambiguous
<1>2. Lease \in 0..Lease
  BY Numbers
<1>3. Granted(r) \in Rows
  BY <1>1, <1>2, RowLeased DEF Granted, Ended
<1>4. /\ Granted(r).leased /\ Granted(r).left = Lease /\ Granted(r).rev = 0
      /\ Granted(r).age = r.age /\ Granted(r).state = Ended(r.state)
  BY DEF Rows, Granted, Ended
<1> QED
  BY <1>3, <1>4

\* What a poll finds: the row as it is, or released.
LEMMA SweptRow ==
    ASSUME row \in Rows
    PROVE  /\ Swept \in Rows
           /\ Swept.age = row.age
           /\ Swept.state \in {row.state, Ended(row.state)}
           /\ Swept # row => row.leased /\ ~Swept.leased
<1> DEFINE r == Released(row)
<1>1. r \in Rows /\ ~r.leased /\ r.age = row.age /\ r.state = Ended(row.state)
  BY ReleasedRow
<1>2. Deferred(row) = [r EXCEPT !.wait = Lease]
  BY DEF Deferred
<1> HIDE DEF r
<1>3. Lease \in 0..Lease
  BY Numbers
<1>4. Deferred(row) \in Rows
  BY <1>1, <1>2, <1>3, RowField
<1>5. ~Deferred(row).leased /\ Deferred(row).age = row.age /\ Deferred(row).state = Ended(row.state)
  BY <1>1, <1>2 DEF Rows
<1>6. Swept \in {row, Deferred(row), r} /\ (Swept # row => row.leased)
  BY DEF Swept, r
<1> QED
  BY <1>1, <1>4, <1>5, <1>6

\* A request, and one written over.
LEMMA RequestField ==
    ASSUME NEW q \in Requests
    PROVE  /\ \A v \in Kinds \union {"none"} : [q EXCEPT !.kind = v] \in Requests
           /\ \A v \in 0..1 : [q EXCEPT !.rev = v] \in Requests /\ [q EXCEPT !.age = v] \in Requests
           /\ \A v \in {"none", "work", "hold"} : [q EXCEPT !.to = v] \in Requests
           /\ \A v \in Replies : [q EXCEPT !.reply = v] \in Requests
           /\ \A v \in RowStates \union {"none"} : [q EXCEPT !.state = v] \in Requests
BY DEF Requests

LEMMA QuietIsRequest == Quiet \in Requests
BY DEF Quiet, Requests, Replies

LEMMA RequestType ==
    ASSUME NEW kind \in Kinds \union {"none"}, NEW rev \in 0..1, NEW to \in {"none", "work", "hold"}
    PROVE  Request(kind, rev, to) \in Requests
<1> DEFINE q1 == [Quiet EXCEPT !.kind = kind]
           q2 == [q1 EXCEPT !.rev = rev]
           q3 == [q2 EXCEPT !.to = to]
<1>1. q1 \in Requests
  BY QuietIsRequest, RequestField
<1> HIDE DEF q1
<1>2. q2 \in Requests
  BY <1>1, RequestField
<1> HIDE DEF q2
<1>3. q3 \in Requests
  BY <1>2, RequestField
<1> QED
  BY <1>3 DEF Request, q1, q2, q3

\* An answer is written on the channel it goes to and leaves the others.
LEMMA AnswerFields ==
    ASSUME net \in [Channels -> Requests], NEW c \in Channels,
           NEW reply, NEW state, NEW rev, Answer(c, reply, state, rev)
    PROVE  /\ \A d \in Channels : d # c => net'[d] = net[d]
           /\ c = "late" => net'["late"] = Quiet
           /\ c # "late" => /\ net'[c].kind = net[c].kind /\ net'[c].age = net[c].age
                            /\ net'[c].reply = reply /\ net'[c].state = state
                            /\ net'[c].rev = rev
<1>1. ASSUME NEW d \in Channels, d # c PROVE net'[d] = net[d]
  BY <1>1 DEF Answer
<1>2. CASE c = "late"
  BY <1>1, <1>2 DEF Answer
<1>3. CASE c # "late"
  <2>1. net'[c] = [net[c] EXCEPT !.reply = reply, !.state = state, !.rev = rev]
    BY <1>3 DEF Answer
  <2>2. net[c] \in Requests
    OBVIOUS
  <2> QED
    BY <1>1, <1>3, <2>1, <2>2 DEF Requests
<1> QED
  BY <1>2, <1>3

LEMMA AnswerType ==
    ASSUME net \in [Channels -> Requests], NEW c \in Channels, NEW reply \in Replies,
           NEW state \in RowStates \union {"none"}, NEW rev \in 0..1,
           Answer(c, reply, state, rev)
    PROVE  net' \in [Channels -> Requests]
<1> DEFINE q1 == [net[c] EXCEPT !.reply = reply]
           q2 == [q1 EXCEPT !.state = state]
           q3 == [q2 EXCEPT !.rev = rev]
<1>1. q1 \in Requests
  BY RequestField
<1> HIDE DEF q1
<1>2. q2 \in Requests
  BY <1>1, RequestField
<1> HIDE DEF q2
<1>3. q3 \in Requests
  BY <1>2, RequestField
<1>4. net' = [net EXCEPT ![c] = IF c = "late" THEN Quiet ELSE q3]
  BY DEF Answer, q1, q2, q3
<1> HIDE DEF q3
<1> QED
  BY <1>3, <1>4, QuietIsRequest

\* The guard: given up, taken up with an answer's deadline, renewed, advanced.
LEMMA GuardType ==
    ASSUME held \in Guards, NEW q \in Requests
    PROVE  /\ NoLease \in Guards
           /\ [held EXCEPT !.revoked = held.active] \in Guards
           /\ [active |-> TRUE, state |-> q.state, rev |-> 0, left |-> Deadline(q),
               revoked |-> FALSE] \in Guards
           /\ [held EXCEPT !.left = Deadline(q)] \in Guards
           /\ [held EXCEPT !.left = Down(@)] \in Guards
           /\ [held EXCEPT !.rev = q.rev, !.state = "submitting"] \in Guards
<1>1. Deadline(q) \in 0..Lease /\ q.rev \in 0..1 /\ q.state \in RowStates \union {"none"}
  BY Numbers DEF Requests, Deadline
<1>2. NoLease \in Guards /\ [held EXCEPT !.revoked = held.active] \in Guards
  BY Numbers DEF Guards, NoLease
<1>3. [held EXCEPT !.left = Deadline(q)] \in Guards
  BY <1>1 DEF Guards
<1>4. held.left \in 0..Lease
  BY DEF Guards
<1>5. Down(held.left) \in 0..Lease
  BY <1>4, Numbers DEF Down
<1>6. [held EXCEPT !.left = Down(@)] \in Guards
  BY <1>5 DEF Guards
<1>7. [active |-> TRUE, state |-> q.state, rev |-> 0, left |-> Deadline(q),
       revoked |-> FALSE] \in Guards
  BY <1>1 DEF Guards
<1> DEFINE h == [held EXCEPT !.rev = q.rev]
<1>8. h \in Guards
  BY <1>1 DEF Guards
<1>9. "submitting" \in RowStates
  BY DEF RowStates, Ambiguous
<1> HIDE DEF h
<1>10. [h EXCEPT !.state = "submitting"] \in Guards
  BY <1>8, <1>9 DEF Guards
<1> QED
  BY <1>2, <1>3, <1>6, <1>7, <1>10 DEF h

\* The stage: a new one, its steps, its end.
Ending == Reports \union {"submitted", "unknown", "thrown"}

LEMMA StageField ==
    ASSUME NEW s \in Stages
    PROVE  /\ \A v \in {"fill", "begin", "armed", "pressed", "confirmed", "sending", "ended"} :
                 [s EXCEPT !.at = v] \in Stages
           /\ [s EXCEPT !.submitting = TRUE] \in Stages
           /\ \A v \in 0..(SubmitWait + PromptWait) : [s EXCEPT !.wait = v] \in Stages
           /\ \A v \in Ending : [s EXCEPT !.result = v] \in Stages
BY DEF Stages, Ending, Reports

LEMMA StageType ==
    ASSUME stage \in Stages
    PROVE  /\ NoStage \in Stages
           /\ [NoStage EXCEPT !.at = "fill"] \in Stages
           /\ [stage EXCEPT !.at = "armed", !.submitting = TRUE, !.wait = SubmitWait + PromptWait]
                 \in Stages
           /\ [stage EXCEPT !.at = "confirmed", !.wait = 0] \in Stages
           /\ \A result \in Ending :
                 [stage EXCEPT !.at = "ended", !.wait = 0, !.result = result] \in Stages
           /\ [stage EXCEPT !.wait = Down(@)] \in Stages
<1>1. 0 \in 0..(SubmitWait + PromptWait) /\ SubmitWait + PromptWait \in 0..(SubmitWait + PromptWait)
  BY Numbers
<1>2. NoStage \in Stages /\ [NoStage EXCEPT !.at = "fill"] \in Stages
  <2>1. NoStage \in Stages
    BY <1>1 DEF Stages, NoStage
  <2> QED
    BY <2>1, StageField
<1>3. [stage EXCEPT !.at = "armed", !.submitting = TRUE, !.wait = SubmitWait + PromptWait] \in Stages
  <2> DEFINE s1 == [stage EXCEPT !.at = "armed"]
             s2 == [s1 EXCEPT !.submitting = TRUE]
  <2>1. s1 \in Stages
    BY StageField
  <2> HIDE DEF s1
  <2>2. s2 \in Stages
    BY <2>1, StageField
  <2> HIDE DEF s2
  <2>3. [s2 EXCEPT !.wait = SubmitWait + PromptWait] \in Stages
    BY <1>1, <2>2, StageField
  <2> QED
    BY <2>3 DEF s1, s2
<1>4. [stage EXCEPT !.at = "confirmed", !.wait = 0] \in Stages
  <2> DEFINE s1 == [stage EXCEPT !.at = "confirmed"]
  <2>1. s1 \in Stages
    BY StageField
  <2> HIDE DEF s1
  <2>2. [s1 EXCEPT !.wait = 0] \in Stages
    BY <1>1, <2>1, StageField
  <2> QED
    BY <2>2 DEF s1
<1>5. ASSUME NEW result \in Ending
      PROVE  [stage EXCEPT !.at = "ended", !.wait = 0, !.result = result] \in Stages
  <2> DEFINE s1 == [stage EXCEPT !.at = "ended"]
             s2 == [s1 EXCEPT !.wait = 0]
  <2>1. s1 \in Stages
    BY StageField
  <2> HIDE DEF s1
  <2>2. s2 \in Stages
    BY <1>1, <2>1, StageField
  <2> HIDE DEF s2
  <2>3. [s2 EXCEPT !.result = result] \in Stages
    BY <1>5, <2>2, StageField
  <2> QED
    BY <2>3 DEF s1, s2
<1>6. Down(stage.wait) \in 0..(SubmitWait + PromptWait)
  BY Numbers DEF Stages, Down
<1>7. [stage EXCEPT !.wait = Down(@)] \in Stages
  BY <1>6, StageField
<1> QED
  BY <1>2, <1>3, <1>4, <1>5, <1>7

\* The form: pressed, answered, closed.
LEMMA FormType ==
    ASSUME form \in Forms
    PROVE  /\ form.senders <= 1 => [form EXCEPT !.open = TRUE, !.senders = @ + 1] \in Forms
           /\ [form EXCEPT !.asks = TRUE] \in Forms
           /\ \A shown \in BOOLEAN : [form EXCEPT !.sent = TRUE, !.shown = shown] \in Forms
           /\ [form EXCEPT !.open = FALSE, !.asks = FALSE] \in Forms
<1>1. ASSUME form.senders <= 1 PROVE [form EXCEPT !.open = TRUE, !.senders = @ + 1] \in Forms
  <2> DEFINE f == [form EXCEPT !.open = TRUE]
  <2>1. f \in Forms
    BY DEF Forms
  <2>2. form.senders \in 0..2
    BY DEF Forms
  <2>3. form.senders + 1 \in 0..2
    BY <1>1, <2>2
  <2> HIDE DEF f
  <2>4. [f EXCEPT !.senders = form.senders + 1] \in Forms
    BY <2>1, <2>3 DEF Forms
  <2> QED
    BY <2>4 DEF f
<1>2. ASSUME NEW shown \in BOOLEAN PROVE [form EXCEPT !.sent = TRUE, !.shown = shown] \in Forms
  <2> DEFINE f == [form EXCEPT !.sent = TRUE]
  <2>1. f \in Forms
    BY DEF Forms
  <2> HIDE DEF f
  <2>2. [f EXCEPT !.shown = shown] \in Forms
    BY <2>1 DEF Forms
  <2> QED
    BY <2>2 DEF f
<1>3. [form EXCEPT !.open = FALSE, !.asks = FALSE] \in Forms
  <2> DEFINE f == [form EXCEPT !.open = FALSE]
  <2>1. f \in Forms
    BY DEF Forms
  <2> HIDE DEF f
  <2>2. [f EXCEPT !.asks = FALSE] \in Forms
    BY <2>1 DEF Forms
  <2> QED
    BY <2>2 DEF f
<1>4. [form EXCEPT !.asks = TRUE] \in Forms
  BY DEF Forms
<1> QED
  BY <1>1, <1>2, <1>3, <1>4

\* The disk: a report journaled, and one that is done with.
LEMMA DiskType ==
    ASSUME disk \in Disks
    PROVE  /\ [disk EXCEPT !.pending = NoReport] \in Disks
           /\ \A kind \in {"event", "questions"}, to \in {"work", "hold"} :
                 [disk EXCEPT !.pending = [kind |-> kind, to |-> to]] \in Disks
           /\ [disk EXCEPT !.streak = 0] \in Disks
           /\ \A kept \in BOOLEAN : [disk EXCEPT !.receipt = kept] \in Disks
           /\ \A n \in 0..ContainedLimit :
                 [disk EXCEPT !.pending = NoReport, !.streak = n] \in Disks
<1>1. [disk EXCEPT !.pending = NoReport] \in Disks
  BY DEF Disks
<1>2. ASSUME NEW kind \in {"event", "questions"}, NEW to \in {"work", "hold"}
      PROVE  [disk EXCEPT !.pending = [kind |-> kind, to |-> to]] \in Disks
  BY DEF Disks
<1>3. ASSUME NEW n \in 0..ContainedLimit
      PROVE  /\ [disk EXCEPT !.streak = n] \in Disks
             /\ [disk EXCEPT !.pending = NoReport, !.streak = n] \in Disks
  <2> DEFINE d == [disk EXCEPT !.pending = NoReport]
  <2>1. d \in Disks
    BY <1>1
  <2> HIDE DEF d
  <2>2. [d EXCEPT !.streak = n] \in Disks /\ [disk EXCEPT !.streak = n] \in Disks
    BY <2>1 DEF Disks
  <2> QED
    BY <2>2 DEF d
<1>4. 0 \in 0..ContainedLimit
  BY Numbers
<1>5. ASSUME NEW kept \in BOOLEAN PROVE [disk EXCEPT !.receipt = kept] \in Disks
  BY DEF Disks
<1> QED
  BY <1>1, <1>2, <1>3, <1>4, <1>5

\* A tick.
LEMMA RowTicks ==
    ASSUME row \in Rows,
           row' = [row EXCEPT !.left = Down(@), !.wait = Down(@),
                      !.age = IF row.state \in Ambiguous /\ @ < WindowTicks THEN @ + 1 ELSE @]
    PROVE  row' \in Rows
<1> DEFINE r1 == [row EXCEPT !.left = Down(@)]
           r2 == [r1 EXCEPT !.wait = Down(row.wait)]
           age == IF row.state \in Ambiguous /\ row.age < WindowTicks THEN row.age + 1 ELSE row.age
<1>1. Down(row.left) \in 0..Lease /\ Down(row.wait) \in 0..Lease
  BY Numbers, RowHas DEF Down
<1>2. age \in 0..WindowTicks
  BY Numbers, RowHas
<1>3. r1 \in Rows
  BY <1>1, RowField
<1> HIDE DEF r1
<1>4. r2 \in Rows
  BY <1>1, <1>3, RowField
<1> HIDE DEF r2, age
<1>5. [r2 EXCEPT !.age = age] \in Rows
  BY <1>2, <1>4, RowField
<1> QED
  BY <1>5 DEF r1, r2, age

\* The values the handlers and the program write.
LEMMA Values ==
    /\ 0 \in 0..1 /\ 1 \in 0..1 /\ 0 \in 0..Lease /\ Lease \in 0..Lease
    /\ {"gone", "leased", "idle", "ok", "lost", "refused"} \subseteq Replies
    /\ {"work", "ready", "hold", "submitting", "submission_unknown", "submitted",
        "confirmed", "refuted"} \subseteq RowStates
    /\ {"poll", "heartbeat", "event", "questions", "doubt", "receipt", "begin"} \subseteq Kinds
    /\ {"call", "ask", "late"} \subseteq Channels
BY Numbers DEF Replies, RowStates, Working, Ambiguous, Decided, Kinds, Channels

\* A lease found to be over, and a request turned down.
LEMMA ExpiresType ==
    ASSUME row \in Rows, net \in [Channels -> Requests], NEW c \in Channels, Expires(c)
    PROVE  row' \in Rows /\ net' \in [Channels -> Requests]
<1>1. row' \in Rows
  BY ReleasedRow DEF Expires
<1>2. Answer(c, "lost", "none", 0) /\ "lost" \in Replies /\ 0 \in 0..1
  BY Values DEF Expires
<1> QED
  BY <1>1, <1>2, AnswerType

LEMMA RefusesType ==
    ASSUME row \in Rows, net \in [Channels -> Requests], NEW c \in Channels,
           NEW reply \in {"ok", "lost", "refused"}, Refuses(c, reply)
    PROVE  row' \in Rows /\ net' \in [Channels -> Requests]
<1>1. Answer(c, reply, "none", 0) /\ reply \in Replies /\ 0 \in 0..1
  BY Values DEF Refuses
<1>2. net' \in [Channels -> Requests]
  BY <1>1, AnswerType
<1> QED
  BY <1>2 DEF Refuses

\* A lease that ends with a decision, a report or a receipt; an intent.
LEMMA WrittenRow ==
    ASSUME row \in Rows
    PROVE  /\ [Released(row) EXCEPT !.state = "hold"] \in Rows
           /\ [Released(row) EXCEPT !.state = "submitted", !.age = 0] \in Rows
           /\ [row EXCEPT !.state = "submitting", !.rev = 1, !.age = 0] \in Rows
<1> DEFINE r == Released(row)
<1>1. r \in Rows
  BY ReleasedRow
<1>2. "hold" \in RowStates /\ "submitted" \in RowStates /\ "submitting" \in RowStates
  BY Values
<1> HIDE DEF r
<1>3. [r EXCEPT !.state = "hold"] \in Rows
  BY <1>1, <1>2, RowField
<1>4. [r EXCEPT !.state = "submitted", !.age = 0] \in Rows
  BY <1>1, <1>2, RowAged
<1>5. [row EXCEPT !.state = "submitting", !.rev = 1, !.age = 0] \in Rows
  BY <1>2, RowAged
<1> QED
  BY <1>3, <1>4, <1>5 DEF r

\* What is left of the requests of a process that ended.
LEMMA GoneType ==
    ASSUME net \in [Channels -> Requests], Gone
    PROVE  net' \in [Channels -> Requests]
<1>1. \A c \in Channels : net[c] \in Requests /\ [net[c] EXCEPT !.age = 0] \in Requests
  BY Values, RequestField
<1> QED
  BY <1>1, QuietIsRequest DEF Gone

\* A report acknowledged or one of a contained failure is at most the limit's.
LEMMA AcknowledgedDisk ==
    ASSUME disk \in Disks, Sequenced, Acknowledged
    PROVE  disk' \in Disks
<1> DEFINE n == IF stage.result = "contained" THEN disk.streak + 1 ELSE disk.streak
<1>1. disk.streak \in 0..ContainedLimit
  BY DEF Disks
<1>2. stage.result = "contained" => disk.streak < ContainedLimit
  BY DEF Sequenced, Acknowledged
<1>3. n \in 0..ContainedLimit
  BY <1>1, <1>2, Numbers
<1>4. disk' = [disk EXCEPT !.pending = NoReport, !.streak = n]
  BY DEF Acknowledged
<1> HIDE DEF n
<1> QED
  BY <1>3, <1>4, DiskType

LEMMA StoppingType ==
    ASSUME Stopping
    PROVE  proc' \in Processes
BY Numbers DEF Stopping, Processes

\* A request that is sent is new on its channel.
LEMMA Sent ==
    ASSUME net \in [Channels -> Requests], NEW c \in Channels, NEW kind, NEW rev, NEW to,
           Sends(c, Request(kind, rev, to))
    PROVE  /\ \A d \in Channels : d # c => net'[d] = net[d]
           /\ net'[c].kind = kind /\ net'[c].rev = rev /\ net'[c].to = to
           /\ net'[c].reply = "none" /\ net'[c].age = 0
<1>1. Quiet \in Requests /\ Quiet.reply = "none" /\ Quiet.age = 0
  BY QuietIsRequest DEF Quiet
<1> DEFINE q == Request(kind, rev, to)
<1>2. q.kind = kind /\ q.rev = rev /\ q.to = to /\ q.reply = "none" /\ q.age = 0
  BY <1>1 DEF Request, Requests
<1> HIDE DEF q
<1>3. net'[c] = q /\ \A d \in Channels : d # c => net'[d] = net[d]
  BY DEF Sends, q
<1> QED
  BY <1>2, <1>3

\* What an intent and a receipt make of the row.
LEMMA WrittenFields ==
    ASSUME row \in Rows
    PROVE  /\ LET r == [row EXCEPT !.state = "submitting", !.rev = 1, !.age = 0]
              IN  /\ r.state = "submitting" /\ r.rev = 1 /\ r.age = 0
                  /\ r.leased = row.leased /\ r.left = row.left /\ r.wait = row.wait
           /\ LET r == [Released(row) EXCEPT !.state = "submitted", !.age = 0]
              IN  r.state = "submitted" /\ r.age = 0 /\ ~r.leased /\ r.left = 0 /\ r.rev = 0
<1>1. LET r == [row EXCEPT !.state = "submitting", !.rev = 1, !.age = 0]
      IN  /\ r.state = "submitting" /\ r.rev = 1 /\ r.age = 0
          /\ r.leased = row.leased /\ r.left = row.left /\ r.wait = row.wait
  BY DEF Rows
<1> DEFINE r == Released(row)
<1>2. r \in Rows /\ ~r.leased /\ r.left = 0 /\ r.rev = 0
  BY ReleasedRow
<1> HIDE DEF r
<1>3. LET s == [r EXCEPT !.state = "submitted", !.age = 0]
      IN  s.state = "submitted" /\ s.age = 0 /\ ~s.leased /\ s.left = 0 /\ s.rev = 0
  BY <1>2 DEF Rows
<1> QED
  BY <1>1, <1>3 DEF r

\* A tick leaves what has no time left as it is.
LEMMA NothingTicks ==
    ASSUME stage \in Stages, held \in Guards, Tick
    PROVE  /\ stage'.at = stage.at /\ stage'.submitting = stage.submitting
           /\ stage'.result = stage.result /\ stage'.wait = Down(stage.wait)
           /\ held'.active = held.active /\ held'.revoked = held.revoked
           /\ stage = NoStage => stage' = NoStage
           /\ held = NoLease => held' = NoLease
<1>1. /\ stage' = [stage EXCEPT !.wait = Down(stage.wait)]
      /\ held' = [held EXCEPT !.left = Down(held.left)]
  BY DEF Tick
<1>2. ASSUME stage = NoStage PROVE stage' = NoStage
  <2>1. stage.wait = 0 /\ Down(0) = 0
    BY <1>2 DEF NoStage, Down
  <2> QED
    BY <1>1, <1>2, <2>1 DEF NoStage
<1>3. ASSUME held = NoLease PROVE held' = NoLease
  <2>1. held.left = 0 /\ Down(0) = 0
    BY <1>3 DEF NoLease, Down
  <2> QED
    BY <1>1, <1>3, <2>1 DEF NoLease
<1>4. /\ stage'.at = stage.at /\ stage'.submitting = stage.submitting
      /\ stage'.result = stage.result /\ stage'.wait = Down(stage.wait)
      /\ held'.active = held.active /\ held'.revoked = held.revoked
  BY <1>1 DEF Stages, Guards
<1> QED
  BY <1>2, <1>3, <1>4

\* What the handlers of the server leave alone.
ServerOnly == UNCHANGED <<proc, held, stage, form, disk, spent>>

-----------------------------------------------------------------------------
(* The types, by the actions.                                              *)

\* Every step keeps the types; that a stage presses once bounds the senders.
LEMMA TypeStep ==
    ASSUME TypeOK, Sequenced, FirstSender, [Next]_vars
    PROVE  TypeOK'
<1>1. ASSUME NEW c \in Channels, ServePoll(c), ServerOnly PROVE TypeOK'
  <2>1. row' \in Rows
    BY <1>1, SweptRow, GrantedRow DEF TypeOK, ServePoll
  <2>2. net' \in [Channels -> Requests]
    BY <1>1, SweptRow, GrantedRow, RowHas, AnswerType DEF TypeOK, ServePoll, Replies
  <2>3. /\ standing' \subseteq Holders /\ proc' \in Processes /\ held' \in Guards
        /\ stage' \in Stages /\ form' \in Forms /\ disk' \in Disks
        /\ spent' \in [faults : 0..MaxFaults, commands : 0..MaxCommands] /\ seen' \in BOOLEAN
    BY <1>1 DEF TypeOK, ServerOnly, ServePoll, Expires, Refuses, Moves, Stays, Channels, Holders
  <2> QED
    BY <2>1, <2>2, <2>3 DEF TypeOK
<1>2. ASSUME NEW c \in Channels, ServeHeartbeat(c), ServerOnly PROVE TypeOK'
  <2>1. row' \in Rows
    BY <1>2, Values, RowField, ExpiresType, RefusesType DEF TypeOK, ServeHeartbeat
  <2>2. net' \in [Channels -> Requests]
    BY <1>2, Values, RowHas, ExpiresType, RefusesType, AnswerType DEF TypeOK, ServeHeartbeat
  <2>3. /\ standing' \subseteq Holders /\ proc' \in Processes /\ held' \in Guards
        /\ stage' \in Stages /\ form' \in Forms /\ disk' \in Disks
        /\ spent' \in [faults : 0..MaxFaults, commands : 0..MaxCommands] /\ seen' \in BOOLEAN
    BY <1>2 DEF TypeOK, ServerOnly, ServeHeartbeat, Expires, Refuses, Moves, Stays, Channels,
      Holders
  <2> QED
    BY <2>1, <2>2, <2>3 DEF TypeOK
<1>3. ASSUME NEW c \in Channels, ServeReport(c), ServerOnly PROVE TypeOK'
  <2>1. row' \in Rows
    BY <1>3, WrittenRow, ReleasedRow, ExpiresType, RefusesType DEF TypeOK, ServeReport
  <2>2. net' \in [Channels -> Requests]
    BY <1>3, Values, ExpiresType, RefusesType, AnswerType DEF TypeOK, ServeReport
  <2>3. /\ standing' \subseteq Holders /\ proc' \in Processes /\ held' \in Guards
        /\ stage' \in Stages /\ form' \in Forms /\ disk' \in Disks
        /\ spent' \in [faults : 0..MaxFaults, commands : 0..MaxCommands] /\ seen' \in BOOLEAN
    BY <1>3 DEF TypeOK, ServerOnly, ServeReport, Expires, Refuses, Moves, Stays, Channels, Holders
  <2> QED
    BY <2>1, <2>2, <2>3 DEF TypeOK
<1>4. ASSUME NEW c \in Channels, ServeDoubt(c), ServerOnly PROVE TypeOK'
  <2>1. row' \in Rows
    BY <1>4, ReleasedRow, ExpiresType, RefusesType DEF TypeOK, ServeDoubt
  <2>2. net' \in [Channels -> Requests]
    BY <1>4, Values, ExpiresType, RefusesType, AnswerType DEF TypeOK, ServeDoubt
  <2>3. /\ standing' \subseteq Holders /\ proc' \in Processes /\ held' \in Guards
        /\ stage' \in Stages /\ form' \in Forms /\ disk' \in Disks
        /\ spent' \in [faults : 0..MaxFaults, commands : 0..MaxCommands] /\ seen' \in BOOLEAN
    BY <1>4 DEF TypeOK, ServerOnly, ServeDoubt, Expires, Refuses, Moves, Stays, Channels, Holders
  <2> QED
    BY <2>1, <2>2, <2>3 DEF TypeOK
<1>5. ASSUME NEW c \in Channels, ServeBegin(c), ServerOnly PROVE TypeOK'
  <2>1. row' \in Rows
    BY <1>5, WrittenRow, ExpiresType, RefusesType DEF TypeOK, ServeBegin
  <2>2. net' \in [Channels -> Requests]
    BY <1>5, Values, RowHas, ExpiresType, RefusesType, AnswerType DEF TypeOK, ServeBegin
  <2>3. /\ standing' \subseteq Holders /\ proc' \in Processes /\ held' \in Guards
        /\ stage' \in Stages /\ form' \in Forms /\ disk' \in Disks
        /\ spent' \in [faults : 0..MaxFaults, commands : 0..MaxCommands] /\ seen' \in BOOLEAN
    BY <1>5 DEF TypeOK, ServerOnly, ServeBegin, Expires, Refuses, Moves, Stays, Channels, Holders
  <2> QED
    BY <2>1, <2>2, <2>3 DEF TypeOK
<1>6. ASSUME NEW c \in Channels, ServeReceipt(c), ServerOnly PROVE TypeOK'
  <2>1. row' \in Rows
    BY <1>6, WrittenRow, ReleasedRow, RefusesType DEF TypeOK, ServeReceipt
  <2>2. net' \in [Channels -> Requests]
    BY <1>6, Values, RefusesType, AnswerType DEF TypeOK, ServeReceipt
  <2>3. /\ standing' \subseteq Holders /\ proc' \in Processes /\ held' \in Guards
        /\ stage' \in Stages /\ form' \in Forms /\ disk' \in Disks
        /\ spent' \in [faults : 0..MaxFaults, commands : 0..MaxCommands] /\ seen' \in BOOLEAN
    BY <1>6 DEF TypeOK, ServerOnly, ServeReceipt, Expires, Refuses, Moves, Stays, Channels,
      Holders
  <2> QED
    BY <2>1, <2>2, <2>3 DEF TypeOK
<1>7. ASSUME NEW s \in Working, GoOn(s) PROVE TypeOK'
  <2>1. row' \in Rows
    BY <1>7, RowField DEF TypeOK, GoOn, RowStates
  <2>2. /\ net' \in [Channels -> Requests] /\ standing' \subseteq Holders /\ proc' \in Processes
        /\ held' \in Guards /\ stage' \in Stages /\ form' \in Forms /\ disk' \in Disks
        /\ spent' \in [faults : 0..MaxFaults, commands : 0..MaxCommands] /\ seen' \in BOOLEAN
    BY <1>7 DEF TypeOK, GoOn, ByApplicant
  <2> QED
    BY <2>1, <2>2 DEF TypeOK
<1>8. ASSUME EndLease PROVE TypeOK'
  <2>1. row' \in Rows
    BY <1>8, RowField, ReleasedRow DEF TypeOK, EndLease, RowStates
  <2>2. /\ net' \in [Channels -> Requests] /\ standing' \subseteq Holders /\ proc' \in Processes
        /\ held' \in Guards /\ stage' \in Stages /\ form' \in Forms /\ disk' \in Disks
        /\ spent' \in [faults : 0..MaxFaults, commands : 0..MaxCommands] /\ seen' \in BOOLEAN
    BY <1>8, Numbers DEF TypeOK, EndLease, ByApplicant, Released, Channels, Holders
  <2> QED
    BY <2>1, <2>2 DEF TypeOK
<1>9. ASSUME NEW s \in {"confirmed", "refuted"}, Decide(s) PROVE TypeOK'
  <2>1. row' \in Rows
    BY <1>9, RowAged, ReleasedRow DEF TypeOK, Decide, RowStates, Decided
  <2>2. /\ net' \in [Channels -> Requests] /\ standing' \subseteq Holders /\ proc' \in Processes
        /\ held' \in Guards /\ stage' \in Stages /\ form' \in Forms /\ disk' \in Disks
        /\ spent' \in [faults : 0..MaxFaults, commands : 0..MaxCommands] /\ seen' \in BOOLEAN
    BY <1>9, Numbers DEF TypeOK, Decide, ByApplicant, Released, WindowClosed, Channels, Holders
  <2> QED
    BY <2>1, <2>2 DEF TypeOK
<1>10. ASSUME NEW c \in Channels, Lose(c) PROVE TypeOK'
  <2>1. /\ row' \in Rows /\ net' \in [Channels -> Requests] /\ standing' \subseteq Holders
        /\ proc' \in Processes /\ held' \in Guards /\ stage' \in Stages /\ form' \in Forms
        /\ disk' \in Disks /\ spent' \in [faults : 0..MaxFaults, commands : 0..MaxCommands]
        /\ seen' \in BOOLEAN
    BY <1>10, Numbers DEF TypeOK, Lose, CanFault, Waiting, Fault, Stays, OnNetwork, Requests,
      Quiet, Kinds, Replies, Channels, Holders
  <2> QED
    BY <2>1 DEF TypeOK
<1>11. ASSUME NEW c \in Channels, Delay(c) PROVE TypeOK'
  <2>1. /\ row' \in Rows /\ net' \in [Channels -> Requests] /\ standing' \subseteq Holders
        /\ proc' \in Processes /\ held' \in Guards /\ stage' \in Stages /\ form' \in Forms
        /\ disk' \in Disks /\ spent' \in [faults : 0..MaxFaults, commands : 0..MaxCommands]
        /\ seen' \in BOOLEAN
    BY <1>11, Numbers DEF TypeOK, Delay, CanFault, Waiting, Fault, OnNetwork, Requests, Quiet,
      Kinds, Replies, Channels, Holders
  <2> QED
    BY <2>1 DEF TypeOK
<1>12. ASSUME NEW c \in Channels, Resend(c) PROVE TypeOK'
  <2>1. /\ row' \in Rows /\ net' \in [Channels -> Requests] /\ standing' \subseteq Holders
        /\ proc' \in Processes /\ held' \in Guards /\ stage' \in Stages /\ form' \in Forms
        /\ disk' \in Disks /\ spent' \in [faults : 0..MaxFaults, commands : 0..MaxCommands]
        /\ seen' \in BOOLEAN
    BY <1>12 DEF TypeOK, Resend, OnNetwork, Requests, Quiet, Kinds, Replies, Channels
  <2> QED
    BY <2>1 DEF TypeOK
<1>13. ASSUME Start PROVE TypeOK'
  <2>1. net' \in [Channels -> Requests]
    BY <1>13, Values, RequestType DEF TypeOK, Start, Sends, Disks, NoReport, Kinds, Channels
  <2>2. /\ row' \in Rows /\ standing' \subseteq Holders /\ proc' \in Processes
        /\ held' \in Guards /\ stage' \in Stages /\ form' \in Forms /\ disk' \in Disks
        /\ spent' \in [faults : 0..MaxFaults, commands : 0..MaxCommands] /\ seen' \in BOOLEAN
    BY <1>13, Numbers DEF TypeOK, Start, Sends, Request, With, OnDisk, Channels, Holders,
      Processes
  <2> QED
    BY <2>1, <2>2 DEF TypeOK
<1>14. ASSUME Recovered PROVE TypeOK'
  <2>1. net' \in [Channels -> Requests]
    BY <1>14, Values, QuietIsRequest DEF TypeOK, Recovered, Hangs
  <2>2. disk' \in Disks
    BY <1>14, DiskType DEF TypeOK, Recovered
  <2>3. proc' \in Processes
    BY <1>14 DEF TypeOK, Recovered, Processes
  <2>4. standing' \subseteq Holders
    BY <1>14 DEF TypeOK, Recovered, Holders
  <2>5. /\ row' \in Rows /\ held' \in Guards /\ stage' \in Stages /\ form' \in Forms
        /\ spent' \in [faults : 0..MaxFaults, commands : 0..MaxCommands] /\ seen' \in BOOLEAN
    BY <1>14 DEF TypeOK, Recovered
  <2> QED
    BY <2>1, <2>2, <2>3, <2>4, <2>5 DEF TypeOK
<1>15. ASSUME RecoveryFails PROVE TypeOK'
  <2>1. /\ row' \in Rows /\ net' \in [Channels -> Requests] /\ standing' \subseteq Holders
        /\ proc' \in Processes /\ held' \in Guards /\ stage' \in Stages /\ form' \in Forms
        /\ disk' \in Disks /\ spent' \in [faults : 0..MaxFaults, commands : 0..MaxCommands]
        /\ seen' \in BOOLEAN
    BY <1>15, Numbers DEF TypeOK, RecoveryFails, Fails, Stopping, CutOff, With, OnDisk,
      Requests, Quiet, Kinds, Replies, Channels, Holders, Processes, Guards, NoLease
  <2> QED
    BY <2>1 DEF TypeOK
<1>16. ASSUME Poll PROVE TypeOK'
  <2>1. net' \in [Channels -> Requests]
    BY <1>16, Values, RequestType DEF TypeOK, Poll, Sends, Kinds
  <2>2. /\ row' \in Rows /\ standing' \subseteq Holders /\ proc' \in Processes
        /\ held' \in Guards /\ stage' \in Stages /\ form' \in Forms /\ disk' \in Disks
        /\ spent' \in [faults : 0..MaxFaults, commands : 0..MaxCommands] /\ seen' \in BOOLEAN
    BY <1>16, Numbers DEF TypeOK, Poll, Sends, Request, OnDisk, CallIsFree, Processes
  <2> QED
    BY <2>1, <2>2 DEF TypeOK
<1>17. ASSUME Polled PROVE TypeOK'
  <2>1. held' \in Guards
    BY <1>17, GuardType DEF TypeOK, Polled, Channels
  <2>2. stage' \in Stages
    BY <1>17, StageType DEF TypeOK, Polled
  <2>3. /\ row' \in Rows /\ net' \in [Channels -> Requests] /\ standing' \subseteq Holders
        /\ proc' \in Processes /\ form' \in Forms /\ disk' \in Disks
        /\ spent' \in [faults : 0..MaxFaults, commands : 0..MaxCommands] /\ seen' \in BOOLEAN
    BY <1>17, Numbers DEF TypeOK, Polled, Hangs, Deadline, With, OnDisk, Requests, Quiet, Kinds,
      Replies, Channels, Holders, Processes
  <2> QED
    BY <2>1, <2>2, <2>3 DEF TypeOK
<1>18. ASSUME SendKept PROVE TypeOK'
  <2>1. net' \in [Channels -> Requests]
    BY <1>18, Values, RequestType DEF TypeOK, SendKept, Sends, Kinds
  <2>2. /\ row' \in Rows /\ standing' \subseteq Holders /\ proc' \in Processes
        /\ held' \in Guards /\ stage' \in Stages /\ form' \in Forms /\ disk' \in Disks
        /\ spent' \in [faults : 0..MaxFaults, commands : 0..MaxCommands] /\ seen' \in BOOLEAN
    BY <1>18 DEF TypeOK, SendKept, Sends, Request, GuardHolds, OnDisk, CallIsFree
  <2> QED
    BY <2>1, <2>2 DEF TypeOK
<1>19. ASSUME Reconciled PROVE TypeOK'
  <2>1. net' \in [Channels -> Requests]
    BY <1>19, Values, QuietIsRequest DEF TypeOK, Reconciled, Hangs
  <2>2. disk' \in Disks
    BY <1>19, DiskType DEF TypeOK, Reconciled
  <2>3. proc' \in Processes
    BY <1>19 DEF TypeOK, Reconciled, LetsGo, Processes
  <2>4. held' \in Guards
    BY <1>19, GuardType, QuietIsRequest DEF TypeOK, Reconciled, LetsGo
  <2>5. standing' \subseteq Holders
    BY <1>19 DEF TypeOK, Reconciled, LetsGo
  <2>6. /\ row' \in Rows /\ stage' \in Stages /\ form' \in Forms
        /\ spent' \in [faults : 0..MaxFaults, commands : 0..MaxCommands] /\ seen' \in BOOLEAN
    BY <1>19 DEF TypeOK, Reconciled, Answered, Hangs, LetsGo, OnDisk, CallIsFree
  <2> QED
    BY <2>1, <2>2, <2>3, <2>4, <2>5, <2>6 DEF TypeOK
<1>20. ASSUME Result PROVE TypeOK'
  <2>1. row' \in Rows
    BY <1>20 DEF TypeOK, Result, Fails, Stopping, OnDisk
  <2>2. proc' \in Processes
    BY <1>20, StoppingType DEF TypeOK, Result, Fails, Processes
  <2>3. disk' \in Disks
    BY <1>20, DiskType DEF TypeOK, Result, Fails, Stopping
  <2>4. /\ net' \in [Channels -> Requests] /\ standing' \subseteq Holders /\ held' \in Guards
        /\ stage' \in Stages /\ form' \in Forms
        /\ spent' \in [faults : 0..MaxFaults, commands : 0..MaxCommands] /\ seen' \in BOOLEAN
    BY <1>20, Numbers DEF TypeOK, Result, CallIsFree, GuardHolds, Fails, Stopping, CutOff, With,
      OnDisk, Requests, Quiet, Kinds, Replies, Channels, Holders, Guards, NoLease
  <2> QED
    BY <2>1, <2>2, <2>3, <2>4 DEF TypeOK
<1>21. ASSUME Durable PROVE TypeOK'
  <2>1. /\ row' \in Rows /\ net' \in [Channels -> Requests] /\ standing' \subseteq Holders
        /\ proc' \in Processes /\ held' \in Guards /\ stage' \in Stages /\ form' \in Forms
        /\ disk' \in Disks /\ spent' \in [faults : 0..MaxFaults, commands : 0..MaxCommands]
        /\ seen' \in BOOLEAN
    BY <1>21, Numbers DEF TypeOK, Durable, Hangs, LetsGo, OnDisk, CallIsFree, Requests, Quiet,
      Kinds, Replies, Channels, Holders, Processes, Guards, NoLease, Stages, NoStage
  <2> QED
    BY <2>1 DEF TypeOK
<1>22. ASSUME SendDoubt PROVE TypeOK'
  <2>1. net' \in [Channels -> Requests]
    BY <1>22, Values, RequestType DEF TypeOK, SendDoubt, Sends, Kinds, Guards
  <2>2. /\ row' \in Rows /\ standing' \subseteq Holders /\ proc' \in Processes
        /\ held' \in Guards /\ stage' \in Stages /\ form' \in Forms /\ disk' \in Disks
        /\ spent' \in [faults : 0..MaxFaults, commands : 0..MaxCommands] /\ seen' \in BOOLEAN
    BY <1>22 DEF TypeOK, SendDoubt, Sends, Request, With, OnDisk, CallIsFree, Channels, Holders
  <2> QED
    BY <2>1, <2>2 DEF TypeOK
<1>23. ASSUME Journal PROVE TypeOK'
  <2>1. disk' \in Disks
    BY <1>23, DiskType DEF TypeOK, Journal
  <2>2. standing' \subseteq Holders
    BY <1>23 DEF TypeOK, Journal, With, Holders
  <2>3. proc' \in Processes
    BY <1>23 DEF TypeOK, Journal, Processes
  <2>4. seen' \in BOOLEAN
    BY <1>23 DEF TypeOK, Journal
  <2>5. /\ row' \in Rows /\ net' \in [Channels -> Requests] /\ held' \in Guards
        /\ stage' \in Stages /\ form' \in Forms
        /\ spent' \in [faults : 0..MaxFaults, commands : 0..MaxCommands]
    BY <1>23 DEF TypeOK, Journal
  <2> QED
    BY <2>1, <2>2, <2>3, <2>4, <2>5 DEF TypeOK
<1>24. ASSUME SendReport PROVE TypeOK'
  <2>1. net' \in [Channels -> Requests]
    BY <1>24, Values, RequestType DEF TypeOK, Sequenced, SendReport, Sends, Disks, Kinds, CallOf
  <2>2. /\ row' \in Rows /\ standing' \subseteq Holders /\ proc' \in Processes
        /\ held' \in Guards /\ stage' \in Stages /\ form' \in Forms /\ disk' \in Disks
        /\ spent' \in [faults : 0..MaxFaults, commands : 0..MaxCommands] /\ seen' \in BOOLEAN
    BY <1>24, Numbers DEF TypeOK, SendReport, GuardHolds, Sends, Request, With, OnDisk,
      Channels, Holders, Processes
  <2> QED
    BY <2>1, <2>2 DEF TypeOK
<1>25. ASSUME Acknowledged PROVE TypeOK'
  <2>1. disk' \in Disks
    BY <1>25, AcknowledgedDisk DEF TypeOK, Sequenced
  <2>2. stage' \in Stages
    BY <1>25, StageType DEF TypeOK, Sequenced, Acknowledged
  <2>3. net' \in [Channels -> Requests]
    BY <1>25, Values, QuietIsRequest DEF TypeOK, Sequenced, Acknowledged, Hangs
  <2>4. held' \in Guards
    BY <1>25, GuardType, QuietIsRequest DEF TypeOK, Sequenced, Acknowledged
  <2>5. proc' \in Processes
    BY <1>25 DEF TypeOK, Sequenced, Acknowledged, Processes
  <2>6. /\ row' \in Rows /\ standing' \subseteq Holders /\ form' \in Forms
        /\ spent' \in [faults : 0..MaxFaults, commands : 0..MaxCommands] /\ seen' \in BOOLEAN
    BY <1>25 DEF TypeOK, Acknowledged, Channels, Holders, With
  <2> QED
    BY <2>1, <2>2, <2>3, <2>4, <2>5, <2>6 DEF TypeOK
<1>26. ASSUME ReportFails PROVE TypeOK'
  <2>1. /\ row' \in Rows /\ net' \in [Channels -> Requests] /\ standing' \subseteq Holders
        /\ proc' \in Processes /\ held' \in Guards /\ stage' \in Stages /\ form' \in Forms
        /\ disk' \in Disks /\ spent' \in [faults : 0..MaxFaults, commands : 0..MaxCommands]
        /\ seen' \in BOOLEAN
    BY <1>26, Numbers DEF TypeOK, ReportFails, Fails, Stopping, CutOff, With, OnDisk, Requests,
      Quiet, Kinds, Replies, Channels, Holders, Processes, Guards, NoLease
  <2> QED
    BY <2>1 DEF TypeOK
<1>27. ASSUME Exit PROVE TypeOK'
  <2>1. row' \in Rows
    BY <1>27 DEF TypeOK, Exit, Gone
  <2>2. net' \in [Channels -> Requests]
    BY <1>27, GoneType DEF TypeOK, Exit
  <2>3. proc' \in Processes
    BY <1>27, Numbers DEF TypeOK, Exit, Gone, Processes
  <2>4. held' \in Guards
    BY <1>27, GuardType, QuietIsRequest DEF TypeOK, Exit, Gone
  <2>5. stage' \in Stages
    BY <1>27, StageType DEF TypeOK, Exit, Gone
  <2>6. form' \in Forms
    BY <1>27, FormType DEF TypeOK, Exit, Gone, Closes
  <2>7. /\ standing' \subseteq Holders /\ disk' \in Disks
        /\ spent' \in [faults : 0..MaxFaults, commands : 0..MaxCommands] /\ seen' \in BOOLEAN
    BY <1>27 DEF TypeOK, Exit, Gone, Channels, Holders, With
  <2> QED
    BY <2>1, <2>2, <2>3, <2>4, <2>5, <2>6, <2>7 DEF TypeOK
<1>28. ASSUME Heartbeat PROVE TypeOK'
  <2>1. net' \in [Channels -> Requests]
    BY <1>28, Values, RequestType DEF TypeOK, Heartbeat, Sends, Kinds, Guards
  <2>2. /\ row' \in Rows /\ standing' \subseteq Holders /\ proc' \in Processes
        /\ held' \in Guards /\ stage' \in Stages /\ form' \in Forms /\ disk' \in Disks
        /\ spent' \in [faults : 0..MaxFaults, commands : 0..MaxCommands] /\ seen' \in BOOLEAN
    BY <1>28 DEF TypeOK, Heartbeat, GuardHolds, Sends, Request, With, OnDisk, CallIsFree,
      Channels, Holders
  <2> QED
    BY <2>1, <2>2 DEF TypeOK
<1>29. ASSUME Renewed PROVE TypeOK'
  <2>1. held' \in Guards
    BY <1>29, GuardType DEF TypeOK, Renewed, Channels
  <2>2. /\ row' \in Rows /\ net' \in [Channels -> Requests] /\ standing' \subseteq Holders
        /\ proc' \in Processes /\ stage' \in Stages /\ form' \in Forms /\ disk' \in Disks
        /\ spent' \in [faults : 0..MaxFaults, commands : 0..MaxCommands] /\ seen' \in BOOLEAN
    BY <1>29 DEF TypeOK, Renewed, Answered, Renews, GuardHolds, Deadline, Hangs, OnDisk,
      Requests, Quiet, Kinds, Replies, Channels, Holders
  <2> QED
    BY <2>1, <2>2 DEF TypeOK
<1>30. ASSUME BeatMissed PROVE TypeOK'
  <2>1. /\ row' \in Rows /\ net' \in [Channels -> Requests] /\ standing' \subseteq Holders
        /\ proc' \in Processes /\ held' \in Guards /\ stage' \in Stages /\ form' \in Forms
        /\ disk' \in Disks /\ spent' \in [faults : 0..MaxFaults, commands : 0..MaxCommands]
        /\ seen' \in BOOLEAN
    BY <1>30 DEF TypeOK, BeatMissed, Answered, Hangs, OnDisk, Requests, Quiet, Kinds, Replies,
      Channels, Holders
  <2> QED
    BY <2>1 DEF TypeOK
<1>31. ASSUME BeatRefused PROVE TypeOK'
  <2>1. /\ row' \in Rows /\ net' \in [Channels -> Requests] /\ standing' \subseteq Holders
        /\ proc' \in Processes /\ held' \in Guards /\ stage' \in Stages /\ form' \in Forms
        /\ disk' \in Disks /\ spent' \in [faults : 0..MaxFaults, commands : 0..MaxCommands]
        /\ seen' \in BOOLEAN
    BY <1>31, Numbers DEF TypeOK, BeatRefused, Fails, Stopping, CutOff, With, OnDisk, Requests,
      Quiet, Kinds, Replies, Channels, Holders, Processes, Guards, NoLease
  <2> QED
    BY <2>1 DEF TypeOK
<1>32. ASSUME Watchdog PROVE TypeOK'
  <2>1. /\ row' \in Rows /\ net' \in [Channels -> Requests] /\ standing' \subseteq Holders
        /\ proc' \in Processes /\ held' \in Guards /\ stage' \in Stages /\ form' \in Forms
        /\ disk' \in Disks /\ spent' \in [faults : 0..MaxFaults, commands : 0..MaxCommands]
        /\ seen' \in BOOLEAN
    BY <1>32, Numbers DEF TypeOK, Watchdog, Fails, Stopping, CutOff, With, OnDisk, Requests,
      Quiet, Kinds, Replies, Channels, Holders, Processes, Guards, NoLease
  <2> QED
    BY <2>1 DEF TypeOK
<1>33. ASSUME StageTimeout PROVE TypeOK'
  <2>1. /\ row' \in Rows /\ net' \in [Channels -> Requests] /\ standing' \subseteq Holders
        /\ proc' \in Processes /\ held' \in Guards /\ stage' \in Stages /\ form' \in Forms
        /\ disk' \in Disks /\ spent' \in [faults : 0..MaxFaults, commands : 0..MaxCommands]
        /\ seen' \in BOOLEAN
    BY <1>33, Numbers DEF TypeOK, StageTimeout, Fails, Stopping, CutOff, With, OnDisk, Requests,
      Quiet, Kinds, Replies, Channels, Holders, Processes, Guards, NoLease
  <2> QED
    BY <2>1 DEF TypeOK
<1>34. ASSUME NEW r \in Reports, FillEnds(r) PROVE TypeOK'
  <2>1. stage' \in Stages
    BY <1>34, StageType DEF TypeOK, FillEnds, Ends, Ending
  <2>2. /\ row' \in Rows /\ net' \in [Channels -> Requests] /\ standing' \subseteq Holders
        /\ proc' \in Processes /\ held' \in Guards /\ form' \in Forms /\ disk' \in Disks
        /\ spent' \in [faults : 0..MaxFaults, commands : 0..MaxCommands] /\ seen' \in BOOLEAN
    BY <1>34 DEF TypeOK, FillEnds, InStage, Ends
  <2> QED
    BY <2>1, <2>2 DEF TypeOK
<1>35. ASSUME Begin PROVE TypeOK'
  <2>1. net' \in [Channels -> Requests]
    BY <1>35, Values, RequestType DEF TypeOK, Begin, Sends, Kinds
  <2>2. /\ row' \in Rows /\ standing' \subseteq Holders /\ proc' \in Processes
        /\ held' \in Guards /\ stage' \in Stages /\ form' \in Forms /\ disk' \in Disks
        /\ spent' \in [faults : 0..MaxFaults, commands : 0..MaxCommands] /\ seen' \in BOOLEAN
    BY <1>35, Numbers DEF TypeOK, Begin, InStage, Sends, Request, With, OnDisk, Channels,
      Holders, Stages, NoStage
  <2> QED
    BY <2>1, <2>2 DEF TypeOK
<1>36. ASSUME Advance PROVE TypeOK'
  <2>1. held' \in Guards
    BY <1>36, GuardType DEF TypeOK, Advance, Channels
  <2>2. stage' \in Stages
    BY <1>36, StageType DEF TypeOK, Advance
  <2>3. /\ row' \in Rows /\ net' \in [Channels -> Requests] /\ standing' \subseteq Holders
        /\ proc' \in Processes /\ form' \in Forms /\ disk' \in Disks
        /\ spent' \in [faults : 0..MaxFaults, commands : 0..MaxCommands] /\ seen' \in BOOLEAN
    BY <1>36 DEF TypeOK, Advance, InStage, GuardHolds, Hangs, OnDisk, Requests, Quiet, Kinds,
      Replies, Channels, Holders
  <2> QED
    BY <2>1, <2>2, <2>3 DEF TypeOK
<1>37. ASSUME BeginFails PROVE TypeOK'
  <2>1. stage' \in Stages
    BY <1>37, StageType DEF TypeOK, BeginFails, Ends, Ending
  <2>2. /\ row' \in Rows /\ net' \in [Channels -> Requests] /\ standing' \subseteq Holders
        /\ proc' \in Processes /\ held' \in Guards /\ form' \in Forms /\ disk' \in Disks
        /\ spent' \in [faults : 0..MaxFaults, commands : 0..MaxCommands] /\ seen' \in BOOLEAN
    BY <1>37 DEF TypeOK, BeginFails, InStage, Ends, CutOff, With, OnDisk, Requests, Quiet,
      Kinds, Replies, Channels, Holders
  <2> QED
    BY <2>1, <2>2 DEF TypeOK
<1>38. ASSUME Press PROVE TypeOK'
  <2>1. form' \in Forms
    BY <1>38, FormType DEF TypeOK, FirstSender, Press
  <2>2. /\ row' \in Rows /\ net' \in [Channels -> Requests] /\ standing' \subseteq Holders
        /\ proc' \in Processes /\ held' \in Guards /\ stage' \in Stages /\ disk' \in Disks
        /\ spent' \in [faults : 0..MaxFaults, commands : 0..MaxCommands] /\ seen' \in BOOLEAN
    BY <1>38, Numbers DEF TypeOK, Press, InStage, Stages, NoStage
  <2> QED
    BY <2>1, <2>2 DEF TypeOK
<1>39. ASSUME PressStopped PROVE TypeOK'
  <2>1. stage' \in Stages
    BY <1>39, StageType DEF TypeOK, PressStopped, Ends, Ending
  <2>2. /\ row' \in Rows /\ net' \in [Channels -> Requests] /\ standing' \subseteq Holders
        /\ proc' \in Processes /\ held' \in Guards /\ form' \in Forms /\ disk' \in Disks
        /\ spent' \in [faults : 0..MaxFaults, commands : 0..MaxCommands] /\ seen' \in BOOLEAN
    BY <1>39 DEF TypeOK, PressStopped, InStage, Ends
  <2> QED
    BY <2>1, <2>2 DEF TypeOK
<1>40. ASSUME Confirmed PROVE TypeOK'
  <2>1. stage' \in Stages
    BY <1>40, StageType DEF TypeOK, Confirmed
  <2>2. form' \in Forms
    BY <1>40, FormType DEF TypeOK, Confirmed, Closes
  <2>3. /\ row' \in Rows /\ net' \in [Channels -> Requests] /\ standing' \subseteq Holders
        /\ proc' \in Processes /\ held' \in Guards /\ disk' \in Disks
        /\ spent' \in [faults : 0..MaxFaults, commands : 0..MaxCommands] /\ seen' \in BOOLEAN
    BY <1>40 DEF TypeOK, Confirmed, InStage, Closes
  <2> QED
    BY <2>1, <2>2, <2>3 DEF TypeOK
<1>41. ASSUME Unconfirmed PROVE TypeOK'
  <2>1. stage' \in Stages
    BY <1>41, StageType DEF TypeOK, Unconfirmed, Ends, Ending
  <2>2. form' \in Forms
    BY <1>41, FormType DEF TypeOK, Unconfirmed, Closes
  <2>3. /\ row' \in Rows /\ net' \in [Channels -> Requests] /\ standing' \subseteq Holders
        /\ proc' \in Processes /\ held' \in Guards /\ disk' \in Disks
        /\ spent' \in [faults : 0..MaxFaults, commands : 0..MaxCommands] /\ seen' \in BOOLEAN
    BY <1>41 DEF TypeOK, Unconfirmed, InStage, Closes, Ends
  <2> QED
    BY <2>1, <2>2, <2>3 DEF TypeOK
<1>42. ASSUME SendReceipt PROVE TypeOK'
  <2>1. net' \in [Channels -> Requests]
    BY <1>42, Values, RequestType DEF TypeOK, SendReceipt, Sends, Kinds
  <2>2. /\ row' \in Rows /\ standing' \subseteq Holders /\ proc' \in Processes
        /\ held' \in Guards /\ stage' \in Stages /\ form' \in Forms /\ disk' \in Disks
        /\ spent' \in [faults : 0..MaxFaults, commands : 0..MaxCommands] /\ seen' \in BOOLEAN
    BY <1>42, Numbers DEF TypeOK, SendReceipt, InStage, Sends, Request, OnDisk, Stages, NoStage
  <2> QED
    BY <2>1, <2>2 DEF TypeOK
<1>43. ASSUME ReceiptTaken PROVE TypeOK'
  <2>1. stage' \in Stages
    BY <1>43, StageType DEF TypeOK, ReceiptTaken, Ends, Ending
  <2>2. /\ row' \in Rows /\ net' \in [Channels -> Requests] /\ standing' \subseteq Holders
        /\ proc' \in Processes /\ held' \in Guards /\ form' \in Forms /\ disk' \in Disks
        /\ spent' \in [faults : 0..MaxFaults, commands : 0..MaxCommands] /\ seen' \in BOOLEAN
    BY <1>43 DEF TypeOK, ReceiptTaken, InStage, Ends, Hangs, OnDisk, Requests, Quiet, Kinds,
      Replies, Channels
  <2> QED
    BY <2>1, <2>2 DEF TypeOK
<1>44. ASSUME KeepReceipt PROVE TypeOK'
  <2>1. stage' \in Stages
    BY <1>44, StageType DEF TypeOK, KeepReceipt, Ends, Ending
  <2>2. disk' \in Disks
    BY <1>44, DiskType DEF TypeOK, KeepReceipt
  <2>3. /\ row' \in Rows /\ net' \in [Channels -> Requests] /\ standing' \subseteq Holders
        /\ proc' \in Processes /\ held' \in Guards /\ form' \in Forms
        /\ spent' \in [faults : 0..MaxFaults, commands : 0..MaxCommands] /\ seen' \in BOOLEAN
    BY <1>44 DEF TypeOK, KeepReceipt, InStage, Ends, CutOff, With, OnDisk, Requests, Quiet,
      Kinds, Replies, Channels, Holders
  <2> QED
    BY <2>1, <2>2, <2>3 DEF TypeOK
<1>45. ASSUME Ask PROVE TypeOK'
  <2>1. form' \in Forms
    BY <1>45, FormType DEF TypeOK, Ask
  <2>2. /\ row' \in Rows /\ net' \in [Channels -> Requests] /\ standing' \subseteq Holders
        /\ proc' \in Processes /\ held' \in Guards /\ stage' \in Stages /\ disk' \in Disks
        /\ spent' \in [faults : 0..MaxFaults, commands : 0..MaxCommands] /\ seen' \in BOOLEAN
    BY <1>45 DEF TypeOK, Ask
  <2> QED
    BY <2>1, <2>2 DEF TypeOK
<1>46. ASSUME NEW b \in BOOLEAN, Accept(b) PROVE TypeOK'
  <2>1. form' \in Forms
    BY <1>46, FormType DEF TypeOK, Accept
  <2>2. /\ row' \in Rows /\ net' \in [Channels -> Requests] /\ standing' \subseteq Holders
        /\ proc' \in Processes /\ held' \in Guards /\ stage' \in Stages /\ disk' \in Disks
        /\ spent' \in [faults : 0..MaxFaults, commands : 0..MaxCommands] /\ seen' \in BOOLEAN
    BY <1>46 DEF TypeOK, Accept
  <2> QED
    BY <2>1, <2>2 DEF TypeOK
<1>47. ASSUME Stop PROVE TypeOK'
  <2>1. /\ row' \in Rows /\ net' \in [Channels -> Requests] /\ standing' \subseteq Holders
        /\ proc' \in Processes /\ held' \in Guards /\ stage' \in Stages /\ form' \in Forms
        /\ disk' \in Disks /\ spent' \in [faults : 0..MaxFaults, commands : 0..MaxCommands]
        /\ seen' \in BOOLEAN
    BY <1>47, Numbers DEF TypeOK, Stop, CanFault, Fault, CutOff, With, OnDisk, Requests, Quiet,
      Kinds, Replies, Channels, Holders, Processes, Guards, NoLease
  <2> QED
    BY <2>1 DEF TypeOK
<1>48. ASSUME Crash PROVE TypeOK'
  <2>1. row' \in Rows
    BY <1>48 DEF TypeOK, Crash, Gone
  <2>2. net' \in [Channels -> Requests]
    BY <1>48, GoneType DEF TypeOK, Crash
  <2>3. proc' \in Processes
    BY <1>48, Numbers DEF TypeOK, Crash, Gone, Processes
  <2>4. held' \in Guards
    BY <1>48, GuardType, QuietIsRequest DEF TypeOK, Crash, Gone
  <2>5. stage' \in Stages
    BY <1>48, StageType DEF TypeOK, Crash, Gone
  <2>6. form' \in Forms
    BY <1>48, FormType DEF TypeOK, Crash, Gone, Closes
  <2>7. spent' \in [faults : 0..MaxFaults, commands : 0..MaxCommands]
    BY <1>48, Numbers DEF TypeOK, Crash, CanFault, Fault
  <2>8. standing' \subseteq Holders /\ disk' \in Disks /\ seen' \in BOOLEAN
    BY <1>48 DEF TypeOK, Crash, CanFault, Fault, Gone, Channels, Holders, With
  <2> QED
    BY <2>1, <2>2, <2>3, <2>4, <2>5, <2>6, <2>7, <2>8 DEF TypeOK
<1>49. ASSUME Tick PROVE TypeOK'
  <2>1. row' \in Rows
    BY <1>49, RowTicks DEF TypeOK, Tick
  <2>2. held' \in Guards
    BY <1>49, GuardType, QuietIsRequest DEF TypeOK, Tick
  <2>3. stage' \in Stages
    BY <1>49, StageType DEF TypeOK, Tick
  <2>4. /\ net' \in [Channels -> Requests] /\ standing' \subseteq Holders /\ proc' \in Processes
        /\ form' \in Forms /\ disk' \in Disks
        /\ spent' \in [faults : 0..MaxFaults, commands : 0..MaxCommands] /\ seen' \in BOOLEAN
    BY <1>49, Numbers DEF TypeOK, Tick, Due, Down, Expired, CallIsFree, Requests, Quiet, Kinds,
      Replies, Channels, Processes
  <2> QED
    BY <2>1, <2>2, <2>3, <2>4 DEF TypeOK
<1>50. CASE UNCHANGED vars
  BY <1>50 DEF TypeOK, vars
<1> QED
  BY <1>1, <1>2, <1>3, <1>4, <1>5, <1>6, <1>7, <1>8, <1>9, <1>10, <1>11, <1>12, <1>13, <1>14,
    <1>15, <1>16, <1>17, <1>18, <1>19, <1>20, <1>21, <1>22, <1>23, <1>24, <1>25, <1>26, <1>27,
    <1>28, <1>29, <1>30, <1>31, <1>32, <1>33, <1>34, <1>35, <1>36, <1>37, <1>38, <1>39, <1>40,
    <1>41, <1>42, <1>43, <1>44, <1>45, <1>46, <1>47, <1>48, <1>49, <1>50
  DEF ServerOnly, Next, ServerStep, Serve, NetworkStep, LoopStep, BeatStep, SubmitStep, StageStep

-----------------------------------------------------------------------------
(* The parts of the invariant, by the actions.                             *)

\* The phases stay in order.
LEMMA SequencedStep ==
    ASSUME Inv, [Next]_vars
    PROVE  Sequenced'
<1> USE Numbers DEF Inv, TypeOK, Rows, Requests, Processes, Guards, Stages, Forms, Disks, Quiet,
  NoStage, NoLease, NoReport, ClosedForm, RowStates, Channels, Holders, Kinds, Working,
  Ambiguous, Decided, Replies, Sequenced, CallOf, Reports
<1>1. ASSUME NEW c \in Channels, ServePoll(c), ServerOnly PROVE Sequenced'
  BY <1>1, RowHas, AnswerFields, ReleasedRow, GrantedRow, SweptRow DEF ServerOnly, ServePoll,
    Asked, Expires, Matches, Refuses, Claimable, Moves, Stays, Ended
<1>2. ASSUME NEW c \in Channels, ServeHeartbeat(c), ServerOnly PROVE Sequenced'
  BY <1>2, RowHas, AnswerFields, ReleasedRow, GrantedRow, SweptRow DEF ServerOnly,
    ServeHeartbeat, Asked, Expires, Matches, Refuses, Claimable, Moves, Stays, Ended
<1>3. ASSUME NEW c \in Channels, ServeReport(c), ServerOnly PROVE Sequenced'
  BY <1>3, RowHas, AnswerFields, ReleasedRow, GrantedRow, SweptRow DEF ServerOnly, ServeReport,
    Asked, Expires, Matches, Refuses, Claimable, Moves, Stays, Ended
<1>4. ASSUME NEW c \in Channels, ServeDoubt(c), ServerOnly PROVE Sequenced'
  BY <1>4, RowHas, AnswerFields, ReleasedRow, GrantedRow, SweptRow DEF ServerOnly, ServeDoubt,
    Asked, Expires, Matches, Refuses, Claimable, Moves, Stays, Ended
<1>5. ASSUME NEW c \in Channels, ServeBegin(c), ServerOnly PROVE Sequenced'
  BY <1>5, RowHas, AnswerFields, ReleasedRow, GrantedRow, SweptRow DEF ServerOnly, ServeBegin,
    Asked, Expires, Matches, Refuses, Claimable, Moves, Stays, Ended
<1>6. ASSUME NEW c \in Channels, ServeReceipt(c), ServerOnly PROVE Sequenced'
  BY <1>6, RowHas, AnswerFields, ReleasedRow, GrantedRow, SweptRow DEF ServerOnly, ServeReceipt,
    Asked, Expires, Matches, Refuses, Claimable, Moves, Stays, Ended
<1>7. ASSUME NEW s \in Working, GoOn(s) PROVE Sequenced'
  BY <1>7 DEF GoOn, ByApplicant
<1>8. ASSUME EndLease PROVE Sequenced'
  BY <1>8 DEF EndLease, ByApplicant, Released
<1>9. ASSUME NEW s \in {"confirmed", "refuted"}, Decide(s) PROVE Sequenced'
  BY <1>9 DEF Decide, ByApplicant, Released, WindowClosed
<1>10. ASSUME NEW c \in Channels, Lose(c) PROVE Sequenced'
  BY <1>10 DEF Lose, CanFault, Waiting, Fault, Stays, OnNetwork
<1>11. ASSUME NEW c \in Channels, Delay(c) PROVE Sequenced'
  BY <1>11 DEF Delay, CanFault, Waiting, Fault, OnNetwork
<1>12. ASSUME NEW c \in Channels, Resend(c) PROVE Sequenced'
  BY <1>12 DEF Resend, OnNetwork
<1>13. ASSUME Start PROVE Sequenced'
  <2>1. CASE disk.pending = NoReport
    BY <1>13, <2>1 DEF Start, OnDisk
  <2>2. CASE disk.pending # NoReport
    <3>1. /\ Sends("call", Request(disk.pending.kind, 0, disk.pending.to))
          /\ standing' = With("call", "pending") /\ proc'.phase = "recover"
          /\ ~proc'.aborted /\ proc.phase = "down"
          /\ UNCHANGED <<row, seen, held, stage, form, disk>>
      BY <1>13, <2>2 DEF Start, OnDisk
    <3>2. disk.pending.kind \in {"event", "questions"}
      BY <2>2
    <3> QED
      BY <2>2, <3>1, <3>2, Sent DEF With
  <2> QED
    BY <2>1, <2>2
<1>14. ASSUME Recovered PROVE Sequenced'
  BY <1>14 DEF Recovered, Hangs
<1>15. ASSUME RecoveryFails PROVE Sequenced'
  BY <1>15 DEF RecoveryFails, Fails, Stopping, CutOff, With, OnDisk
<1>16. ASSUME Poll PROVE Sequenced'
  BY <1>16 DEF Poll, Sends, Request, OnDisk, CallIsFree
<1>17. ASSUME Polled PROVE Sequenced'
  BY <1>17 DEF Polled, Hangs, Deadline, With, OnDisk
<1>18. ASSUME SendKept PROVE Sequenced'
  BY <1>18 DEF SendKept, Sends, Request, GuardHolds, OnDisk, CallIsFree
<1>19. ASSUME Reconciled PROVE Sequenced'
  BY <1>19 DEF Reconciled, Answered, Hangs, LetsGo, OnDisk, CallIsFree
<1>20. ASSUME Result PROVE Sequenced'
  BY <1>20 DEF Result, CallIsFree, GuardHolds, Fails, Stopping, CutOff, With, OnDisk
<1>21. ASSUME Durable PROVE Sequenced'
  BY <1>21 DEF Durable, Hangs, LetsGo, OnDisk, CallIsFree
<1>22. ASSUME SendDoubt PROVE Sequenced'
  BY <1>22 DEF SendDoubt, Sends, Request, With, OnDisk, CallIsFree
<1>23. ASSUME Journal PROVE Sequenced'
  BY <1>23 DEF Journal, GuardHolds, With
<1>24. ASSUME SendReport PROVE Sequenced'
  BY <1>24 DEF SendReport, GuardHolds, Sends, Request, With, OnDisk
<1>25. ASSUME Acknowledged PROVE Sequenced'
  BY <1>25 DEF Acknowledged, Hangs
<1>26. ASSUME ReportFails PROVE Sequenced'
  BY <1>26 DEF ReportFails, Fails, Stopping, CutOff, With, OnDisk
<1>27. ASSUME Exit PROVE Sequenced'
  BY <1>27 DEF Exit, Gone, Closes, With
<1>28. ASSUME Heartbeat PROVE Sequenced'
  BY <1>28 DEF Heartbeat, GuardHolds, Sends, Request, With, OnDisk, CallIsFree
<1>29. ASSUME Renewed PROVE Sequenced'
  BY <1>29 DEF Renewed, Answered, Renews, GuardHolds, Deadline, Hangs, OnDisk
<1>30. ASSUME BeatMissed PROVE Sequenced'
  BY <1>30 DEF BeatMissed, Answered, Hangs, OnDisk
<1>31. ASSUME BeatRefused PROVE Sequenced'
  BY <1>31 DEF BeatRefused, Fails, Stopping, CutOff, With, OnDisk
<1>32. ASSUME Watchdog PROVE Sequenced'
  BY <1>32 DEF Watchdog, Fails, Stopping, CutOff, With, OnDisk
<1>33. ASSUME StageTimeout PROVE Sequenced'
  BY <1>33 DEF StageTimeout, Fails, Stopping, CutOff, With, OnDisk
<1>34. ASSUME NEW r \in Reports, FillEnds(r) PROVE Sequenced'
  BY <1>34 DEF FillEnds, InStage, Ends
<1>35. ASSUME Begin PROVE Sequenced'
  BY <1>35 DEF Begin, InStage, Sends, Request, With, OnDisk
<1>36. ASSUME Advance PROVE Sequenced'
  BY <1>36 DEF Advance, InStage, GuardHolds, Hangs, OnDisk
<1>37. ASSUME BeginFails PROVE Sequenced'
  BY <1>37 DEF BeginFails, InStage, Ends, CutOff, With, OnDisk
<1>38. ASSUME Press PROVE Sequenced'
  BY <1>38 DEF Press, InStage
<1>39. ASSUME PressStopped PROVE Sequenced'
  BY <1>39 DEF PressStopped, InStage, Ends
<1>40. ASSUME Confirmed PROVE Sequenced'
  BY <1>40 DEF Confirmed, InStage, Closes
<1>41. ASSUME Unconfirmed PROVE Sequenced'
  BY <1>41 DEF Unconfirmed, InStage, Closes, Ends
<1>42. ASSUME SendReceipt PROVE Sequenced'
  BY <1>42 DEF SendReceipt, InStage, Sends, Request, OnDisk
<1>43. ASSUME ReceiptTaken PROVE Sequenced'
  BY <1>43 DEF ReceiptTaken, InStage, Ends, Hangs, OnDisk
<1>44. ASSUME KeepReceipt PROVE Sequenced'
  BY <1>44 DEF KeepReceipt, InStage, Ends, CutOff, With, OnDisk
<1>45. ASSUME Ask PROVE Sequenced'
  BY <1>45 DEF Ask
<1>46. ASSUME NEW b \in BOOLEAN, Accept(b) PROVE Sequenced'
  BY <1>46 DEF Accept
<1>47. ASSUME Stop PROVE Sequenced'
  BY <1>47 DEF Stop, CanFault, Fault, CutOff, With, OnDisk
<1>48. ASSUME Crash PROVE Sequenced'
  BY <1>48 DEF Crash, CanFault, Fault, Gone, Closes, With
<1>49. ASSUME Tick PROVE Sequenced'
  <2>1. proc'.phase = proc.phase /\ proc'.aborted = proc.aborted
    BY <1>49 DEF Tick
  <2>2. /\ net'["call"].kind = net["call"].kind
        /\ net'["ask"].kind = net["ask"].kind
    BY <1>49 DEF Tick
  <2>3. form' = form /\ disk' = disk /\ standing' = standing
    BY <1>49 DEF Tick
  <2> QED
    BY <1>49, <2>1, <2>2, <2>3, NothingTicks
<1>50. CASE UNCHANGED vars
  BY <1>50 DEF vars
<1> HIDE DEF Sequenced, CallOf
<1> QED
  BY <1>1, <1>2, <1>3, <1>4, <1>5, <1>6, <1>7, <1>8, <1>9, <1>10, <1>11, <1>12, <1>13, <1>14,
    <1>15, <1>16, <1>17, <1>18, <1>19, <1>20, <1>21, <1>22, <1>23, <1>24, <1>25, <1>26, <1>27,
    <1>28, <1>29, <1>30, <1>31, <1>32, <1>33, <1>34, <1>35, <1>36, <1>37, <1>38, <1>39, <1>40,
    <1>41, <1>42, <1>43, <1>44, <1>45, <1>46, <1>47, <1>48, <1>49, <1>50
  DEF ServerOnly, Next, ServerStep, Serve, NetworkStep, LoopStep, BeatStep, SubmitStep, StageStep

\* Whoever has the fence keeps the lease.
LEMMA LeasedStep ==
    ASSUME Inv, [Next]_vars
    PROVE  Leased'
<1> USE Numbers DEF Inv, TypeOK, Rows, Requests, Processes, Guards, Stages, Forms, Disks, Quiet,
  NoStage, NoLease, NoReport, ClosedForm, RowStates, Channels, Holders, Kinds, Working,
  Ambiguous, Decided, Replies, Leased, Sequenced, CallOf
<1>1. ASSUME NEW c \in Channels, ServePoll(c), ServerOnly PROVE Leased'
  BY <1>1, RowHas, AnswerFields, ReleasedRow, GrantedRow, SweptRow DEF ServerOnly, ServePoll,
    Asked, Expires, Matches, Refuses, Claimable, Moves, Stays, Ended
<1>2. ASSUME NEW c \in Channels, ServeHeartbeat(c), ServerOnly PROVE Leased'
  BY <1>2, RowHas, AnswerFields, ReleasedRow, GrantedRow, SweptRow DEF ServerOnly,
    ServeHeartbeat, Asked, Expires, Matches, Refuses, Claimable, Moves, Stays, Ended
<1>3. ASSUME NEW c \in Channels, ServeReport(c), ServerOnly PROVE Leased'
  BY <1>3, RowHas, AnswerFields, ReleasedRow, GrantedRow, SweptRow DEF ServerOnly, ServeReport,
    Asked, Expires, Matches, Refuses, Claimable, Moves, Stays, Ended
<1>4. ASSUME NEW c \in Channels, ServeDoubt(c), ServerOnly PROVE Leased'
  BY <1>4, RowHas, AnswerFields, ReleasedRow, GrantedRow, SweptRow DEF ServerOnly, ServeDoubt,
    Asked, Expires, Matches, Refuses, Claimable, Moves, Stays, Ended
<1>5. ASSUME NEW c \in Channels, ServeBegin(c), ServerOnly PROVE Leased'
  <2>1. CASE /\ row.state = "submitting" /\ c \in standing
             /\ Answer(c, "ok", "submitting", row.rev)
             /\ Stays(c) /\ UNCHANGED <<row, seen>>
    BY <1>5, <2>1, AnswerFields DEF ServerOnly, ServeBegin, Asked, Stays
  <2>2. CASE Refuses(c, "refused")
    BY <1>5, <2>2, AnswerFields DEF ServerOnly, ServeBegin, Asked, Refuses, Stays
  <2>3. CASE Expires(c)
    BY <1>5, <2>3, AnswerFields, ReleasedRow
    DEF ServerOnly, ServeBegin, Asked, Expires, Matches, Moves, Ended
  <2>4. CASE Refuses(c, "lost")
    BY <1>5, <2>4, AnswerFields DEF ServerOnly, ServeBegin, Asked, Refuses, Stays
  <2>5. CASE /\ row.state = "ready" /\ Matches(c) /\ row.left > 0
             /\ row' = [row EXCEPT !.state = "submitting", !.rev = 1, !.age = 0]
             /\ Answer(c, "ok", "submitting", 1)
             /\ Stays(c) /\ UNCHANGED seen
    BY <1>5, <2>5, AnswerFields, WrittenFields
    DEF ServerOnly, ServeBegin, Asked, Matches, Stays
  <2> QED
    BY <1>5, <2>1, <2>2, <2>3, <2>4, <2>5 DEF ServeBegin
<1>6. ASSUME NEW c \in Channels, ServeReceipt(c), ServerOnly PROVE Leased'
  BY <1>6, RowHas, AnswerFields, ReleasedRow, GrantedRow, SweptRow DEF ServerOnly, ServeReceipt,
    Asked, Expires, Matches, Refuses, Claimable, Moves, Stays, Ended
<1>7. ASSUME NEW s \in Working, GoOn(s) PROVE Leased'
  BY <1>7 DEF GoOn, ByApplicant
<1>8. ASSUME EndLease PROVE Leased'
  BY <1>8 DEF EndLease, ByApplicant, Released
<1>9. ASSUME NEW s \in {"confirmed", "refuted"}, Decide(s) PROVE Leased'
  BY <1>9 DEF Decide, ByApplicant, Released, WindowClosed
<1>10. ASSUME NEW c \in Channels, Lose(c) PROVE Leased'
  BY <1>10 DEF Lose, CanFault, Waiting, Fault, Stays, OnNetwork
<1>11. ASSUME NEW c \in Channels, Delay(c) PROVE Leased'
  BY <1>11 DEF Delay, CanFault, Waiting, Fault, OnNetwork
<1>12. ASSUME NEW c \in Channels, Resend(c) PROVE Leased'
  BY <1>12 DEF Resend, OnNetwork
<1>13. ASSUME Start PROVE Leased'
  <2>1. CASE disk.pending = NoReport
    BY <1>13, <2>1 DEF Start, OnDisk
  <2>2. CASE disk.pending # NoReport
    <3>1. /\ Sends("call", Request(disk.pending.kind, 0, disk.pending.to))
          /\ standing' = With("call", "pending") /\ proc'.phase = "recover"
          /\ ~proc'.aborted /\ proc.phase = "down"
          /\ UNCHANGED <<row, seen, held, stage, form, disk>>
      BY <1>13, <2>2 DEF Start, OnDisk
    <3>2. disk.pending.kind \in {"event", "questions"}
      BY <2>2
    <3> QED
      BY <2>2, <3>1, <3>2, Sent DEF With
  <2> QED
    BY <2>1, <2>2
<1>14. ASSUME Recovered PROVE Leased'
  BY <1>14 DEF Recovered, Hangs
<1>15. ASSUME RecoveryFails PROVE Leased'
  BY <1>15 DEF RecoveryFails, Fails, Stopping, CutOff, With, OnDisk
<1>16. ASSUME Poll PROVE Leased'
  BY <1>16 DEF Poll, Sends, Request, OnDisk, CallIsFree
<1>17. ASSUME Polled PROVE Leased'
  BY <1>17 DEF Polled, Hangs, Deadline, With, OnDisk
<1>18. ASSUME SendKept PROVE Leased'
  BY <1>18 DEF SendKept, Sends, Request, GuardHolds, OnDisk, CallIsFree
<1>19. ASSUME Reconciled PROVE Leased'
  BY <1>19 DEF Reconciled, Answered, Hangs, LetsGo, OnDisk, CallIsFree
<1>20. ASSUME Result PROVE Leased'
  BY <1>20 DEF Result, CallIsFree, GuardHolds, Fails, Stopping, CutOff, With, OnDisk
<1>21. ASSUME Durable PROVE Leased'
  BY <1>21 DEF Durable, Hangs, LetsGo, OnDisk, CallIsFree
<1>22. ASSUME SendDoubt PROVE Leased'
  BY <1>22 DEF SendDoubt, Sends, Request, With, OnDisk, CallIsFree
<1>23. ASSUME Journal PROVE Leased'
  BY <1>23 DEF Journal, GuardHolds, With
<1>24. ASSUME SendReport PROVE Leased'
  BY <1>24 DEF SendReport, GuardHolds, Sends, Request, With, OnDisk
<1>25. ASSUME Acknowledged PROVE Leased'
  BY <1>25 DEF Acknowledged, Hangs
<1>26. ASSUME ReportFails PROVE Leased'
  BY <1>26 DEF ReportFails, Fails, Stopping, CutOff, With, OnDisk
<1>27. ASSUME Exit PROVE Leased'
  BY <1>27 DEF Exit, Gone, Closes, With
<1>28. ASSUME Heartbeat PROVE Leased'
  BY <1>28 DEF Heartbeat, GuardHolds, Sends, Request, With, OnDisk, CallIsFree
<1>29. ASSUME Renewed PROVE Leased'
  BY <1>29 DEF Renewed, Answered, Renews, GuardHolds, Deadline, Hangs, OnDisk
<1>30. ASSUME BeatMissed PROVE Leased'
  BY <1>30 DEF BeatMissed, Answered, Hangs, OnDisk
<1>31. ASSUME BeatRefused PROVE Leased'
  BY <1>31 DEF BeatRefused, Fails, Stopping, CutOff, With, OnDisk
<1>32. ASSUME Watchdog PROVE Leased'
  BY <1>32 DEF Watchdog, Fails, Stopping, CutOff, With, OnDisk
<1>33. ASSUME StageTimeout PROVE Leased'
  BY <1>33 DEF StageTimeout, Fails, Stopping, CutOff, With, OnDisk
<1>34. ASSUME NEW r \in Reports, FillEnds(r) PROVE Leased'
  BY <1>34 DEF FillEnds, InStage, Ends
<1>35. ASSUME Begin PROVE Leased'
  BY <1>35 DEF Begin, InStage, Sends, Request, With, OnDisk
<1>36. ASSUME Advance PROVE Leased'
  BY <1>36 DEF Advance, InStage, GuardHolds, Hangs, OnDisk
<1>37. ASSUME BeginFails PROVE Leased'
  BY <1>37 DEF BeginFails, InStage, Ends, CutOff, With, OnDisk
<1>38. ASSUME Press PROVE Leased'
  BY <1>38 DEF Press, InStage
<1>39. ASSUME PressStopped PROVE Leased'
  BY <1>39 DEF PressStopped, InStage, Ends
<1>40. ASSUME Confirmed PROVE Leased'
  BY <1>40 DEF Confirmed, InStage, Closes
<1>41. ASSUME Unconfirmed PROVE Leased'
  BY <1>41 DEF Unconfirmed, InStage, Closes, Ends
<1>42. ASSUME SendReceipt PROVE Leased'
  BY <1>42 DEF SendReceipt, InStage, Sends, Request, OnDisk
<1>43. ASSUME ReceiptTaken PROVE Leased'
  BY <1>43 DEF ReceiptTaken, InStage, Ends, Hangs, OnDisk
<1>44. ASSUME KeepReceipt PROVE Leased'
  BY <1>44 DEF KeepReceipt, InStage, Ends, CutOff, With, OnDisk
<1>45. ASSUME Ask PROVE Leased'
  BY <1>45 DEF Ask
<1>46. ASSUME NEW b \in BOOLEAN, Accept(b) PROVE Leased'
  BY <1>46 DEF Accept
<1>47. ASSUME Stop PROVE Leased'
  BY <1>47 DEF Stop, CanFault, Fault, CutOff, With, OnDisk
<1>48. ASSUME Crash PROVE Leased'
  BY <1>48 DEF Crash, CanFault, Fault, Gone, Closes, With
<1>49. ASSUME Tick PROVE Leased'
  BY <1>49 DEF Tick, Due, Down, Expired, CallIsFree
<1>50. CASE UNCHANGED vars
  BY <1>50 DEF vars
<1> HIDE DEF Sequenced, CallOf, Leased
<1> QED
  BY <1>1, <1>2, <1>3, <1>4, <1>5, <1>6, <1>7, <1>8, <1>9, <1>10, <1>11, <1>12, <1>13, <1>14,
    <1>15, <1>16, <1>17, <1>18, <1>19, <1>20, <1>21, <1>22, <1>23, <1>24, <1>25, <1>26, <1>27,
    <1>28, <1>29, <1>30, <1>31, <1>32, <1>33, <1>34, <1>35, <1>36, <1>37, <1>38, <1>39, <1>40,
    <1>41, <1>42, <1>43, <1>44, <1>45, <1>46, <1>47, <1>48, <1>49, <1>50
  DEF ServerOnly, Next, ServerStep, Serve, NetworkStep, LoopStep, BeatStep, SubmitStep, StageStep

\* Nothing is begun behind a stage's back.
LEMMA UnbegunStep ==
    ASSUME Inv, [Next]_vars
    PROVE  Unbegun'
<1> USE Numbers DEF Inv, TypeOK, Rows, Requests, Processes, Guards, Stages, Forms, Disks, Quiet,
  NoStage, NoLease, NoReport, ClosedForm, RowStates, Channels, Holders, Kinds, Working,
  Ambiguous, Decided, Replies, Unbegun, Reports, Sequenced, CallOf, Leased, Reported
<1>1. ASSUME NEW c \in Channels, ServePoll(c), ServerOnly PROVE Unbegun'
  BY <1>1, RowHas, AnswerFields, ReleasedRow, GrantedRow, SweptRow DEF ServerOnly, ServePoll,
    Asked, Expires, Matches, Refuses, Claimable, Moves, Stays, Ended
<1>2. ASSUME NEW c \in Channels, ServeHeartbeat(c), ServerOnly PROVE Unbegun'
  BY <1>2, RowHas, AnswerFields, ReleasedRow, GrantedRow, SweptRow DEF ServerOnly,
    ServeHeartbeat, Asked, Expires, Matches, Refuses, Claimable, Moves, Stays, Ended
<1>3. ASSUME NEW c \in Channels, ServeReport(c), ServerOnly PROVE Unbegun'
  BY <1>3, RowHas, AnswerFields, ReleasedRow, GrantedRow, SweptRow DEF ServerOnly, ServeReport,
    Asked, Expires, Matches, Refuses, Claimable, Moves, Stays, Ended
<1>4. ASSUME NEW c \in Channels, ServeDoubt(c), ServerOnly PROVE Unbegun'
  BY <1>4, RowHas, AnswerFields, ReleasedRow, GrantedRow, SweptRow DEF ServerOnly, ServeDoubt,
    Asked, Expires, Matches, Refuses, Claimable, Moves, Stays, Ended
<1>5. ASSUME NEW c \in Channels, ServeBegin(c), ServerOnly PROVE Unbegun'
  BY <1>5, RowHas, AnswerFields, ReleasedRow, GrantedRow, SweptRow DEF ServerOnly, ServeBegin,
    Asked, Expires, Matches, Refuses, Claimable, Moves, Stays, Ended
<1>6. ASSUME NEW c \in Channels, ServeReceipt(c), ServerOnly PROVE Unbegun'
  BY <1>6, RowHas, AnswerFields, ReleasedRow, GrantedRow, SweptRow DEF ServerOnly, ServeReceipt,
    Asked, Expires, Matches, Refuses, Claimable, Moves, Stays, Ended
<1>7. ASSUME NEW s \in Working, GoOn(s) PROVE Unbegun'
  BY <1>7 DEF GoOn, ByApplicant
<1>8. ASSUME EndLease PROVE Unbegun'
  BY <1>8 DEF EndLease, ByApplicant, Released
<1>9. ASSUME NEW s \in {"confirmed", "refuted"}, Decide(s) PROVE Unbegun'
  BY <1>9 DEF Decide, ByApplicant, Released, WindowClosed
<1>10. ASSUME NEW c \in Channels, Lose(c) PROVE Unbegun'
  BY <1>10 DEF Lose, CanFault, Waiting, Fault, Stays, OnNetwork
<1>11. ASSUME NEW c \in Channels, Delay(c) PROVE Unbegun'
  BY <1>11 DEF Delay, CanFault, Waiting, Fault, OnNetwork
<1>12. ASSUME NEW c \in Channels, Resend(c) PROVE Unbegun'
  BY <1>12 DEF Resend, OnNetwork
<1>13. ASSUME Start PROVE Unbegun'
  BY <1>13 DEF Start, Sends, Request, With, OnDisk
<1>14. ASSUME Recovered PROVE Unbegun'
  BY <1>14 DEF Recovered, Hangs
<1>15. ASSUME RecoveryFails PROVE Unbegun'
  BY <1>15 DEF RecoveryFails, Fails, Stopping, CutOff, With, OnDisk
<1>16. ASSUME Poll PROVE Unbegun'
  BY <1>16 DEF Poll, Sends, Request, OnDisk, CallIsFree
<1>17. ASSUME Polled PROVE Unbegun'
  <2>1. CASE net["call"].reply = "leased" /\ net["call"].state \notin Ambiguous
    <3>1. stage'.at = "fill" /\ stage'.result = "none"
      BY <1>17, <2>1 DEF Polled
    <3>2. "held" \in standing' => "call" \in standing
      BY <1>17, <2>1 DEF Polled, With
    <3>3. net'["ask"] = net["ask"] /\ net'["late"] = net["late"]
      BY <1>17 DEF Polled, Hangs
    <3>4. UNCHANGED <<row, form>> /\ standing' \subseteq standing \union {"held"}
      BY <1>17, <2>1 DEF Polled, With, OnDisk
    <3> QED
      BY <1>17, <2>1, <3>1, <3>2, <3>3, <3>4 DEF Polled
  <2>2. CASE ~(net["call"].reply = "leased" /\ net["call"].state \notin Ambiguous)
    <3>1. stage = NoStage /\ held = NoLease
      BY <1>17 DEF Polled
    <3>2. UNCHANGED <<row, form, stage>> /\ net'["ask"] = net["ask"]
      BY <1>17, <2>2 DEF Polled, Hangs, OnDisk
    <3> QED
      BY <3>1, <3>2
  <2> QED
    BY <2>1, <2>2
<1>18. ASSUME SendKept PROVE Unbegun'
  BY <1>18 DEF SendKept, Sends, Request, GuardHolds, OnDisk, CallIsFree
<1>19. ASSUME Reconciled PROVE Unbegun'
  BY <1>19 DEF Reconciled, Answered, Hangs, LetsGo, OnDisk, CallIsFree
<1>20. ASSUME Result PROVE Unbegun'
  BY <1>20 DEF Result, CallIsFree, GuardHolds, Fails, Stopping, CutOff, With, OnDisk
<1>21. ASSUME Durable PROVE Unbegun'
  BY <1>21 DEF Durable, Hangs, LetsGo, OnDisk, CallIsFree
<1>22. ASSUME SendDoubt PROVE Unbegun'
  BY <1>22 DEF SendDoubt, Sends, Request, With, OnDisk, CallIsFree
<1>23. ASSUME Journal PROVE Unbegun'
  BY <1>23 DEF Journal, GuardHolds, With
<1>24. ASSUME SendReport PROVE Unbegun'
  BY <1>24 DEF SendReport, GuardHolds, Sends, Request, With, OnDisk
<1>25. ASSUME Acknowledged PROVE Unbegun'
  BY <1>25 DEF Acknowledged, Hangs
<1>26. ASSUME ReportFails PROVE Unbegun'
  BY <1>26 DEF ReportFails, Fails, Stopping, CutOff, With, OnDisk
<1>27. ASSUME Exit PROVE Unbegun'
  BY <1>27 DEF Exit, Gone, Closes, With
<1>28. ASSUME Heartbeat PROVE Unbegun'
  BY <1>28 DEF Heartbeat, GuardHolds, Sends, Request, With, OnDisk, CallIsFree
<1>29. ASSUME Renewed PROVE Unbegun'
  BY <1>29 DEF Renewed, Answered, Renews, GuardHolds, Deadline, Hangs, OnDisk
<1>30. ASSUME BeatMissed PROVE Unbegun'
  BY <1>30 DEF BeatMissed, Answered, Hangs, OnDisk
<1>31. ASSUME BeatRefused PROVE Unbegun'
  BY <1>31 DEF BeatRefused, Fails, Stopping, CutOff, With, OnDisk
<1>32. ASSUME Watchdog PROVE Unbegun'
  BY <1>32 DEF Watchdog, Fails, Stopping, CutOff, With, OnDisk
<1>33. ASSUME StageTimeout PROVE Unbegun'
  BY <1>33 DEF StageTimeout, Fails, Stopping, CutOff, With, OnDisk
<1>34. ASSUME NEW r \in Reports, FillEnds(r) PROVE Unbegun'
  BY <1>34 DEF FillEnds, InStage, Ends
<1>35. ASSUME Begin PROVE Unbegun'
  BY <1>35 DEF Begin, InStage, Sends, Request, With, OnDisk
<1>36. ASSUME Advance PROVE Unbegun'
  BY <1>36 DEF Advance, InStage, GuardHolds, Hangs, OnDisk
<1>37. ASSUME BeginFails PROVE Unbegun'
  BY <1>37 DEF BeginFails, InStage, Ends, CutOff, With, OnDisk
<1>38. ASSUME Press PROVE Unbegun'
  BY <1>38 DEF Press, InStage
<1>39. ASSUME PressStopped PROVE Unbegun'
  BY <1>39 DEF PressStopped, InStage, Ends
<1>40. ASSUME Confirmed PROVE Unbegun'
  BY <1>40 DEF Confirmed, InStage, Closes
<1>41. ASSUME Unconfirmed PROVE Unbegun'
  BY <1>41 DEF Unconfirmed, InStage, Closes, Ends
<1>42. ASSUME SendReceipt PROVE Unbegun'
  BY <1>42 DEF SendReceipt, InStage, Sends, Request, OnDisk
<1>43. ASSUME ReceiptTaken PROVE Unbegun'
  BY <1>43 DEF ReceiptTaken, InStage, Ends, Hangs, OnDisk
<1>44. ASSUME KeepReceipt PROVE Unbegun'
  BY <1>44 DEF KeepReceipt, InStage, Ends, CutOff, With, OnDisk
<1>45. ASSUME Ask PROVE Unbegun'
  BY <1>45 DEF Ask
<1>46. ASSUME NEW b \in BOOLEAN, Accept(b) PROVE Unbegun'
  BY <1>46 DEF Accept
<1>47. ASSUME Stop PROVE Unbegun'
  BY <1>47 DEF Stop, CanFault, Fault, CutOff, With, OnDisk
<1>48. ASSUME Crash PROVE Unbegun'
  BY <1>48 DEF Crash, CanFault, Fault, Gone, Closes, With
<1>49. ASSUME Tick PROVE Unbegun'
  BY <1>49 DEF Tick, Due, Down, Expired, CallIsFree
<1>50. CASE UNCHANGED vars
  BY <1>50 DEF vars
<1> HIDE DEF Sequenced, CallOf, Unbegun
<1> QED
  BY <1>1, <1>2, <1>3, <1>4, <1>5, <1>6, <1>7, <1>8, <1>9, <1>10, <1>11, <1>12, <1>13, <1>14,
    <1>15, <1>16, <1>17, <1>18, <1>19, <1>20, <1>21, <1>22, <1>23, <1>24, <1>25, <1>26, <1>27,
    <1>28, <1>29, <1>30, <1>31, <1>32, <1>33, <1>34, <1>35, <1>36, <1>37, <1>38, <1>39, <1>40,
    <1>41, <1>42, <1>43, <1>44, <1>45, <1>46, <1>47, <1>48, <1>49, <1>50
  DEF ServerOnly, Next, ServerStep, Serve, NetworkStep, LoopStep, BeatStep, SubmitStep, StageStep

\* A stage that may press stays the first.
LEMMA FirstSenderStep ==
    ASSUME Inv, [Next]_vars
    PROVE  FirstSender'
<1> USE Numbers DEF Inv, TypeOK, Rows, Requests, Processes, Guards, Stages, Forms, Disks, Quiet,
  NoStage, NoLease, NoReport, ClosedForm, RowStates, Channels, Holders, Kinds, Working,
  Ambiguous, Decided, Replies, FirstSender, Begun, Answers, Sequenced, CallOf, Leased
<1>1. ASSUME NEW c \in Channels, ServePoll(c), ServerOnly PROVE FirstSender'
  BY <1>1, RowHas, AnswerFields, ReleasedRow, GrantedRow, SweptRow DEF ServerOnly, ServePoll,
    Asked, Expires, Matches, Refuses, Claimable, Moves, Stays, Ended
<1>2. ASSUME NEW c \in Channels, ServeHeartbeat(c), ServerOnly PROVE FirstSender'
  BY <1>2, RowHas, AnswerFields, ReleasedRow, GrantedRow, SweptRow DEF ServerOnly,
    ServeHeartbeat, Asked, Expires, Matches, Refuses, Claimable, Moves, Stays, Ended
<1>3. ASSUME NEW c \in Channels, ServeReport(c), ServerOnly PROVE FirstSender'
  BY <1>3, RowHas, AnswerFields, ReleasedRow, GrantedRow, SweptRow DEF ServerOnly, ServeReport,
    Asked, Expires, Matches, Refuses, Claimable, Moves, Stays, Ended
<1>4. ASSUME NEW c \in Channels, ServeDoubt(c), ServerOnly PROVE FirstSender'
  BY <1>4, RowHas, AnswerFields, ReleasedRow, GrantedRow, SweptRow DEF ServerOnly, ServeDoubt,
    Asked, Expires, Matches, Refuses, Claimable, Moves, Stays, Ended
<1>5. ASSUME NEW c \in Channels, ServeBegin(c), ServerOnly PROVE FirstSender'
  <2>1. CASE /\ row.state = "submitting" /\ c \in standing
             /\ Answer(c, "ok", "submitting", row.rev)
             /\ Stays(c) /\ UNCHANGED <<row, seen>>
    BY <1>5, <2>1, AnswerFields DEF ServerOnly, ServeBegin, Asked, Stays
  <2>2. CASE Refuses(c, "refused")
    BY <1>5, <2>2, AnswerFields DEF ServerOnly, ServeBegin, Asked, Refuses, Stays
  <2>3. CASE Expires(c)
    BY <1>5, <2>3, AnswerFields, ReleasedRow
    DEF ServerOnly, ServeBegin, Asked, Expires, Matches, Moves, Ended
  <2>4. CASE Refuses(c, "lost")
    BY <1>5, <2>4, AnswerFields DEF ServerOnly, ServeBegin, Asked, Refuses, Stays
  <2>5. CASE /\ row.state = "ready" /\ Matches(c) /\ row.left > 0
             /\ row' = [row EXCEPT !.state = "submitting", !.rev = 1, !.age = 0]
             /\ Answer(c, "ok", "submitting", 1)
             /\ Stays(c) /\ UNCHANGED seen
    BY <1>5, <2>5, AnswerFields, WrittenFields
    DEF ServerOnly, ServeBegin, Asked, Matches, Stays
  <2> QED
    BY <1>5, <2>1, <2>2, <2>3, <2>4, <2>5 DEF ServeBegin
<1>6. ASSUME NEW c \in Channels, ServeReceipt(c), ServerOnly PROVE FirstSender'
  <2>1. CASE \E reply \in {"ok", "refused", "lost"} : Refuses(c, reply)
    BY <1>6, <2>1, AnswerFields DEF ServerOnly, ServeReceipt, Asked, Refuses, Stays
  <2>2. CASE /\ row.state \in Ambiguous /\ row.leased /\ row.left = 0
             /\ row' = Released(row)
             /\ Moves(c, FALSE) /\ Answer(c, "lost", "none", 0) /\ UNCHANGED seen
    BY <1>6, <2>2, AnswerFields, ReleasedRow
    DEF ServerOnly, ServeReceipt, Asked, Moves, Ended
  <2>3. CASE /\ row.state \in Ambiguous /\ row.leased /\ row.left > 0
             /\ row' = [Released(row) EXCEPT !.state = "submitted", !.age = 0]
             /\ Moves(c, FALSE) /\ Answer(c, "ok", "none", 0) /\ UNCHANGED seen
    BY <1>6, <2>3, AnswerFields, WrittenFields DEF ServerOnly, ServeReceipt, Asked, Moves
  <2> QED
    BY <1>6, <2>1, <2>2, <2>3 DEF ServeReceipt
<1>7. ASSUME NEW s \in Working, GoOn(s) PROVE FirstSender'
  BY <1>7 DEF GoOn, ByApplicant
<1>8. ASSUME EndLease PROVE FirstSender'
  BY <1>8 DEF EndLease, ByApplicant, Released
<1>9. ASSUME NEW s \in {"confirmed", "refuted"}, Decide(s) PROVE FirstSender'
  BY <1>9 DEF Decide, ByApplicant, Released, WindowClosed
<1>10. ASSUME NEW c \in Channels, Lose(c) PROVE FirstSender'
  BY <1>10 DEF Lose, CanFault, Waiting, Fault, Stays, OnNetwork
<1>11. ASSUME NEW c \in Channels, Delay(c) PROVE FirstSender'
  BY <1>11 DEF Delay, CanFault, Waiting, Fault, OnNetwork
<1>12. ASSUME NEW c \in Channels, Resend(c) PROVE FirstSender'
  BY <1>12 DEF Resend, OnNetwork
<1>13. ASSUME Start PROVE FirstSender'
  BY <1>13 DEF Start, Sends, Request, With, OnDisk
<1>14. ASSUME Recovered PROVE FirstSender'
  BY <1>14 DEF Recovered, Hangs
<1>15. ASSUME RecoveryFails PROVE FirstSender'
  BY <1>15 DEF RecoveryFails, Fails, Stopping, CutOff, With, OnDisk
<1>16. ASSUME Poll PROVE FirstSender'
  BY <1>16 DEF Poll, Sends, Request, OnDisk, CallIsFree
<1>17. ASSUME Polled PROVE FirstSender'
  <2>1. CASE net["call"].reply = "leased" /\ net["call"].state \notin Ambiguous
    <3>1. stage'.at = "fill" /\ stage'.result = "none"
      BY <1>17, <2>1 DEF Polled
    <3>2. "held" \in standing' => "call" \in standing
      BY <1>17, <2>1 DEF Polled, With
    <3>3. net'["ask"] = net["ask"] /\ net'["late"] = net["late"]
      BY <1>17 DEF Polled, Hangs
    <3>4. UNCHANGED <<row, form>> /\ standing' \subseteq standing \union {"held"}
      BY <1>17, <2>1 DEF Polled, With, OnDisk
    <3>5. "ask" \notin standing'
      BY <1>17, <2>1 DEF Polled, With
    <3> QED
      BY <1>17, <2>1, <3>1, <3>2, <3>3, <3>4, <3>5 DEF Polled
  <2>2. CASE ~(net["call"].reply = "leased" /\ net["call"].state \notin Ambiguous)
    <3>1. stage = NoStage /\ held = NoLease
      BY <1>17 DEF Polled
    <3>2. UNCHANGED <<row, form, stage>> /\ net'["ask"] = net["ask"]
      BY <1>17, <2>2 DEF Polled, Hangs, OnDisk
    <3> QED
      BY <3>1, <3>2
  <2> QED
    BY <2>1, <2>2
<1>18. ASSUME SendKept PROVE FirstSender'
  BY <1>18 DEF SendKept, Sends, Request, GuardHolds, OnDisk, CallIsFree
<1>19. ASSUME Reconciled PROVE FirstSender'
  BY <1>19 DEF Reconciled, Answered, Hangs, LetsGo, OnDisk, CallIsFree
<1>20. ASSUME Result PROVE FirstSender'
  BY <1>20 DEF Result, CallIsFree, GuardHolds, Fails, Stopping, CutOff, With, OnDisk
<1>21. ASSUME Durable PROVE FirstSender'
  BY <1>21 DEF Durable, Hangs, LetsGo, OnDisk, CallIsFree
<1>22. ASSUME SendDoubt PROVE FirstSender'
  BY <1>22 DEF SendDoubt, Sends, Request, With, OnDisk, CallIsFree
<1>23. ASSUME Journal PROVE FirstSender'
  BY <1>23 DEF Journal, GuardHolds, With
<1>24. ASSUME SendReport PROVE FirstSender'
  BY <1>24 DEF SendReport, GuardHolds, Sends, Request, With, OnDisk
<1>25. ASSUME Acknowledged PROVE FirstSender'
  BY <1>25 DEF Acknowledged, Hangs
<1>26. ASSUME ReportFails PROVE FirstSender'
  BY <1>26 DEF ReportFails, Fails, Stopping, CutOff, With, OnDisk
<1>27. ASSUME Exit PROVE FirstSender'
  BY <1>27 DEF Exit, Gone, Closes, With
<1>28. ASSUME Heartbeat PROVE FirstSender'
  BY <1>28 DEF Heartbeat, GuardHolds, Sends, Request, With, OnDisk, CallIsFree
<1>29. ASSUME Renewed PROVE FirstSender'
  BY <1>29 DEF Renewed, Answered, Renews, GuardHolds, Deadline, Hangs, OnDisk
<1>30. ASSUME BeatMissed PROVE FirstSender'
  BY <1>30 DEF BeatMissed, Answered, Hangs, OnDisk
<1>31. ASSUME BeatRefused PROVE FirstSender'
  BY <1>31 DEF BeatRefused, Fails, Stopping, CutOff, With, OnDisk
<1>32. ASSUME Watchdog PROVE FirstSender'
  BY <1>32 DEF Watchdog, Fails, Stopping, CutOff, With, OnDisk
<1>33. ASSUME StageTimeout PROVE FirstSender'
  BY <1>33 DEF StageTimeout, Fails, Stopping, CutOff, With, OnDisk
<1>34. ASSUME NEW r \in Reports, FillEnds(r) PROVE FirstSender'
  BY <1>34 DEF FillEnds, InStage, Ends
<1>35. ASSUME Begin PROVE FirstSender'
  BY <1>35 DEF Begin, InStage, Sends, Request, With, OnDisk
<1>36. ASSUME Advance PROVE FirstSender'
  BY <1>36 DEF Advance, InStage, GuardHolds, Hangs, OnDisk
<1>37. ASSUME BeginFails PROVE FirstSender'
  BY <1>37 DEF BeginFails, InStage, Ends, CutOff, With, OnDisk
<1>38. ASSUME Press PROVE FirstSender'
  BY <1>38 DEF Press, InStage
<1>39. ASSUME PressStopped PROVE FirstSender'
  BY <1>39 DEF PressStopped, InStage, Ends
<1>40. ASSUME Confirmed PROVE FirstSender'
  BY <1>40 DEF Confirmed, InStage, Closes
<1>41. ASSUME Unconfirmed PROVE FirstSender'
  BY <1>41 DEF Unconfirmed, InStage, Closes, Ends
<1>42. ASSUME SendReceipt PROVE FirstSender'
  BY <1>42 DEF SendReceipt, InStage, Sends, Request, OnDisk
<1>43. ASSUME ReceiptTaken PROVE FirstSender'
  BY <1>43 DEF ReceiptTaken, InStage, Ends, Hangs, OnDisk
<1>44. ASSUME KeepReceipt PROVE FirstSender'
  BY <1>44 DEF KeepReceipt, InStage, Ends, CutOff, With, OnDisk
<1>45. ASSUME Ask PROVE FirstSender'
  BY <1>45 DEF Ask
<1>46. ASSUME NEW b \in BOOLEAN, Accept(b) PROVE FirstSender'
  BY <1>46 DEF Accept
<1>47. ASSUME Stop PROVE FirstSender'
  BY <1>47 DEF Stop, CanFault, Fault, CutOff, With, OnDisk
<1>48. ASSUME Crash PROVE FirstSender'
  BY <1>48 DEF Crash, CanFault, Fault, Gone, Closes, With
<1>49. ASSUME Tick PROVE FirstSender'
  BY <1>49 DEF Tick, Due, Down, Expired, CallIsFree
<1>50. CASE UNCHANGED vars
  BY <1>50 DEF vars
<1> HIDE DEF Sequenced, CallOf, FirstSender
<1> QED
  BY <1>1, <1>2, <1>3, <1>4, <1>5, <1>6, <1>7, <1>8, <1>9, <1>10, <1>11, <1>12, <1>13, <1>14,
    <1>15, <1>16, <1>17, <1>18, <1>19, <1>20, <1>21, <1>22, <1>23, <1>24, <1>25, <1>26, <1>27,
    <1>28, <1>29, <1>30, <1>31, <1>32, <1>33, <1>34, <1>35, <1>36, <1>37, <1>38, <1>39, <1>40,
    <1>41, <1>42, <1>43, <1>44, <1>45, <1>46, <1>47, <1>48, <1>49, <1>50
  DEF ServerOnly, Next, ServerStep, Serve, NetworkStep, LoopStep, BeatStep, SubmitStep, StageStep

\* The form's window stays within the server's.
LEMMA WindowsStep ==
    ASSUME Inv, [Next]_vars
    PROVE  Windows'
<1> USE Numbers DEF Inv, TypeOK, Rows, Requests, Processes, Guards, Stages, Forms, Disks, Quiet,
  NoStage, NoLease, NoReport, ClosedForm, RowStates, Channels, Holders, Kinds, Working,
  Ambiguous, Decided, Replies, Windows, Begun, Answers, Sequenced, CallOf, Leased, Unbegun,
  FirstSender
<1>1. ASSUME NEW c \in Channels, ServePoll(c), ServerOnly PROVE Windows'
  BY <1>1, RowHas, AnswerFields, ReleasedRow, GrantedRow, SweptRow DEF ServerOnly, ServePoll,
    Asked, Expires, Matches, Refuses, Claimable, Moves, Stays, Ended
<1>2. ASSUME NEW c \in Channels, ServeHeartbeat(c), ServerOnly PROVE Windows'
  BY <1>2, RowHas, AnswerFields, ReleasedRow, GrantedRow, SweptRow DEF ServerOnly,
    ServeHeartbeat, Asked, Expires, Matches, Refuses, Claimable, Moves, Stays, Ended
<1>3. ASSUME NEW c \in Channels, ServeReport(c), ServerOnly PROVE Windows'
  BY <1>3, RowHas, AnswerFields, ReleasedRow, GrantedRow, SweptRow DEF ServerOnly, ServeReport,
    Asked, Expires, Matches, Refuses, Claimable, Moves, Stays, Ended
<1>4. ASSUME NEW c \in Channels, ServeDoubt(c), ServerOnly PROVE Windows'
  BY <1>4, RowHas, AnswerFields, ReleasedRow, GrantedRow, SweptRow DEF ServerOnly, ServeDoubt,
    Asked, Expires, Matches, Refuses, Claimable, Moves, Stays, Ended
<1>5. ASSUME NEW c \in Channels, ServeBegin(c), ServerOnly PROVE Windows'
  <2>1. CASE /\ row.state = "submitting" /\ c \in standing
             /\ Answer(c, "ok", "submitting", row.rev)
             /\ Stays(c) /\ UNCHANGED <<row, seen>>
    BY <1>5, <2>1, AnswerFields DEF ServerOnly, ServeBegin, Asked, Stays
  <2>2. CASE Refuses(c, "refused")
    BY <1>5, <2>2, AnswerFields DEF ServerOnly, ServeBegin, Asked, Refuses, Stays
  <2>3. CASE Expires(c)
    BY <1>5, <2>3, AnswerFields, ReleasedRow
    DEF ServerOnly, ServeBegin, Asked, Expires, Matches, Moves, Ended
  <2>4. CASE Refuses(c, "lost")
    BY <1>5, <2>4, AnswerFields DEF ServerOnly, ServeBegin, Asked, Refuses, Stays
  <2>5. CASE /\ row.state = "ready" /\ Matches(c) /\ row.left > 0
             /\ row' = [row EXCEPT !.state = "submitting", !.rev = 1, !.age = 0]
             /\ Answer(c, "ok", "submitting", 1)
             /\ Stays(c) /\ UNCHANGED seen
    BY <1>5, <2>5, AnswerFields, WrittenFields
    DEF ServerOnly, ServeBegin, Asked, Matches, Stays
  <2> QED
    BY <1>5, <2>1, <2>2, <2>3, <2>4, <2>5 DEF ServeBegin
<1>6. ASSUME NEW c \in Channels, ServeReceipt(c), ServerOnly PROVE Windows'
  <2>1. CASE \E reply \in {"ok", "refused", "lost"} : Refuses(c, reply)
    BY <1>6, <2>1, AnswerFields DEF ServerOnly, ServeReceipt, Asked, Refuses, Stays
  <2>2. CASE /\ row.state \in Ambiguous /\ row.leased /\ row.left = 0
             /\ row' = Released(row)
             /\ Moves(c, FALSE) /\ Answer(c, "lost", "none", 0) /\ UNCHANGED seen
    BY <1>6, <2>2, AnswerFields, ReleasedRow
    DEF ServerOnly, ServeReceipt, Asked, Moves, Ended
  <2>3. CASE /\ row.state \in Ambiguous /\ row.leased /\ row.left > 0
             /\ row' = [Released(row) EXCEPT !.state = "submitted", !.age = 0]
             /\ Moves(c, FALSE) /\ Answer(c, "ok", "none", 0) /\ UNCHANGED seen
    BY <1>6, <2>3, AnswerFields, WrittenFields DEF ServerOnly, ServeReceipt, Asked, Moves
  <2> QED
    BY <1>6, <2>1, <2>2, <2>3 DEF ServeReceipt
<1>7. ASSUME NEW s \in Working, GoOn(s) PROVE Windows'
  BY <1>7 DEF GoOn, ByApplicant
<1>8. ASSUME EndLease PROVE Windows'
  BY <1>8 DEF EndLease, ByApplicant, Released
<1>9. ASSUME NEW s \in {"confirmed", "refuted"}, Decide(s) PROVE Windows'
  BY <1>9 DEF Decide, ByApplicant, Released, WindowClosed
<1>10. ASSUME NEW c \in Channels, Lose(c) PROVE Windows'
  BY <1>10 DEF Lose, CanFault, Waiting, Fault, Stays, OnNetwork
<1>11. ASSUME NEW c \in Channels, Delay(c) PROVE Windows'
  BY <1>11 DEF Delay, CanFault, Waiting, Fault, OnNetwork
<1>12. ASSUME NEW c \in Channels, Resend(c) PROVE Windows'
  BY <1>12 DEF Resend, OnNetwork
<1>13. ASSUME Start PROVE Windows'
  BY <1>13 DEF Start, Sends, Request, With, OnDisk
<1>14. ASSUME Recovered PROVE Windows'
  BY <1>14 DEF Recovered, Hangs
<1>15. ASSUME RecoveryFails PROVE Windows'
  BY <1>15 DEF RecoveryFails, Fails, Stopping, CutOff, With, OnDisk
<1>16. ASSUME Poll PROVE Windows'
  BY <1>16 DEF Poll, Sends, Request, OnDisk, CallIsFree
<1>17. ASSUME Polled PROVE Windows'
  BY <1>17 DEF Polled, Hangs, Deadline, With, OnDisk
<1>18. ASSUME SendKept PROVE Windows'
  BY <1>18 DEF SendKept, Sends, Request, GuardHolds, OnDisk, CallIsFree
<1>19. ASSUME Reconciled PROVE Windows'
  BY <1>19 DEF Reconciled, Answered, Hangs, LetsGo, OnDisk, CallIsFree
<1>20. ASSUME Result PROVE Windows'
  BY <1>20 DEF Result, CallIsFree, GuardHolds, Fails, Stopping, CutOff, With, OnDisk
<1>21. ASSUME Durable PROVE Windows'
  BY <1>21 DEF Durable, Hangs, LetsGo, OnDisk, CallIsFree
<1>22. ASSUME SendDoubt PROVE Windows'
  BY <1>22 DEF SendDoubt, Sends, Request, With, OnDisk, CallIsFree
<1>23. ASSUME Journal PROVE Windows'
  BY <1>23 DEF Journal, GuardHolds, With
<1>24. ASSUME SendReport PROVE Windows'
  BY <1>24 DEF SendReport, GuardHolds, Sends, Request, With, OnDisk
<1>25. ASSUME Acknowledged PROVE Windows'
  BY <1>25 DEF Acknowledged, Hangs
<1>26. ASSUME ReportFails PROVE Windows'
  BY <1>26 DEF ReportFails, Fails, Stopping, CutOff, With, OnDisk
<1>27. ASSUME Exit PROVE Windows'
  BY <1>27 DEF Exit, Gone, Closes, With
<1>28. ASSUME Heartbeat PROVE Windows'
  BY <1>28 DEF Heartbeat, GuardHolds, Sends, Request, With, OnDisk, CallIsFree
<1>29. ASSUME Renewed PROVE Windows'
  BY <1>29 DEF Renewed, Answered, Renews, GuardHolds, Deadline, Hangs, OnDisk
<1>30. ASSUME BeatMissed PROVE Windows'
  BY <1>30 DEF BeatMissed, Answered, Hangs, OnDisk
<1>31. ASSUME BeatRefused PROVE Windows'
  BY <1>31 DEF BeatRefused, Fails, Stopping, CutOff, With, OnDisk
<1>32. ASSUME Watchdog PROVE Windows'
  BY <1>32 DEF Watchdog, Fails, Stopping, CutOff, With, OnDisk
<1>33. ASSUME StageTimeout PROVE Windows'
  BY <1>33 DEF StageTimeout, Fails, Stopping, CutOff, With, OnDisk
<1>34. ASSUME NEW r \in Reports, FillEnds(r) PROVE Windows'
  BY <1>34 DEF FillEnds, InStage, Ends
<1>35. ASSUME Begin PROVE Windows'
  BY <1>35 DEF Begin, InStage, Sends, Request, With, OnDisk
<1>36. ASSUME Advance PROVE Windows'
  BY <1>36 DEF Advance, InStage, GuardHolds, Hangs, OnDisk
<1>37. ASSUME BeginFails PROVE Windows'
  BY <1>37 DEF BeginFails, InStage, Ends, CutOff, With, OnDisk
<1>38. ASSUME Press PROVE Windows'
  BY <1>38 DEF Press, InStage
<1>39. ASSUME PressStopped PROVE Windows'
  BY <1>39 DEF PressStopped, InStage, Ends
<1>40. ASSUME Confirmed PROVE Windows'
  BY <1>40 DEF Confirmed, InStage, Closes
<1>41. ASSUME Unconfirmed PROVE Windows'
  BY <1>41 DEF Unconfirmed, InStage, Closes, Ends
<1>42. ASSUME SendReceipt PROVE Windows'
  BY <1>42 DEF SendReceipt, InStage, Sends, Request, OnDisk
<1>43. ASSUME ReceiptTaken PROVE Windows'
  BY <1>43 DEF ReceiptTaken, InStage, Ends, Hangs, OnDisk
<1>44. ASSUME KeepReceipt PROVE Windows'
  BY <1>44 DEF KeepReceipt, InStage, Ends, CutOff, With, OnDisk
<1>45. ASSUME Ask PROVE Windows'
  BY <1>45 DEF Ask
<1>46. ASSUME NEW b \in BOOLEAN, Accept(b) PROVE Windows'
  BY <1>46 DEF Accept
<1>47. ASSUME Stop PROVE Windows'
  BY <1>47 DEF Stop, CanFault, Fault, CutOff, With, OnDisk
<1>48. ASSUME Crash PROVE Windows'
  BY <1>48 DEF Crash, CanFault, Fault, Gone, Closes, With
<1>49. ASSUME Tick PROVE Windows'
  BY <1>49 DEF Tick, Due, Down, Expired, CallIsFree
<1>50. CASE UNCHANGED vars
  BY <1>50 DEF vars
<1> HIDE DEF Sequenced, CallOf, Windows
<1> QED
  BY <1>1, <1>2, <1>3, <1>4, <1>5, <1>6, <1>7, <1>8, <1>9, <1>10, <1>11, <1>12, <1>13, <1>14,
    <1>15, <1>16, <1>17, <1>18, <1>19, <1>20, <1>21, <1>22, <1>23, <1>24, <1>25, <1>26, <1>27,
    <1>28, <1>29, <1>30, <1>31, <1>32, <1>33, <1>34, <1>35, <1>36, <1>37, <1>38, <1>39, <1>40,
    <1>41, <1>42, <1>43, <1>44, <1>45, <1>46, <1>47, <1>48, <1>49, <1>50
  DEF ServerOnly, Next, ServerStep, Serve, NetworkStep, LoopStep, BeatStep, SubmitStep, StageStep

\* A report on disk stays one the server can still take.
LEMMA ReportedStep ==
    ASSUME Inv, [Next]_vars
    PROVE  Reported'
<1> USE Numbers DEF Inv, TypeOK, Rows, Requests, Processes, Guards, Stages, Forms, Disks, Quiet,
  NoStage, NoLease, NoReport, ClosedForm, RowStates, Channels, Holders, Kinds, Working,
  Ambiguous, Decided, Replies, Reported, Sequenced, CallOf, Leased, Unbegun
<1>1. ASSUME NEW c \in Channels, ServePoll(c), ServerOnly PROVE Reported'
  BY <1>1, RowHas, AnswerFields, ReleasedRow, GrantedRow, SweptRow DEF ServerOnly, ServePoll,
    Asked, Expires, Matches, Refuses, Claimable, Moves, Stays, Ended
<1>2. ASSUME NEW c \in Channels, ServeHeartbeat(c), ServerOnly PROVE Reported'
  BY <1>2, RowHas, AnswerFields, ReleasedRow, GrantedRow, SweptRow DEF ServerOnly,
    ServeHeartbeat, Asked, Expires, Matches, Refuses, Claimable, Moves, Stays, Ended
<1>3. ASSUME NEW c \in Channels, ServeReport(c), ServerOnly PROVE Reported'
  BY <1>3, RowHas, AnswerFields, ReleasedRow, GrantedRow, SweptRow DEF ServerOnly, ServeReport,
    Asked, Expires, Matches, Refuses, Claimable, Moves, Stays, Ended
<1>4. ASSUME NEW c \in Channels, ServeDoubt(c), ServerOnly PROVE Reported'
  BY <1>4, RowHas, AnswerFields, ReleasedRow, GrantedRow, SweptRow DEF ServerOnly, ServeDoubt,
    Asked, Expires, Matches, Refuses, Claimable, Moves, Stays, Ended
<1>5. ASSUME NEW c \in Channels, ServeBegin(c), ServerOnly PROVE Reported'
  BY <1>5, RowHas, AnswerFields, ReleasedRow, GrantedRow, SweptRow DEF ServerOnly, ServeBegin,
    Asked, Expires, Matches, Refuses, Claimable, Moves, Stays, Ended
<1>6. ASSUME NEW c \in Channels, ServeReceipt(c), ServerOnly PROVE Reported'
  BY <1>6, RowHas, AnswerFields, ReleasedRow, GrantedRow, SweptRow DEF ServerOnly, ServeReceipt,
    Asked, Expires, Matches, Refuses, Claimable, Moves, Stays, Ended
<1>7. ASSUME NEW s \in Working, GoOn(s) PROVE Reported'
  BY <1>7 DEF GoOn, ByApplicant
<1>8. ASSUME EndLease PROVE Reported'
  BY <1>8 DEF EndLease, ByApplicant, Released
<1>9. ASSUME NEW s \in {"confirmed", "refuted"}, Decide(s) PROVE Reported'
  BY <1>9 DEF Decide, ByApplicant, Released, WindowClosed
<1>10. ASSUME NEW c \in Channels, Lose(c) PROVE Reported'
  BY <1>10 DEF Lose, CanFault, Waiting, Fault, Stays, OnNetwork
<1>11. ASSUME NEW c \in Channels, Delay(c) PROVE Reported'
  BY <1>11 DEF Delay, CanFault, Waiting, Fault, OnNetwork
<1>12. ASSUME NEW c \in Channels, Resend(c) PROVE Reported'
  BY <1>12 DEF Resend, OnNetwork
<1>13. ASSUME Start PROVE Reported'
  <2>1. CASE disk.pending = NoReport
    BY <1>13, <2>1 DEF Start, OnDisk
  <2>2. CASE disk.pending # NoReport
    <3>1. /\ Sends("call", Request(disk.pending.kind, 0, disk.pending.to))
          /\ standing' = With("call", "pending") /\ proc'.phase = "recover"
          /\ ~proc'.aborted /\ proc.phase = "down"
          /\ UNCHANGED <<row, seen, held, stage, form, disk>>
      BY <1>13, <2>2 DEF Start, OnDisk
    <3>2. disk.pending.kind \in {"event", "questions"}
      BY <2>2
    <3> QED
      BY <2>2, <3>1, <3>2, Sent DEF With
  <2> QED
    BY <2>1, <2>2
<1>14. ASSUME Recovered PROVE Reported'
  BY <1>14 DEF Recovered, Hangs
<1>15. ASSUME RecoveryFails PROVE Reported'
  BY <1>15 DEF RecoveryFails, Fails, Stopping, CutOff, With, OnDisk
<1>16. ASSUME Poll PROVE Reported'
  BY <1>16 DEF Poll, Sends, Request, OnDisk, CallIsFree
<1>17. ASSUME Polled PROVE Reported'
  BY <1>17 DEF Polled, Hangs, Deadline, With, OnDisk
<1>18. ASSUME SendKept PROVE Reported'
  BY <1>18 DEF SendKept, Sends, Request, GuardHolds, OnDisk, CallIsFree
<1>19. ASSUME Reconciled PROVE Reported'
  BY <1>19 DEF Reconciled, Answered, Hangs, LetsGo, OnDisk, CallIsFree
<1>20. ASSUME Result PROVE Reported'
  BY <1>20 DEF Result, CallIsFree, GuardHolds, Fails, Stopping, CutOff, With, OnDisk
<1>21. ASSUME Durable PROVE Reported'
  BY <1>21 DEF Durable, Hangs, LetsGo, OnDisk, CallIsFree
<1>22. ASSUME SendDoubt PROVE Reported'
  BY <1>22 DEF SendDoubt, Sends, Request, With, OnDisk, CallIsFree
<1>23. ASSUME Journal PROVE Reported'
  BY <1>23 DEF Journal, GuardHolds, With
<1>24. ASSUME SendReport PROVE Reported'
  BY <1>24 DEF SendReport, GuardHolds, Sends, Request, With, OnDisk
<1>25. ASSUME Acknowledged PROVE Reported'
  BY <1>25 DEF Acknowledged, Hangs
<1>26. ASSUME ReportFails PROVE Reported'
  BY <1>26 DEF ReportFails, Fails, Stopping, CutOff, With, OnDisk
<1>27. ASSUME Exit PROVE Reported'
  BY <1>27 DEF Exit, Gone, Closes, With
<1>28. ASSUME Heartbeat PROVE Reported'
  BY <1>28 DEF Heartbeat, GuardHolds, Sends, Request, With, OnDisk, CallIsFree
<1>29. ASSUME Renewed PROVE Reported'
  BY <1>29 DEF Renewed, Answered, Renews, GuardHolds, Deadline, Hangs, OnDisk
<1>30. ASSUME BeatMissed PROVE Reported'
  BY <1>30 DEF BeatMissed, Answered, Hangs, OnDisk
<1>31. ASSUME BeatRefused PROVE Reported'
  BY <1>31 DEF BeatRefused, Fails, Stopping, CutOff, With, OnDisk
<1>32. ASSUME Watchdog PROVE Reported'
  BY <1>32 DEF Watchdog, Fails, Stopping, CutOff, With, OnDisk
<1>33. ASSUME StageTimeout PROVE Reported'
  BY <1>33 DEF StageTimeout, Fails, Stopping, CutOff, With, OnDisk
<1>34. ASSUME NEW r \in Reports, FillEnds(r) PROVE Reported'
  BY <1>34 DEF FillEnds, InStage, Ends
<1>35. ASSUME Begin PROVE Reported'
  BY <1>35 DEF Begin, InStage, Sends, Request, With, OnDisk
<1>36. ASSUME Advance PROVE Reported'
  BY <1>36 DEF Advance, InStage, GuardHolds, Hangs, OnDisk
<1>37. ASSUME BeginFails PROVE Reported'
  BY <1>37 DEF BeginFails, InStage, Ends, CutOff, With, OnDisk
<1>38. ASSUME Press PROVE Reported'
  BY <1>38 DEF Press, InStage
<1>39. ASSUME PressStopped PROVE Reported'
  BY <1>39 DEF PressStopped, InStage, Ends
<1>40. ASSUME Confirmed PROVE Reported'
  BY <1>40 DEF Confirmed, InStage, Closes
<1>41. ASSUME Unconfirmed PROVE Reported'
  BY <1>41 DEF Unconfirmed, InStage, Closes, Ends
<1>42. ASSUME SendReceipt PROVE Reported'
  BY <1>42 DEF SendReceipt, InStage, Sends, Request, OnDisk
<1>43. ASSUME ReceiptTaken PROVE Reported'
  BY <1>43 DEF ReceiptTaken, InStage, Ends, Hangs, OnDisk
<1>44. ASSUME KeepReceipt PROVE Reported'
  BY <1>44 DEF KeepReceipt, InStage, Ends, CutOff, With, OnDisk
<1>45. ASSUME Ask PROVE Reported'
  BY <1>45 DEF Ask
<1>46. ASSUME NEW b \in BOOLEAN, Accept(b) PROVE Reported'
  BY <1>46 DEF Accept
<1>47. ASSUME Stop PROVE Reported'
  BY <1>47 DEF Stop, CanFault, Fault, CutOff, With, OnDisk
<1>48. ASSUME Crash PROVE Reported'
  BY <1>48 DEF Crash, CanFault, Fault, Gone, Closes, With
<1>49. ASSUME Tick PROVE Reported'
  BY <1>49 DEF Tick, Due, Down, Expired, CallIsFree
<1>50. CASE UNCHANGED vars
  BY <1>50 DEF vars
<1> HIDE DEF Sequenced, CallOf, Reported
<1> QED
  BY <1>1, <1>2, <1>3, <1>4, <1>5, <1>6, <1>7, <1>8, <1>9, <1>10, <1>11, <1>12, <1>13, <1>14,
    <1>15, <1>16, <1>17, <1>18, <1>19, <1>20, <1>21, <1>22, <1>23, <1>24, <1>25, <1>26, <1>27,
    <1>28, <1>29, <1>30, <1>31, <1>32, <1>33, <1>34, <1>35, <1>36, <1>37, <1>38, <1>39, <1>40,
    <1>41, <1>42, <1>43, <1>44, <1>45, <1>46, <1>47, <1>48, <1>49, <1>50
  DEF ServerOnly, Next, ServerStep, Serve, NetworkStep, LoopStep, BeatStep, SubmitStep, StageStep

-----------------------------------------------------------------------------
(* The theorems.                                                           *)

LEMMA InvStep == Inv /\ [Next]_vars => Inv'
BY TypeStep, SequencedStep, LeasedStep, UnbegunStep, FirstSenderStep, WindowsStep, ReportedStep
DEF Inv

LEMMA InvInit == Init => Inv
<1> SUFFICES ASSUME Init PROVE Inv
  OBVIOUS
<1>1. TypeOK
  <2>1. row \in Rows
    BY Numbers, Values DEF Init, Rows
  <2>2. net \in [Channels -> Requests]
    BY QuietIsRequest DEF Init
  <2>3. proc \in Processes
    BY Numbers DEF Init, Processes
  <2>4. held \in Guards /\ stage \in Stages
    <3>1. NoLease \in Guards
      BY Numbers DEF Guards, NoLease
    <3>2. NoStage \in Stages
      BY Numbers DEF Stages, NoStage
    <3> QED
      BY <3>1, <3>2 DEF Init
  <2>5. form \in Forms
    BY DEF Init, Forms, ClosedForm
  <2>6. disk \in Disks
    BY Numbers DEF Init, Disks
  <2>7. standing \subseteq Holders /\ seen \in BOOLEAN
    BY DEF Init
  <2>8. spent \in [faults : 0..MaxFaults, commands : 0..MaxCommands]
    BY Numbers DEF Init
  <2> QED
    BY <2>1, <2>2, <2>3, <2>4, <2>5, <2>6, <2>7, <2>8 DEF TypeOK
<1>2. Sequenced
  BY Values DEF Init, Sequenced, CallOf, NoStage, NoLease, ClosedForm, Quiet
<1>3. Leased /\ Unbegun
  BY Values DEF Init, Leased, Unbegun, NoStage, NoLease, Quiet
<1>4. FirstSender /\ Windows
  BY Values DEF Init, FirstSender, Windows, Answers, Begun, NoStage, ClosedForm, Quiet
<1>5. Reported
  BY DEF Init, Reported
<1> QED
  BY <1>1, <1>2, <1>3, <1>4, <1>5 DEF Inv

THEOREM Invariance == Spec => []Inv
<1>1. Init => Inv
  BY InvInit
<1>2. Inv /\ [Next]_vars => Inv'
  BY InvStep
<1> QED
  BY <1>1, <1>2, PTL DEF Spec

\* Every variable of the session keeps its type, whatever is lost or late.
THEOREM TypeCorrect == Spec => []TypeOK
<1>1. Inv => TypeOK
  BY DEF Inv
<1> QED
  BY <1>1, Invariance, PTL

\* The employer's form is sent by one stage at most, over every restart,
\* whatever became of the intent's answer and of the receipt (runtime.ts,
\* transport.ts): a second stage would need the fence of a row still at work.
THEOREM SentOnce == Spec => []OneSender
<1>1. Inv => OneSender
  BY DEF Inv, FirstSender, OneSender
<1> QED
  BY <1>1, Invariance, PTL

\* No window is open at the employer's form once the applicant could say that
\* it was not submitted: the window of the server outlasts the adapter's wait
\* by the lease in which the intent was answered and the form pressed.
THEOREM RefutedForGood == Spec => []NothingSentAfterRefuted
<1>1. Inv => NothingSentAfterRefuted
  BY Numbers DEF Inv, Sequenced, Windows, NothingSentAfterRefuted
<1> QED
  BY <1>1, Invariance, PTL

\* A guard that holds stands for a lease the server has for at least as long,
\* unless the server took it back: the deadline counts from the request.
THEOREM GuardsAreShort == Spec => []GuardWithinLease
<1>1. Inv => GuardWithinLease
  <2> SUFFICES ASSUME Inv, "held" \in standing PROVE row.leased /\ row.left >= held.left
    BY DEF GuardWithinLease
  <2> QED
    BY DEF Inv, Leased
<1> QED
  BY <1>1, Invariance, PTL

\* Only three steps of the loop write the journal.
LEMMA JournalWrites ==
    ASSUME TypeOK, [Next]_vars, disk'.pending # disk.pending
    PROVE  Recovered \/ Acknowledged \/ Journal
<1>1. ASSUME ServerOnly \/ Tick \/ UNCHANGED vars PROVE FALSE
  BY <1>1 DEF ServerOnly, Tick, vars
<1>2. ASSUME NEW s \in RowStates, GoOn(s) \/ EndLease \/ Decide(s) PROVE FALSE
  BY <1>2 DEF GoOn, EndLease, Decide, ByApplicant
<1>3. ASSUME NetworkStep PROVE FALSE
  BY <1>3 DEF NetworkStep, Lose, Delay, Resend, OnNetwork
<1>4. ASSUME Fails PROVE FALSE
  BY <1>4 DEF Fails, Stopping
<1>5. ASSUME Start \/ Poll \/ Polled \/ SendKept \/ Durable \/ SendDoubt \/ SendReport PROVE FALSE
  BY <1>5 DEF Start, Poll, Polled, SendKept, Durable, SendDoubt, SendReport
<1>6. ASSUME Reconciled \/ Result \/ KeepReceipt PROVE FALSE
  <2>1. \A kept \in BOOLEAN, n \in Nat : /\ [disk EXCEPT !.receipt = kept].pending = disk.pending
                                         /\ [disk EXCEPT !.streak = n].pending = disk.pending
    BY DEF TypeOK, Disks
  <2> QED
    BY <1>4, <1>6, <2>1 DEF Reconciled, Result, KeepReceipt
<1>7. ASSUME RecoveryFails \/ ReportFails \/ BeatRefused \/ Watchdog \/ StageTimeout PROVE FALSE
  BY <1>4, <1>7 DEF RecoveryFails, ReportFails, BeatRefused, Watchdog, StageTimeout
<1>8. ASSUME Exit \/ Crash PROVE FALSE
  BY <1>8 DEF Exit, Crash, Gone
<1>9. ASSUME Heartbeat \/ Renewed \/ BeatMissed \/ Stop \/ Ask PROVE FALSE
  BY <1>9 DEF Heartbeat, Renewed, BeatMissed, Stop, Ask
<1>10. ASSUME \/ \E r \in Reports : FillEnds(r)
              \/ \E shown \in BOOLEAN : Accept(shown)
       PROVE  FALSE
  BY <1>10 DEF FillEnds, Accept
<1>11. ASSUME \/ Begin \/ Advance \/ BeginFails \/ Press \/ PressStopped \/ Confirmed
              \/ Unconfirmed \/ SendReceipt \/ ReceiptTaken
       PROVE  FALSE
  BY <1>11 DEF Begin, Advance, BeginFails, Press, PressStopped, Confirmed, Unconfirmed,
               SendReceipt, ReceiptTaken
<1>12. Working \subseteq RowStates /\ {"confirmed", "refuted"} \subseteq RowStates
  BY DEF Working, RowStates, Decided
<1>13. ASSUME ServerStep PROVE FALSE
  BY <1>1, <1>2, <1>12, <1>13, Values DEF ServerStep, Serve, ServerOnly
<1> QED
  BY <1>1, <1>3, <1>5, <1>6, <1>7, <1>8, <1>9, <1>10, <1>11, <1>13
  DEF Next, LoopStep, BeatStep, SubmitStep, StageStep

\* The journal lets go of a report only when the server has it or the lease it
\* was made under is over, and is never written over; and a stop waits for the
\* form it may still send (journal.ts, runtime.ts).
THEOREM NothingIsDropped == Spec => WorkIsNotDropped
<1>1. ASSUME Inv, [Next]_vars, disk.pending # NoReport, disk'.pending # disk.pending
      PROVE  disk'.pending = NoReport /\ (seen \/ "pending" \notin standing)
  <2>1. CASE Recovered
    <3>1. disk'.pending = NoReport
      BY <1>1, <2>1 DEF Inv, TypeOK, Disks, Recovered
    <3> QED
      BY <1>1, <2>1, <3>1 DEF Inv, Reported, Recovered
  <2>2. CASE Acknowledged
    <3>1. disk'.pending = NoReport
      BY <1>1, <2>2 DEF Inv, TypeOK, Disks, Acknowledged
    <3> QED
      BY <1>1, <2>2, <3>1 DEF Inv, Reported, Acknowledged
  <2>3. CASE Journal
    BY <1>1, <2>3 DEF Inv, Reported, Journal
  <2> QED
    BY <1>1, <2>1, <2>2, <2>3, JournalWrites DEF Inv
<1>2. ASSUME Inv, form.open, Exit
      PROVE  stage.wait <= PromptWait
  <2>1. stage.at = "pressed" /\ stage.submitting
    BY <1>2 DEF Inv, Sequenced
  <2>2. proc.phase = "closing" /\ proc.linger = 0
    BY <1>2, <2>1 DEF Exit, StageIsOver
  <2>3. stage.wait <= 0 + PromptWait
    BY <1>2, <2>1, <2>2 DEF Inv, Windows
  <2> QED
    BY <2>3, Numbers
<1>3. Inv /\ [Next]_vars =>
         [disk.pending # NoReport /\ disk'.pending # disk.pending =>
            disk'.pending = NoReport /\ (seen \/ "pending" \notin standing)]_vars
  BY <1>1
<1>4. Inv /\ [Next]_vars => [form.open /\ Exit => stage.wait <= PromptWait]_vars
  BY <1>2
<1> QED
  BY <1>3, <1>4, Invariance, PTL DEF Spec, WorkIsNotDropped, ReportIsSettled, WindowOutlivesStop
=============================================================================
