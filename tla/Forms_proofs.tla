----------------------------- MODULE Forms_proofs -----------------------------
(***************************************************************************)
(* Proofs about what reaches an employer: FormAnswers (the questions of a  *)
(* form and the answers it is filled with), FormFill (one pass over the    *)
(* form) and Materials (the resume and the letter).  None of them refers   *)
(* to another; each has its invariant, a lemma for each action, and its    *)
(* theorem last.                                                           *)
(***************************************************************************)
EXTENDS Integers, SequenceTheorems, WellFoundedInduction, TLAPS

CONSTANTS
    ScreenKeys, FormKeys, Values, Useless, Steady,
    MaxAttempts, MaxAnswers, MaxPolicies, MaxSaves, MaxSlips, \* FormAnswers'
    Patient,                                                  \* FormFill's
    MaxMade, MaxTries, MaxEdits, MaxFaults                    \* Materials'

VARIABLES
    kind, facts, policy, app, questions, answers, work, refused, review,
    delivered, saves, slips,
    vendor, asks, saved, fact, step, shown, held, page, submitted,
    profile, permits, posting, form, row, artifacts, letter, worker, net,
    seen, sent, spent

Answers == INSTANCE FormAnswers WITH sent <- delivered
Fill == INSTANCE FormFill WITH sent <- submitted
Material == INSTANCE Materials WITH policy <- permits

-----------------------------------------------------------------------------
(* FormAnswers. *)

\* There is at least one attempt.
AnswersAssumption == MaxAttempts \in Nat /\ MaxAttempts > 0

States == Answers!Stages \cup {"needs_answer", "needs_policy_decision", "retryable_failure",
                               "submitted"}
QuestionType == [offer : Answers!Offers \cup {Answers!None}, policy : Nat, answer : Nat,
                 active : BOOLEAN]
AnswerType == [attempt : Answers!Attempts, key : Answers!Keys, offer : Answers!Offers,
               policy : Nat, value : Values]
WorkType == [stage : Answers!Stages \cup {Answers!None}, given : [Answers!Keys -> Nat] \cup {<<>>},
             facts : SUBSET ScreenKeys, current : BOOLEAN]

AnswersTyped ==
    /\ kind \in [Answers!Keys -> Answers!Kinds] /\ \A k \in ScreenKeys : kind[k] = "text"
    /\ facts \in SUBSET ScreenKeys
    /\ policy \in [revision : Nat, fills : BOOLEAN]
    /\ app \in [attempt : Answers!Attempts, state : States]
    /\ questions \in [Answers!Attempts -> [Answers!Keys -> QuestionType]]
    /\ answers \in Seq(AnswerType)
    /\ work \in WorkType

\* An answer of a row is one of its key, to what it was asked with, and given to
\* this attempt or an earlier one; no later attempt has been asked anything.
Rows ==
    /\ \A n \in Answers!Attempts, k \in Answers!Keys : questions[n][k].answer # 0 =>
          /\ questions[n][k].answer \in 1 .. Len(answers)
          /\ answers[questions[n][k].answer].key = k
          /\ answers[questions[n][k].answer].offer = questions[n][k].offer
          /\ answers[questions[n][k].answer].attempt <= n
    /\ \A i \in 1 .. Len(answers) : answers[i].attempt <= app.attempt
    /\ \A n \in Answers!Attempts : n > app.attempt =>
         \A k \in Answers!Keys : questions[n][k] = Answers!NoQuestion

\* A row that is asked is asked under the policy in force, and only a combobox
\* is asked with what its form does not show at first.
AskedNow ==
    \A k \in Answers!Keys : Answers!Asked[k].active =>
        /\ Answers!Asked[k].policy = policy.revision /\ Answers!Asked[k].offer \in Answers!Offers
        /\ kind[k] # "combobox" => Answers!Asked[k].offer = Answers!Observed(k)

\* An application waits for an answer exactly while a question is open.
Waits == app.state = "needs_answer" <=> Answers!Holds(Answers!Asked)

\* What a stage works from is so until the stage ends.
WorkHolds ==
    work.stage # Answers!None => work.stage = app.state /\ app.state \in Answers!Stages /\
      work.given = Answers!Given

\* What is approved, and what is sent, is what was shown.
Reviewed ==
    /\ app.state \in {"ready", "needs_policy_decision"} => review = Answers!Given
    /\ delivered = IF app.state = "submitted" THEN review ELSE <<>>

\* A form that was refused went back to the applicant, or a combobox of it was
\* asked anew with its own list.
Relisted(g, k) ==
    /\ kind[k] = "combobox" /\ Answers!Asked[k].active /\ Answers!Asked[k].offer = "list"
    /\ g[k] \in 1 .. Len(answers) /\ answers[g[k]].offer = "text"
RefusedOnce ==
    app.state # "needs_answer" => \A g \in refused : \E k \in FormKeys : Relisted(g, k)

AnswersInv == AnswersTyped /\ Rows /\ AskedNow /\ Waits /\ WorkHolds /\ Reviewed /\
  (Steady => RefusedOnce)

-----------------------------------------------------------------------------
LEMMA AnswersNow ==
    ASSUME AnswersTyped
    PROVE  /\ app.attempt \in Answers!Attempts /\ app.state \in States /\
                Answers!Asked \in [Answers!Keys -> QuestionType]
           /\ policy.revision \in Nat /\ policy.fills \in BOOLEAN
           /\ Answers!Given \in [Answers!Keys -> Nat] /\ Len(answers) \in Nat
<1>1. app.attempt \in Answers!Attempts /\ app.state \in States
  BY DEF AnswersTyped
<1>2. Answers!Asked \in [Answers!Keys -> QuestionType]
  BY <1>1 DEF AnswersTyped, Answers!Asked
<1>3. policy.revision \in Nat /\ policy.fills \in BOOLEAN
  BY DEF AnswersTyped
<1>4. Answers!Given \in [Answers!Keys -> Nat]
  BY <1>2, <1>3 DEF Answers!Given, QuestionType
<1> QED BY <1>1, <1>2, <1>3, <1>4, LenProperties DEF AnswersTyped

\* While nothing is open, what the context passes on is what every row has.
LEMMA GivenIsAsked ==
    ASSUME AnswersInv, NEW k \in Answers!Keys
    PROVE  /\ Answers!Given[k] = IF Answers!Asked[k].active THEN Answers!Asked[k].answer ELSE 0
           /\ Answers!Open(Answers!Asked[k]) <=> Answers!Asked[k].active /\
                Answers!Asked[k].answer = 0
           /\ app.state # "needs_answer" /\ Answers!Asked[k].active => Answers!Given[k] # 0
<1>1. Answers!Asked[k].active => Answers!Asked[k].policy = policy.revision
  BY DEF AnswersInv, AskedNow
<1>2. Answers!Given[k] = IF Answers!Asked[k].active THEN Answers!Asked[k].answer ELSE 0
  BY <1>1 DEF Answers!Given
<1>3. Answers!Open(Answers!Asked[k]) <=> Answers!Asked[k].active /\ Answers!Asked[k].answer = 0
  BY <1>1 DEF Answers!Open
<1>4. app.state # "needs_answer" => ~Answers!Open(Answers!Asked[k])
  BY DEF AnswersInv, Waits, Answers!Holds
<1> QED BY <1>2, <1>3, <1>4

LEMMA IdleTyped == Answers!Idle \in WorkType /\ Answers!Idle.stage = Answers!None
BY DEF Answers!Idle, WorkType

-----------------------------------------------------------------------------
\* Steps that ask and answer nothing.
Unasked == UNCHANGED <<kind, policy, questions, answers>>

StateGoes(state) ==
    /\ app' = [app EXCEPT !.state = state]
    /\ state \in States /\ (state = "needs_answer" <=> app.state = "needs_answer")

LEMMA UnaskedKeeps ==
    ASSUME AnswersInv, Unasked, facts' \in SUBSET ScreenKeys, NEW state, StateGoes(state),
           work' \in WorkType,
           work'.stage # Answers!None => work'.stage = state /\ state \in Answers!Stages /\
             work'.given = Answers!Given,
           state \in {"ready", "needs_policy_decision"} => review' = Answers!Given,
           delivered' = IF state = "submitted" THEN review' ELSE <<>>,
           refused' \in {refused, {}}
    PROVE  AnswersInv'
<1>1. app' \in [attempt : Answers!Attempts, state : States] /\ app'.attempt = app.attempt /\
      app'.state = state
  BY DEF AnswersInv, AnswersTyped, StateGoes
<1>2. Answers!Asked' = Answers!Asked /\ Answers!Given' = Answers!Given
  BY <1>1 DEF Answers!Asked, Answers!Given, Unasked
<1>3. Answers!Holds(Answers!Asked)' <=> Answers!Holds(Answers!Asked)
  BY <1>2 DEF Answers!Holds, Answers!Open, Unasked
<1>4. AnswersTyped'
  BY <1>1 DEF AnswersInv, AnswersTyped, Unasked
<1>5. Rows'
  BY <1>1 DEF AnswersInv, Rows, Unasked
<1>6. AskedNow'
  BY <1>2 DEF AnswersInv, AskedNow, Unasked, Answers!Observed
<1>7. Waits' /\ WorkHolds' /\ Reviewed'
  BY <1>1, <1>2, <1>3 DEF AnswersInv, Waits, WorkHolds, Reviewed, StateGoes
<1>8. (Steady => RefusedOnce)'
  BY <1>1, <1>2 DEF AnswersInv, RefusedOnce, Relisted, Unasked, StateGoes
<1> QED BY <1>4, <1>5, <1>6, <1>7, <1>8 DEF AnswersInv

LEMMA StageLeaseKeeps == ASSUME AnswersInv, Answers!Lease PROVE AnswersInv'
<1>1. StateGoes(app.state) /\ app.state \in Answers!Stages /\ app.state \in States
  BY DEF Answers!Lease, AnswersInv, AnswersTyped, StateGoes
<1>2. work' \in WorkType /\ work'.stage = app.state /\ work'.given = Answers!Given
  BY AnswersNow DEF Answers!Lease, AnswersInv, AnswersTyped, WorkType
<1> QED BY <1>1, <1>2, UnaskedKeeps DEF Answers!Lease, Unasked, AnswersInv, AnswersTyped,
           Reviewed, Answers!Stages

LEMMA DropKeeps == ASSUME AnswersInv, Answers!Drop PROVE AnswersInv'
<1>1. StateGoes(app.state)
  BY DEF Answers!Drop, AnswersInv, AnswersTyped, StateGoes
<1>2. work' \in WorkType /\ work'.stage = Answers!None
  BY IdleTyped DEF Answers!Drop
<1> QED BY <1>1, <1>2, UnaskedKeeps DEF Answers!Drop, Unasked, AnswersInv, AnswersTyped,
           Reviewed

LEMMA StageReportsKeep ==
    ASSUME AnswersInv, Answers!Screened \/ Answers!Breaks \/ Answers!Filled \/ Answers!Send
    PROVE  AnswersInv'
<1>1. work' \in WorkType /\ work'.stage = Answers!None
  BY IdleTyped DEF Answers!Screened, Answers!Breaks, Answers!Filled, Answers!Send,
     Answers!Report
<1>2. /\ Unasked /\ UNCHANGED <<facts, refused>> /\ facts \in SUBSET ScreenKeys
      /\ work.stage = app.state /\ app.state \in Answers!Stages /\ work.given = Answers!Given
  BY DEF Answers!Screened, Answers!Breaks, Answers!Filled, Answers!Send, Answers!Report,
     Unasked, AnswersInv, AnswersTyped, WorkHolds, Answers!Stages, Answers!None, Answers!Fills
<1>3. CASE Answers!Screened
  BY <1>1, <1>2, <1>3, UnaskedKeeps DEF Answers!Screened, Answers!Report, StateGoes, States,
     Answers!Stages, AnswersInv, Reviewed
<1>4. CASE Answers!Breaks
  BY <1>1, <1>2, <1>4, UnaskedKeeps DEF Answers!Breaks, Answers!Report, StateGoes, States,
     Answers!Stages, AnswersInv, Reviewed
<1>5. CASE Answers!Filled
  BY <1>1, <1>2, <1>5, UnaskedKeeps DEF Answers!Filled, Answers!Report, StateGoes, States,
     Answers!Stages, AnswersInv, Reviewed
<1>6. CASE Answers!Send
  BY <1>1, <1>2, <1>6, UnaskedKeeps DEF Answers!Send, StateGoes, States, Answers!Stages,
     AnswersInv, Reviewed
<1> QED BY <1>3, <1>4, <1>5, <1>6

LEMMA ActsKeep == ASSUME AnswersInv, Answers!Approve \/ Answers!RetrySafe PROVE AnswersInv'
<1>1. work' \in WorkType /\ work'.stage = Answers!None
  BY IdleTyped DEF Answers!Approve, Answers!RetrySafe, Answers!Act, Answers!Moved
<1>2. CASE Answers!Approve
  BY <1>1, <1>2, UnaskedKeeps
  DEF Answers!Approve, Answers!Act, Unasked, StateGoes, States, Answers!Stages, AnswersInv,
  AnswersTyped, Reviewed
<1>3. CASE Answers!RetrySafe
  BY <1>1, <1>3, UnaskedKeeps
  DEF Answers!RetrySafe, Answers!Act, Unasked, StateGoes, States, Answers!Stages, AnswersInv,
  AnswersTyped, Reviewed
<1> QED BY <1>2, <1>3

LEMMA SaveProfileKeeps ==
    ASSUME AnswersInv, NEW known \in SUBSET ScreenKeys, Answers!SaveProfile(known)
    PROVE  AnswersInv'
<1>1. StateGoes(app.state)
  BY DEF Answers!SaveProfile, AnswersInv, AnswersTyped, StateGoes
<1>2. work' \in WorkType /\
      (work'.stage # Answers!None => work'.stage = work.stage /\ work'.given = work.given)
  <2>1. CASE work = Answers!Idle
    BY <2>1, IdleTyped DEF Answers!SaveProfile, Answers!Idle
  <2>2. CASE work # Answers!Idle
    BY <2>2 DEF Answers!SaveProfile, AnswersInv, AnswersTyped, WorkType
  <2> QED BY <2>1, <2>2
<1> QED BY <1>1, <1>2, UnaskedKeeps DEF Answers!SaveProfile, Unasked, AnswersInv, AnswersTyped,
           Reviewed, WorkHolds

\* A batch the server refuses leaves everything as it was.
LEMMA StaleBatchKeeps ==
    ASSUME AnswersInv, NEW asked, Answers!Batch(asked), ~work.current, refused' = refused
    PROVE  AnswersInv'
<1>1. StateGoes(app.state)
  BY DEF Answers!Batch, AnswersInv, AnswersTyped, StateGoes
<1>2. work' \in WorkType /\ work'.stage = Answers!None
  BY IdleTyped DEF Answers!Batch
<1> QED BY <1>1, <1>2, UnaskedKeeps DEF Answers!Batch, Unasked, AnswersInv, AnswersTyped,
           Reviewed

-----------------------------------------------------------------------------
\* Of numbers up to one of them there is a greatest.
LEMMA GreatestIsThere ==
    ASSUME NEW n \in Nat, NEW S \in SUBSET (1 .. n), S # {}
    PROVE  \E i \in S : \A j \in S : i >= j
<1> DEFINE Left == {n - i : i \in S}
<1>1. Left \subseteq Nat /\ Left # {}
  <2>1. \A i \in S : n - i \in Nat
    OBVIOUS
  <2>2. PICK i \in S : TRUE
    OBVIOUS
  <2> QED BY <2>1, <2>2
<1>2. PICK d \in Left : \A e \in Left : ~(<<e, d>> \in OpToRel(<, Nat))
  BY <1>1, NatLessThanWellFounded, WFMin
<1>3. PICK i \in S : d = n - i
  BY <1>2
<1>4. \A j \in S : i >= j
  <2> SUFFICES ASSUME NEW j \in S PROVE i >= j
    OBVIOUS
  <2>1. n - j \in Left /\ n - j \in Nat /\ d \in Nat
    BY <1>1
  <2>2. ~(n - j < d)
    BY <1>2, <2>1 DEF OpToRel
  <2> QED BY <1>3, <2>2
<1> QED BY <1>4

\* The newest of the rows that are there is one of them.
LEMMA LastIsThere ==
    ASSUME NEW n \in Nat, NEW S \in SUBSET (1 .. n), S # {}
    PROVE  Answers!Max(S) \in S
BY GreatestIsThere DEF Answers!Max

LEMMA ReusableIsAnswer ==
    ASSUME AnswersTyped, Rows, NEW k \in Answers!Keys, NEW offer
    PROVE  /\ Answers!Reusable(k, offer) \in Nat
           /\ Answers!Reusable(k, offer) # 0 =>
                 /\ Answers!Reusable(k, offer) \in 1 .. Len(answers)
                 /\ answers[Answers!Reusable(k, offer)].key = k
                 /\ answers[Answers!Reusable(k, offer)].offer = offer
                 /\ answers[Answers!Reusable(k, offer)].attempt <= app.attempt
<1> DEFINE same == {i \in 1 .. Len(answers) : answers[i].key = k /\ answers[i].offer = offer}
<1>1. Len(answers) \in Nat
  BY AnswersNow
<1>2. same # {} => Answers!Max(same) \in same
  BY <1>1, LastIsThere
<1>3. Answers!Reusable(k, offer) = 0 \/
      (same # {} /\ Answers!Reusable(k, offer) = Answers!Max(same))
  BY DEF Answers!Reusable
<1>4. Answers!Reusable(k, offer) = 0 \/ Answers!Reusable(k, offer) \in same
  BY <1>2, <1>3
<1> QED BY <1>1, <1>4 DEF Rows

\* What a worker may ask: a field as it shows, or the list a combobox refused with.
Askable(k, offer) == offer \in Answers!Offers /\
  (kind[k] # "combobox" => offer = Answers!Observed(k))

\* A row that is asked is active, under the policy in force, and has no answer
\* or one given to what it is asked with; asked the same again, it loses its answer.
LEMMA MatchedIs ==
    ASSUME AnswersInv, NEW k \in Answers!Keys, NEW offer \in Answers!Offers
    PROVE  LET entry == Answers!Matched(k, offer) IN
           /\ entry \in QuestionType /\ entry.active /\ entry.policy = policy.revision
           /\ entry.offer = offer
           /\ entry.answer # 0 =>
                 /\ entry.answer \in 1 .. Len(answers) /\ answers[entry.answer].key = k
                 /\ answers[entry.answer].offer = offer
                 /\ answers[entry.answer].attempt <= app.attempt
           /\ app.state # "needs_answer" /\ Answers!Asked[k].active /\
                Answers!Asked[k].offer = offer =>
                 entry.answer = 0
<1> DEFINE old == Answers!Asked[k]
           changed == old.offer # offer \/ ~old.active \/ old.policy # policy.revision
           rejected == ~changed /\ old.answer # 0
           kept == IF changed \/ rejected THEN 0 ELSE old.answer
           entry == [offer |-> offer, policy |-> policy.revision, active |-> TRUE, answer |-> kept]
           again == Answers!Reusable(k, offer)
           is == IF rejected \/ again = 0 THEN entry ELSE [entry EXCEPT !.answer = again]
<1>1. Answers!Matched(k, offer) = is
  BY DEF Answers!Matched
<1>2. /\ AnswersTyped /\ Rows /\ old \in QuestionType /\ policy.revision \in Nat /\
           app.attempt \in Answers!Attempts
      /\ old = questions[app.attempt][k]
  BY AnswersNow DEF AnswersInv, Answers!Asked
<1>3. kept = 0
  BY <1>2
<1>4. /\ again \in Nat
      /\ again # 0 => /\ again \in 1 .. Len(answers) /\ answers[again].key = k
                      /\ answers[again].offer = offer /\ answers[again].attempt <= app.attempt
  BY <1>2, ReusableIsAnswer
<1>5. app.state # "needs_answer" /\ old.active /\ old.offer = offer => rejected
  BY GivenIsAsked DEF AnswersInv, AskedNow
<1> HIDE DEF again, rejected, kept, old
<1>6. entry \in QuestionType /\ entry.active /\ entry.policy = policy.revision /\
      entry.offer = offer /\ entry.answer = 0
  BY <1>2, <1>3 DEF QuestionType
<1> HIDE DEF entry
<1>7. /\ is \in QuestionType /\ is.active /\ is.policy = policy.revision /\ is.offer = offer
      /\ is.answer = IF rejected \/ again = 0 THEN 0 ELSE again
  BY <1>4, <1>6 DEF QuestionType
<1> HIDE DEF is
<1>8. app.state # "needs_answer" /\ Answers!Asked[k].active /\ Answers!Asked[k].offer = offer =>
      is.answer = 0
  BY <1>5, <1>7 DEF old
<1> QED BY <1>1, <1>4, <1>7, <1>8

-----------------------------------------------------------------------------
\* The rows of the newest attempt become others, as good ones.
Become(rows) ==
    /\ rows \in [Answers!Keys -> QuestionType]
    /\ questions' = [questions EXCEPT ![app.attempt] = rows]
    /\ app' \in [attempt : {app.attempt}, state : States]
    /\ answers' \in Seq(AnswerType) /\ Len(answers') >= Len(answers)
    /\ \A i \in 1 .. Len(answers) : answers'[i] = answers[i]
    /\ \A i \in 1 .. Len(answers') : answers'[i].attempt <= app.attempt
    /\ policy' \in [revision : Nat, fills : BOOLEAN]
    /\ \A k \in Answers!Keys : rows[k].answer # 0 =>
          /\ rows[k].answer \in 1 .. Len(answers') /\ answers'[rows[k].answer].key = k
          /\ answers'[rows[k].answer].offer = rows[k].offer
          /\ answers'[rows[k].answer].attempt <= app.attempt
    /\ \A k \in Answers!Keys : rows[k].active =>
          rows[k].policy = policy'.revision /\ Askable(k, rows[k].offer)

LEMMA BecomeKeeps ==
    ASSUME AnswersAssumption, AnswersInv, NEW rows, Become(rows), UNCHANGED <<kind, facts>>
    PROVE  /\ app'.attempt = app.attempt /\ Answers!Asked' = rows
           /\ AnswersTyped' \/ work' \notin WorkType
           /\ Rows' /\ AskedNow'
<1>1. /\ app.attempt \in Answers!Attempts /\ app'.attempt = app.attempt /\ app'.state \in States
      /\ questions \in [Answers!Attempts -> [Answers!Keys -> QuestionType]] /\
           Len(answers) \in Nat
  BY AnswersNow DEF AnswersInv, AnswersTyped, Become
<1>2. /\ questions' \in [Answers!Attempts -> [Answers!Keys -> QuestionType]]
      /\ questions'[app.attempt] = rows
      /\ \A n \in Answers!Attempts \ {app.attempt} : questions'[n] = questions[n]
  BY <1>1 DEF Become
<1>3. Answers!Asked' = rows
  BY <1>1, <1>2 DEF Answers!Asked
<1>4. AnswersTyped' \/ work' \notin WorkType
  BY <1>1, <1>2 DEF AnswersInv, AnswersTyped, Become
<1>5. Len(answers') \in Nat
  BY LenProperties DEF Become
<1>6. Rows'
  <2>1. ASSUME NEW n \in Answers!Attempts, NEW k \in Answers!Keys, questions'[n][k].answer # 0
        PROVE  /\ questions'[n][k].answer \in 1 .. Len(answers')
               /\ answers'[questions'[n][k].answer].key = k
               /\ answers'[questions'[n][k].answer].offer = questions'[n][k].offer
               /\ answers'[questions'[n][k].answer].attempt <= n
    <3>1. CASE n = app.attempt
      BY <1>2, <2>1, <3>1 DEF Become
    <3>2. CASE n # app.attempt
      <4> DEFINE i == questions[n][k].answer
      <4>1. questions'[n] = questions[n]
        BY <1>2, <3>2
      <4>2. /\ i \in 1 .. Len(answers) /\ answers[i].key = k
            /\ answers[i].offer = questions[n][k].offer /\ answers[i].attempt <= n
        BY <2>1, <4>1 DEF AnswersInv, Rows
      <4> HIDE DEF i
      <4>3. i \in 1 .. Len(answers') /\ answers'[i] = answers[i]
        BY <1>1, <1>5, <4>2 DEF Become
      <4> QED BY <4>1, <4>2, <4>3 DEF i
    <3> QED BY <3>1, <3>2
  <2>2. \A n \in Answers!Attempts : n > app.attempt =>
        \A k \in Answers!Keys : questions'[n][k] = Answers!NoQuestion
    <3> SUFFICES ASSUME NEW n \in Answers!Attempts, n > app.attempt
                 PROVE  \A k \in Answers!Keys : questions'[n][k] = Answers!NoQuestion
      OBVIOUS
    <3>1. n # app.attempt
      BY <1>1 DEF Answers!Attempts, AnswersAssumption
    <3> QED BY <1>2, <3>1 DEF AnswersInv, Rows
  <2>3. \A i \in 1 .. Len(answers') : answers'[i].attempt <= app'.attempt
    BY <1>1 DEF Become
  <2> QED BY <1>1, <2>1, <2>2, <2>3 DEF Rows
<1>7. AskedNow'
  BY <1>3 DEF AskedNow, Become, Askable, Answers!Observed
<1> QED BY <1>1, <1>3, <1>4, <1>6, <1>7

LEMMA AskKeeps ==
    ASSUME AnswersAssumption, AnswersInv, NEW keys \in SUBSET Answers!Keys,
           NEW asked \in [keys -> Answers!Offers],
           \A k \in keys : Askable(k, asked[k]),
           work.stage # Answers!None, Answers!Ask(asked), work' = Answers!Idle,
           UNCHANGED <<kind, facts, policy, answers, review, delivered>>
    PROVE  /\ (Steady => RefusedOnce)' => AnswersInv'
           /\ app'.attempt = app.attempt
           /\ \A k \in Answers!Keys : Answers!Asked'[k] =
                  IF k \in keys THEN Answers!Matched(k, asked[k])
                  ELSE Answers!Asked[k]
           /\ app'.state # "needs_answer" => \A k \in Answers!Keys : Answers!Asked'[k].active =>
                Answers!Asked'[k].answer # 0
<1> DEFINE rows == [k \in Answers!Keys |->
                       IF k \in DOMAIN asked THEN Answers!Matched(k, asked[k])
                       ELSE Answers!Asked[k]]
<1>1. /\ questions' = [questions EXCEPT ![app.attempt] = rows]
      /\ app' = [app EXCEPT !.state = IF Answers!Holds(rows) THEN "needs_answer" ELSE "screening"]
  BY DEF Answers!Ask
<1>2. \A k \in Answers!Keys : rows[k] =
          IF k \in keys THEN Answers!Matched(k, asked[k])
          ELSE Answers!Asked[k]
  OBVIOUS
<1>3. /\ Answers!Asked \in [Answers!Keys -> QuestionType] /\ app.attempt \in Answers!Attempts /\
           app \in [attempt : Answers!Attempts, state : States]
      /\ Answers!Asked = questions[app.attempt]
  BY AnswersNow DEF AnswersInv, AnswersTyped, Answers!Asked
<1>4. ASSUME NEW k \in Answers!Keys
      PROVE  /\ rows[k] \in QuestionType
             /\ rows[k].active => rows[k].policy = policy.revision /\ Askable(k, rows[k].offer)
             /\ rows[k].answer # 0 =>
                   /\ rows[k].answer \in 1 .. Len(answers) /\ answers[rows[k].answer].key = k
                   /\ answers[rows[k].answer].offer = rows[k].offer
                   /\ answers[rows[k].answer].attempt <= app.attempt
  <2>1. CASE k \in keys
    <3>1. asked[k] \in Answers!Offers /\ Askable(k, asked[k]) /\
          rows[k] = Answers!Matched(k, asked[k])
      BY <2>1
    <3> HIDE DEF rows
    <3> QED BY <3>1, MatchedIs
  <2>2. CASE k \notin keys
    <3>1. rows[k] = Answers!Asked[k]
      BY <2>2
    <3> HIDE DEF rows
    <3>2. rows[k] \in QuestionType
      BY <1>3, <3>1
    <3>3. rows[k].active => rows[k].policy = policy.revision /\ Askable(k, rows[k].offer)
      BY <3>1 DEF AnswersInv, AskedNow, Askable
    <3> QED BY <1>3, <3>1, <3>2, <3>3 DEF AnswersInv, Rows
  <2> QED BY <2>1, <2>2
<1>5. rows \in [Answers!Keys -> QuestionType]
  BY <1>4
<1> HIDE DEF rows
<1>6. app' \in [attempt : {app.attempt}, state : States]
  BY <1>1, <1>3 DEF States, Answers!Stages
<1>7. app'.state = IF Answers!Holds(rows) THEN "needs_answer" ELSE "screening"
  BY <1>1, <1>3
<1>8. Become(rows)
  <2>1. answers' \in Seq(AnswerType) /\ Len(answers') >= Len(answers)
    BY AnswersNow DEF AnswersInv, AnswersTyped
  <2>2. policy' \in [revision : Nat, fills : BOOLEAN]
    BY DEF AnswersInv, AnswersTyped
  <2>3. \A i \in 1 .. Len(answers') : answers'[i].attempt <= app.attempt
    BY DEF AnswersInv, Rows
  <2> QED BY <1>1, <1>4, <1>5, <1>6, <2>1, <2>2, <2>3 DEF Become
<1>9. /\ app'.attempt = app.attempt /\ Answers!Asked' = rows /\ Rows' /\ AskedNow'
      /\ AnswersTyped'
  BY <1>8, BecomeKeeps, IdleTyped
<1>10. Answers!Holds(Answers!Asked)' <=> Answers!Holds(rows)
  BY <1>9 DEF Answers!Holds, Answers!Open
<1>11. Waits' /\ WorkHolds'
  BY <1>7, <1>10, IdleTyped DEF Waits, WorkHolds
<1>12. Reviewed'
  <2>1. app.state \in Answers!Stages
    BY DEF AnswersInv, WorkHolds
  <2> QED BY <1>7, <2>1 DEF AnswersInv, Reviewed, Answers!Stages
<1>13. app'.state # "needs_answer" => \A k \in Answers!Keys : Answers!Asked'[k].active =>
       Answers!Asked'[k].answer # 0
  BY <1>7, <1>9 DEF Answers!Holds, Answers!Open
<1> QED BY <1>2, <1>9, <1>11, <1>12, <1>13 DEF AnswersInv

\* Asking what shows no combobox in its list leaves the comboboxes that do.
LEMMA RelistedStay ==
    ASSUME AnswersInv, RefusedOnce, app.state # "needs_answer", UNCHANGED <<kind, answers>>,
           refused' = refused,
           \A k \in Answers!Keys : kind[k] = "combobox" /\ Answers!Asked[k].active /\
             Answers!Asked[k].offer = "list" =>
               Answers!Asked'[k].active /\ Answers!Asked'[k].offer = "list"
    PROVE  \A g \in refused : \E k \in FormKeys : Relisted(g, k)'
<1> SUFFICES ASSUME NEW g \in refused PROVE \E k \in FormKeys : Relisted(g, k)'
  OBVIOUS
<1>1. PICK k \in FormKeys : Relisted(g, k)
  BY DEF RefusedOnce
<1>2. k \in Answers!Keys
  BY DEF Answers!Keys
<1>3. Relisted(g, k)'
  BY <1>1, <1>2 DEF Relisted
<1> QED BY <1>3

LEMMA AskScreeningKeeps ==
    ASSUME AnswersAssumption, AnswersInv, Answers!AskScreening
    PROVE  AnswersInv'
<1> DEFINE asked == [k \in Answers!Unscreened |-> Answers!Observed(k)]
<1>1. /\ Answers!Batch(asked) /\ refused' = refused /\ work.stage # Answers!None
      /\ Answers!Unscreened \in SUBSET Answers!Keys /\ Answers!Unscreened \in SUBSET ScreenKeys
  BY DEF Answers!AskScreening, Answers!Unscreened, Answers!Keys
<1>2. CASE ~work.current
  BY <1>1, <1>2, StaleBatchKeeps
<1>3. CASE work.current
  <2>1. asked \in [Answers!Unscreened -> Answers!Offers] /\
        \A k \in Answers!Unscreened : Askable(k, asked[k])
    BY DEF Answers!Observed, Answers!Offers, Askable
  <2>2. Answers!Ask(asked) /\ work' = Answers!Idle /\ UNCHANGED <<kind, facts, policy, answers,
        review, delivered>>
    BY <1>1, <1>3 DEF Answers!Batch
  <2> HIDE DEF asked
  <2>3. /\ (Steady => RefusedOnce)' => AnswersInv'
        /\ app'.attempt = app.attempt
        /\ \A k \in Answers!Keys : Answers!Asked'[k] =
               IF k \in Answers!Unscreened THEN Answers!Matched(k, asked[k])
               ELSE Answers!Asked[k]
    BY <1>1, <2>1, <2>2, AskKeeps
  <2>4. \A k \in Answers!Keys : kind[k] = "combobox" => k \notin Answers!Unscreened
    BY <1>1 DEF AnswersInv, AnswersTyped
  <2>5. \A k \in Answers!Keys : kind[k] = "combobox" => Answers!Asked'[k] = Answers!Asked[k]
    BY <2>3, <2>4
  <2>6. app.state # "needs_answer"
    BY <1>1 DEF AnswersInv, WorkHolds, Answers!Stages
  <2>7. (Steady => RefusedOnce)'
    BY <1>1, <2>2, <2>5, <2>6, RelistedStay DEF AnswersInv, RefusedOnce
  <2> QED BY <2>3, <2>7
<1> QED BY <1>2, <1>3

LEMMA AskMissingKeeps ==
    ASSUME AnswersAssumption, AnswersInv, Answers!AskMissing
    PROVE  AnswersInv'
<1> DEFINE asked == [k \in Answers!Missing |-> Answers!Observed(k)]
<1>1. /\ Answers!Batch(asked) /\ refused' = refused /\ work.stage # Answers!None /\
           Answers!Missing \in SUBSET Answers!Keys
  BY DEF Answers!AskMissing, Answers!Missing, Answers!Keys, Answers!None
<1>2. CASE ~work.current
  BY <1>1, <1>2, StaleBatchKeeps
<1>3. CASE work.current
  <2>1. asked \in [Answers!Missing -> Answers!Offers] /\
        \A k \in Answers!Missing : Askable(k, asked[k])
    BY DEF Answers!Observed, Answers!Offers, Askable
  <2>2. Answers!Ask(asked) /\ work' = Answers!Idle /\ UNCHANGED <<kind, facts, policy, answers,
        review, delivered>>
    BY <1>1, <1>3 DEF Answers!Batch
  <2> HIDE DEF asked
  <2>3. /\ (Steady => RefusedOnce)' => AnswersInv'
        /\ app'.attempt = app.attempt
        /\ \A k \in Answers!Keys : Answers!Asked'[k] =
               IF k \in Answers!Missing THEN Answers!Matched(k, asked[k])
               ELSE Answers!Asked[k]
    BY <1>1, <2>1, <2>2, AskKeeps
  <2>4. app.state # "needs_answer" /\ work.given = Answers!Given
    BY <1>1 DEF AnswersInv, WorkHolds, Answers!Stages
  <2>5. \A k \in Answers!Keys : Answers!Asked[k].active => k \notin Answers!Missing
    BY <2>4, GivenIsAsked DEF Answers!Missing
  <2>6. \A k \in Answers!Keys : Answers!Asked[k].active => Answers!Asked'[k] = Answers!Asked[k]
    BY <2>3, <2>5
  <2>7. (Steady => RefusedOnce)'
    BY <1>1, <2>2, <2>4, <2>6, RelistedStay DEF AnswersInv, RefusedOnce
  <2> QED BY <2>3, <2>7
<1> QED BY <1>2, <1>3

\* A form that is refused again is asked about: either the applicant is, or a
\* combobox of it shows its list now.
LEMMA RefuseKeeps == ASSUME AnswersAssumption, AnswersInv, Answers!Refuse PROVE AnswersInv'
<1>0. PICK bad \in SUBSET FormKeys :
        /\ bad # {}
        /\ \E asked \in [bad -> Answers!Offers] :
              (\A k \in bad : asked[k] \in Answers!AfterRefusal(k)) /\ Answers!Batch(asked)
  BY DEF Answers!Refuse
<1>1. PICK asked \in [bad -> Answers!Offers] :
        bad # {} /\ (\A k \in bad : asked[k] \in Answers!AfterRefusal(k)) /\ Answers!Batch(asked)
  BY <1>0
<1>2. /\ refused' = IF work.current THEN refused \cup {work.given} ELSE refused
      /\ work.stage # Answers!None /\ Answers!Missing = {}
  BY DEF Answers!Refuse, Answers!Fills, Answers!None
<1>3. CASE ~work.current
  BY <1>1, <1>2, <1>3, StaleBatchKeeps
<1>4. CASE work.current
  <2>1. bad \in SUBSET Answers!Keys /\ \A k \in bad : Askable(k, asked[k])
    BY <1>1 DEF Answers!Keys, Answers!AfterRefusal, Askable
  <2>2. Answers!Ask(asked) /\ work' = Answers!Idle /\ UNCHANGED <<kind, facts, policy, answers,
        review, delivered>>
    BY <1>1, <1>4 DEF Answers!Batch
  <2>3. /\ (Steady => RefusedOnce)' => AnswersInv'
        /\ app'.attempt = app.attempt
        /\ \A k \in Answers!Keys : Answers!Asked'[k] =
               IF k \in bad THEN Answers!Matched(k, asked[k])
               ELSE Answers!Asked[k]
        /\ app'.state # "needs_answer" => \A k \in Answers!Keys : Answers!Asked'[k].active =>
             Answers!Asked'[k].answer # 0
    BY <1>2, <2>1, <2>2, AskKeeps
  <2>4. app.state # "needs_answer" /\ work.given = Answers!Given
    BY <1>2 DEF AnswersInv, WorkHolds, Answers!Stages
  <2>5. ASSUME Steady, app'.state # "needs_answer"
        PROVE  \A g \in refused' : \E k \in FormKeys : Relisted(g, k)'
    <3>1. ASSUME NEW k \in bad
          PROVE  /\ Answers!Asked'[k].active /\ Answers!Asked'[k].offer = asked[k]
                 /\ Answers!Asked[k].active /\ Answers!Given[k] = Answers!Asked[k].answer /\
                      Answers!Asked[k].answer # 0
                 /\ Answers!Asked[k].offer # asked[k]
      <4>1. k \in Answers!Keys /\ k \in FormKeys /\ asked[k] \in Answers!Offers
        BY <1>1, <2>1
      <4>2. /\ Answers!Matched(k, asked[k]).active /\
                 Answers!Matched(k, asked[k]).offer = asked[k]
            /\ Answers!Asked[k].active /\ Answers!Asked[k].offer = asked[k] =>
                 Answers!Matched(k, asked[k]).answer = 0
        BY <2>4, <4>1, MatchedIs
      <4>3. Answers!Asked'[k] = Answers!Matched(k, asked[k])
        BY <2>3, <4>1
      <4>4. Answers!Given[k] # 0
        BY <1>2, <2>4, <4>1 DEF Answers!Missing
      <4>5. Answers!Asked[k].active /\ Answers!Given[k] = Answers!Asked[k].answer
        BY <4>1, <4>4, GivenIsAsked
      <4> QED BY <2>3, <2>5, <4>1, <4>2, <4>3, <4>4, <4>5
    <3>2. ASSUME NEW k \in bad
          PROVE  kind[k] = "combobox" /\ asked[k] = "list" /\ Answers!Asked[k].offer = "text"
      <4>1. k \in Answers!Keys /\ Answers!Asked[k].offer \in Answers!Offers /\
            (kind[k] # "combobox" => Answers!Asked[k].offer = Answers!Observed(k))
        BY <1>1, <2>1, <3>1 DEF AnswersInv, AskedNow
      <4>2. asked[k] \in Answers!AfterRefusal(k)
        BY <1>1
      <4> QED BY <2>5, <3>1, <4>1, <4>2 DEF Answers!AfterRefusal, Answers!Offers
    <3>3. \A g \in refused : \E k \in FormKeys : Relisted(g, k)'
      <4> SUFFICES ASSUME NEW g \in refused PROVE \E k \in FormKeys : Relisted(g, k)'
        OBVIOUS
      <4>1. PICK k \in FormKeys : Relisted(g, k)
        BY <2>4, <2>5 DEF AnswersInv, RefusedOnce
      <4>2. k \in Answers!Keys /\ k \notin bad
        BY <3>1, <3>2, <4>1 DEF Answers!Keys, Relisted
      <4>3. Relisted(g, k)'
        BY <2>2, <2>3, <4>1, <4>2 DEF Relisted
      <4> QED BY <4>3
    <3>4. ASSUME NEW g, g = work.given
          PROVE  \E k \in FormKeys : Relisted(g, k)'
      <4>1. PICK k \in bad : TRUE
        BY <1>1
      <4>2. /\ k \in Answers!Keys /\ k \in FormKeys /\ app.attempt \in Answers!Attempts
            /\ Answers!Asked[k] = questions[app.attempt][k]
        BY <2>1, AnswersNow DEF AnswersInv, Answers!Asked
      <4>3. /\ Answers!Asked[k].answer \in 1 .. Len(answers)
            /\ answers[Answers!Asked[k].answer].offer = Answers!Asked[k].offer
        BY <3>1, <4>2 DEF AnswersInv, Rows
      <4>4. g[k] = Answers!Asked[k].answer
        BY <2>4, <3>1, <3>4
      <4>5. Relisted(g, k)'
        BY <2>2, <3>1, <3>2, <4>3, <4>4 DEF Relisted
      <4> QED BY <4>2, <4>5
    <3>5. \A g \in refused' : g \in refused \/ g = work.given
      BY <1>2, <1>4
    <3> QED BY <3>3, <3>4, <3>5
  <2>6. (Steady => RefusedOnce)'
    BY <2>5 DEF RefusedOnce
  <2> QED BY <2>3, <2>6
<1> QED BY <1>3, <1>4

-----------------------------------------------------------------------------
LEMMA AnswerKeeps ==
    ASSUME AnswersAssumption, AnswersInv, NEW k \in Answers!Keys, NEW v \in Values,
           Answers!Answer(k, v)
    PROVE  AnswersInv'
<1> DEFINE n == Len(answers) + 1
           entry == [Answers!Asked[k] EXCEPT !.answer = n]
           rows == [Answers!Asked EXCEPT ![k].answer = n]
           new == [attempt |-> app.attempt, key |-> k, offer |-> Answers!Asked[k].offer,
                   policy |-> policy.revision, value |-> v]
<1>1. /\ Answers!Asked \in [Answers!Keys -> QuestionType] /\
           app \in [attempt : Answers!Attempts, state : States]
      /\ app.attempt \in Answers!Attempts /\ app.attempt \in Nat
      /\ policy.revision \in Nat /\ Len(answers) \in Nat /\ answers \in Seq(AnswerType)
      /\ Answers!Asked = questions[app.attempt] /\ policy \in [revision : Nat, fills : BOOLEAN]
  BY AnswersNow DEF AnswersInv, AnswersTyped, Answers!Attempts, AnswersAssumption, Answers!Asked
<1>2. /\ Answers!Asked[k].active /\ Answers!Asked[k].policy = policy.revision /\
           Answers!Asked[k].offer \in Answers!Offers
      /\ Askable(k, Answers!Asked[k].offer)
  BY DEF Answers!Answer, Answers!CanAnswer, AnswersInv, AskedNow, Askable
<1>3. /\ answers' = Append(answers, new)
      /\ questions' = [questions EXCEPT ![app.attempt] = rows]
      /\ app' = [app EXCEPT !.state = Answers!Resumed(rows)]
      /\ work' = Answers!Idle /\ refused' = {}
      /\ UNCHANGED <<kind, facts, policy, review, delivered, saves, slips>>
  BY DEF Answers!Answer, Answers!Moved
<1>4. new \in AnswerType
  BY <1>1, <1>2 DEF AnswerType
<1>5. n \in Nat /\ n # 0 /\ entry \in QuestionType
      /\ entry.answer = n /\ entry.active /\ entry.policy = policy.revision /\
           entry.offer = Answers!Asked[k].offer
  <2>1. n \in Nat /\ n # 0 /\ Answers!Asked[k] \in QuestionType
    BY <1>1
  <2> HIDE DEF n
  <2> QED BY <1>2, <2>1 DEF QuestionType
<1>6. \A j \in Answers!Keys : rows[j] = IF j = k THEN entry ELSE Answers!Asked[j]
  BY <1>1
<1>7. rows \in [Answers!Keys -> QuestionType]
  BY <1>1, <1>5
<1> HIDE DEF entry, rows
<1>8. /\ answers' \in Seq(AnswerType) /\ Len(answers') = n
      /\ \A i \in 1 .. Len(answers) : answers'[i] = answers[i]
      /\ answers'[n] = new
  BY <1>1, <1>3, <1>4, AppendProperties
<1>9. new.attempt = app.attempt /\ new.key = k /\ new.offer = Answers!Asked[k].offer
  OBVIOUS
<1> HIDE DEF new
<1>10. Answers!Resumed(rows) = IF Answers!Holds(rows) THEN "needs_answer" ELSE "screening"
  BY DEF Answers!Resumed
<1>11. app' \in [attempt : {app.attempt}, state : States] /\ app'.state = Answers!Resumed(rows)
  BY <1>1, <1>3, <1>10 DEF States, Answers!Stages
<1>12. \A i \in 1 .. Len(answers') : answers'[i].attempt <= app.attempt
  <2> SUFFICES ASSUME NEW i \in 1 .. Len(answers') PROVE answers'[i].attempt <= app.attempt
    OBVIOUS
  <2>1. CASE i = n
    BY <1>1, <1>8, <1>9, <2>1
  <2>2. CASE i # n
    <3>1. i \in 1 .. Len(answers)
      BY <1>1, <1>8, <2>2
    <3> QED BY <1>8, <3>1 DEF AnswersInv, Rows
  <2> QED BY <2>1, <2>2
<1>13. ASSUME NEW j \in Answers!Keys, rows[j].answer # 0
       PROVE  /\ rows[j].answer \in 1 .. Len(answers') /\ answers'[rows[j].answer].key = j
              /\ answers'[rows[j].answer].offer = rows[j].offer
              /\ answers'[rows[j].answer].attempt <= app.attempt
  <2>1. CASE j = k
    <3>1. rows[j].answer = n /\ rows[j].offer = Answers!Asked[k].offer /\ n \in 1 .. Len(answers')
      BY <1>1, <1>5, <1>6, <1>8, <2>1
    <3>2. answers'[n].key = k /\ answers'[n].offer = Answers!Asked[k].offer /\
          answers'[n].attempt <= app.attempt
      BY <1>1, <1>8, <1>9
    <3> QED BY <2>1, <3>1, <3>2
  <2>2. CASE j # k
    <3> DEFINE i == Answers!Asked[j].answer
    <3>1. rows[j] = Answers!Asked[j]
      BY <1>6, <2>2
    <3>2. /\ i \in 1 .. Len(answers) /\ answers[i].key = j /\
               answers[i].offer = Answers!Asked[j].offer
          /\ answers[i].attempt <= app.attempt
      BY <1>1, <1>13, <3>1 DEF AnswersInv, Rows
    <3> HIDE DEF i
    <3>3. i \in 1 .. Len(answers') /\ answers'[i] = answers[i]
      BY <1>1, <1>8, <3>2
    <3> QED BY <3>1, <3>2, <3>3 DEF i
  <2> QED BY <2>1, <2>2
<1>14. \A j \in Answers!Keys : rows[j].active =>
          rows[j].policy = policy.revision /\ Askable(j, rows[j].offer)
  BY <1>2, <1>5, <1>6 DEF AnswersInv, AskedNow, Askable
<1>15. Become(rows)
  <2>1. Len(answers') >= Len(answers)
    BY <1>1, <1>8
  <2> QED BY <1>1, <1>3, <1>7, <1>8, <1>11, <1>12, <1>13, <1>14, <2>1 DEF Become
<1>16. app'.attempt = app.attempt /\ Answers!Asked' = rows /\ AnswersTyped' /\ Rows' /\ AskedNow'
  BY <1>3, <1>15, BecomeKeeps, IdleTyped
<1>17. Answers!Holds(Answers!Asked)' <=> Answers!Holds(rows)
  BY <1>3, <1>16 DEF Answers!Holds, Answers!Open
<1>18. Waits' /\ WorkHolds'
  BY <1>3, <1>10, <1>11, <1>17, IdleTyped DEF Waits, WorkHolds
<1>19. Reviewed'
  <2>1. app.state # "submitted"
    BY DEF Answers!Answer, Answers!CanAnswer, Answers!Stages
  <2> QED BY <1>3, <1>10, <1>11, <2>1 DEF AnswersInv, Reviewed
<1>20. (Steady => RefusedOnce)'
  BY <1>3 DEF RefusedOnce
<1> QED BY <1>16, <1>18, <1>19, <1>20 DEF AnswersInv

LEMMA NextAttemptKeeps ==
    ASSUME AnswersAssumption, AnswersInv, Answers!NextAttempt
    PROVE  AnswersInv'
<1>1. /\ app.attempt \in Answers!Attempts /\ app.attempt \in Nat /\
           app.attempt + 1 \in Answers!Attempts
      /\ app.attempt + 1 > app.attempt
  BY AnswersNow DEF Answers!NextAttempt, AnswersInv, Answers!Attempts, AnswersAssumption
<1>2. /\ app' = [attempt |-> app.attempt + 1, state |-> "screening"]
      /\ work' = Answers!Idle /\ refused' = {}
      /\ UNCHANGED <<kind, facts, policy, questions, answers, review, delivered, saves, slips>>
      /\ app.state \in {"needs_answer", "retryable_failure"}
  BY DEF Answers!NextAttempt, Answers!Moved
<1>3. app'.attempt = app.attempt + 1 /\ app'.state = "screening"
  BY <1>2
<1>4. AnswersTyped'
  BY <1>1, <1>2, <1>3, IdleTyped DEF AnswersInv, AnswersTyped, States, Answers!Stages
<1>5. Rows'
  <2>1. \A i \in 1 .. Len(answers) : answers[i].attempt <= app.attempt + 1
    <3> SUFFICES ASSUME NEW i \in 1 .. Len(answers) PROVE answers[i].attempt <= app.attempt + 1
      OBVIOUS
    <3>1. answers[i].attempt \in Nat
      <4>1. answers[i] \in AnswerType
        BY ElementOfSeq DEF AnswersInv, AnswersTyped
      <4> QED BY <4>1 DEF AnswerType, Answers!Attempts
    <3> QED BY <1>1, <3>1 DEF AnswersInv, Rows
  <2>2. \A m \in Answers!Attempts : m > app.attempt + 1 => m > app.attempt
    BY <1>1 DEF Answers!Attempts, AnswersAssumption
  <2> QED BY <1>2, <1>3, <2>1, <2>2 DEF AnswersInv, Rows
<1>6. Answers!Asked' = questions[app.attempt + 1] /\
      \A k \in Answers!Keys : Answers!Asked'[k] = Answers!NoQuestion
  BY <1>1, <1>2, <1>3 DEF AnswersInv, Rows, Answers!Asked
<1>7. \A k \in Answers!Keys : ~Answers!Asked'[k].active
  BY <1>6 DEF Answers!NoQuestion
<1>8. AskedNow' /\ Waits'
  BY <1>3, <1>7 DEF AskedNow, Waits, Answers!Holds, Answers!Open
<1>9. WorkHolds'
  BY <1>2, IdleTyped DEF WorkHolds
<1>10. Reviewed' /\ (Steady => RefusedOnce)'
  BY <1>2, <1>3 DEF AnswersInv, Reviewed, RefusedOnce
<1> QED BY <1>4, <1>5, <1>8, <1>9, <1>10 DEF AnswersInv

LEMMA EnableKeeps ==
    ASSUME AnswersAssumption, AnswersInv, NEW fills \in BOOLEAN, Answers!Enable(fills)
    PROVE  AnswersInv'
<1> DEFINE rows == [k \in Answers!Keys |-> Answers!Carried(Answers!Asked[k], fills)]
<1>1. /\ Answers!Asked \in [Answers!Keys -> QuestionType] /\
           app \in [attempt : Answers!Attempts, state : States]
      /\ app.attempt \in Answers!Attempts /\ policy.revision \in Nat /\
           policy.revision + 1 \in Nat
      /\ policy.fills \in BOOLEAN
      /\ Answers!Asked = questions[app.attempt] /\ answers \in Seq(AnswerType) /\
           Len(answers) \in Nat
  BY AnswersNow DEF AnswersInv, AnswersTyped, Answers!Asked
<1>2. /\ policy' = [revision |-> policy.revision + 1, fills |-> fills]
      /\ questions' = [questions EXCEPT ![app.attempt] = rows]
      /\ app' = IF Answers!Rescreens(rows, fills) THEN [app EXCEPT !.state = "screening"] ELSE app
      /\ work' = Answers!Idle /\ refused' = {}
      /\ UNCHANGED <<kind, facts, answers, review, delivered, saves, slips>>
  BY DEF Answers!Enable, Answers!Moved
<1>3. ASSUME NEW k \in Answers!Keys
      PROVE  /\ rows[k] \in QuestionType /\ rows[k].answer = Answers!Asked[k].answer /\
                  rows[k].offer = Answers!Asked[k].offer
             /\ rows[k].active => /\ Answers!Asked[k].active /\
                                       rows[k].policy = policy.revision + 1
                                  /\ Answers!Asked[k].answer # 0 /\ fills
             /\ Answers!Asked[k].active /\ Answers!Asked[k].answer # 0 /\ fills => rows[k].active
  <2>1. Answers!Asked[k].active => Answers!Asked[k].policy = policy.revision
    BY DEF AnswersInv, AskedNow
  <2>2. rows[k] = Answers!Carried(Answers!Asked[k], fills) /\ Answers!Asked[k] \in QuestionType
    BY <1>1
  <2> HIDE DEF rows
  <2> DEFINE q == Answers!Asked[k]
  <2>3. CASE ~q.active
    BY <2>2, <2>3 DEF Answers!Carried
  <2>4. CASE q.active /\ q.answer # 0 /\ q.policy = policy.revision /\ fills
    <3>1. rows[k] = [q EXCEPT !.policy = q.policy + 1]
      BY <2>2, <2>4 DEF Answers!Carried
    <3> QED BY <1>1, <2>1, <2>2, <2>4, <3>1 DEF QuestionType
  <2>5. CASE q.active /\ ~(q.answer # 0 /\ q.policy = policy.revision /\ fills)
    <3>1. rows[k] = [q EXCEPT !.active = FALSE]
      BY <2>2, <2>5 DEF Answers!Carried
    <3> QED BY <2>1, <2>2, <2>5, <3>1 DEF QuestionType
  <2> QED BY <2>3, <2>4, <2>5
<1>4. rows \in [Answers!Keys -> QuestionType]
  BY <1>3
<1> HIDE DEF rows
<1>5. /\ app' \in [attempt : {app.attempt}, state : States]
      /\ app'.state = IF Answers!Rescreens(rows, fills) THEN "screening" ELSE app.state
      /\ policy' \in [revision : Nat, fills : BOOLEAN] /\ policy'.revision = policy.revision + 1
  BY <1>1, <1>2 DEF States, Answers!Stages
<1>6. Become(rows)
  <2>1. Len(answers') >= Len(answers) /\ answers' = answers
    BY <1>1, <1>2
  <2>2. \A k \in Answers!Keys : rows[k].answer # 0 =>
          /\ rows[k].answer \in 1 .. Len(answers) /\ answers[rows[k].answer].key = k
          /\ answers[rows[k].answer].offer = rows[k].offer
          /\ answers[rows[k].answer].attempt <= app.attempt
    BY <1>1, <1>3 DEF AnswersInv, Rows
  <2>3. \A k \in Answers!Keys : rows[k].active =>
          rows[k].policy = policy'.revision /\ Askable(k, rows[k].offer)
    BY <1>3, <1>5 DEF AnswersInv, AskedNow, Askable
  <2> QED BY <1>1, <1>2, <1>4, <1>5, <2>1, <2>2, <2>3 DEF Become, AnswersInv, Rows
<1>7. app'.attempt = app.attempt /\ Answers!Asked' = rows /\ AnswersTyped' /\ Rows' /\ AskedNow'
  BY <1>2, <1>6, BecomeKeeps, IdleTyped
<1>8. ~Answers!Holds(Answers!Asked)'
  BY <1>3, <1>5, <1>7 DEF Answers!Holds, Answers!Open
<1>9. app'.state # "needs_answer"
  BY <1>5 DEF Answers!Rescreens
<1>10. Waits' /\ WorkHolds'
  BY <1>2, <1>8, <1>9, IdleTyped DEF Waits, WorkHolds
<1>11. Reviewed'
  <2>1. delivered' = IF app'.state = "submitted" THEN review' ELSE <<>>
    BY <1>2, <1>5 DEF AnswersInv, Reviewed, Answers!Rescreens, Answers!Stages
  <2>2. ASSUME app'.state \in {"ready", "needs_policy_decision"}
        PROVE  review' = Answers!Given'
    <3>1. ~Answers!Rescreens(rows, fills) /\ app.state \in {"ready", "needs_policy_decision"}
      BY <1>5, <2>2
    <3>2. \A k \in Answers!Keys : Answers!Asked[k].active => rows[k].active
      BY <3>1 DEF Answers!Rescreens, Answers!Stages
    <3>3. \A k \in Answers!Keys : Answers!Given'[k] = IF rows[k].active THEN rows[k].answer ELSE 0
      BY <1>3, <1>5, <1>7 DEF Answers!Given
    <3>4. \A k \in Answers!Keys : Answers!Given'[k] = Answers!Given[k]
      BY <1>3, <3>2, <3>3, GivenIsAsked
    <3>5. Answers!Given' = Answers!Given
      BY <3>4 DEF Answers!Given
    <3> QED BY <1>2, <3>1, <3>5 DEF AnswersInv, Reviewed
  <2> QED BY <2>1, <2>2 DEF Reviewed
<1>12. (Steady => RefusedOnce)'
  BY <1>2 DEF RefusedOnce
<1> QED BY <1>7, <1>10, <1>11, <1>12 DEF AnswersInv

-----------------------------------------------------------------------------
LEMMA AnswersBegin == ASSUME AnswersAssumption, Answers!Init PROVE AnswersInv
<1>1. 1 \in Answers!Attempts /\ Len(answers) = 0 /\ answers \in Seq(AnswerType)
  BY EmptySeq DEF AnswersAssumption, Answers!Attempts, Answers!Init
<1>2. Answers!NoQuestion \in QuestionType /\ ~Answers!NoQuestion.active /\
      Answers!NoQuestion.answer = 0
  BY DEF Answers!NoQuestion, QuestionType
<1>3. /\ questions \in [Answers!Attempts -> [Answers!Keys -> QuestionType]]
      /\ \A n \in Answers!Attempts, k \in Answers!Keys : questions[n][k] = Answers!NoQuestion
  BY <1>2 DEF Answers!Init
<1>4. AnswersTyped
  BY <1>1, <1>3, IdleTyped DEF Answers!Init, AnswersTyped, States, Answers!Stages
<1>5. Rows
  BY <1>1, <1>2, <1>3 DEF Rows
<1>6. app.attempt = 1 /\ app.state = "screening" /\
      \A k \in Answers!Keys : Answers!Asked[k] = Answers!NoQuestion
  BY <1>1, <1>3 DEF Answers!Init, Answers!Asked
<1>7. AskedNow /\ Waits
  BY <1>2, <1>6 DEF AskedNow, Waits, Answers!Holds, Answers!Open
<1>8. WorkHolds /\ Reviewed /\ RefusedOnce
  BY <1>6, IdleTyped DEF Answers!Init, WorkHolds, Reviewed, RefusedOnce
<1> QED BY <1>4, <1>5, <1>7, <1>8 DEF AnswersInv

\* No form is filled over and over, no application is left behind with its
\* questions answered, an open question holds its form, and what is sent is
\* what was reviewed: for any keys, values and number of attempts, answers,
\* policies, saves and slips.
THEOREM AnswersAlwaysHold ==
    ASSUME AnswersAssumption
    PROVE  Answers!Spec => [](/\ Answers!TypeOK
                              /\ Answers!NoStrandedApplication /\ Answers!OpenQuestionHolds
                      /\ Answers!SentAsReviewed /\ (Steady => Answers!NoFillLoop))
<1>1. Answers!Init => AnswersInv
  BY AnswersBegin
<1>2. AnswersInv /\ [Answers!Next]_Answers!vars => AnswersInv'
  <2> SUFFICES ASSUME AnswersInv, [Answers!Next]_Answers!vars PROVE AnswersInv'
    OBVIOUS
  <2>1. CASE UNCHANGED Answers!vars
    BY <2>1 DEF Answers!vars, AnswersInv, AnswersTyped, Rows, AskedNow, Waits, WorkHolds,
       Reviewed, RefusedOnce,
       Relisted, Answers!Asked, Answers!Given, Answers!Holds, Answers!Open, Answers!Observed
  <2>2. CASE Answers!Next
    BY <2>2, StageLeaseKeeps, DropKeeps, StageReportsKeep, ActsKeep, SaveProfileKeeps,
       AskScreeningKeeps,
       AskMissingKeeps, RefuseKeeps, AnswerKeeps, NextAttemptKeeps, EnableKeeps DEF Answers!Next
  <2> QED BY <2>1, <2>2
<1>3. AnswersInv => /\ Answers!TypeOK /\ Answers!NoStrandedApplication /\
                         Answers!OpenQuestionHolds
              /\ Answers!SentAsReviewed /\ (Steady => Answers!NoFillLoop)
  <2> SUFFICES ASSUME AnswersInv
               PROVE  /\ Answers!TypeOK /\ Answers!NoStrandedApplication /\
                           Answers!OpenQuestionHolds
                      /\ Answers!SentAsReviewed /\ (Steady => Answers!NoFillLoop)
    OBVIOUS
  <2>1. Answers!TypeOK
    BY AnswersNow DEF AnswersInv, Rows, Answers!TypeOK, States
  <2>2. Answers!NoStrandedApplication
    BY DEF AnswersInv, Waits, Answers!Holds, Answers!Open, AskedNow,
       Answers!NoStrandedApplication, Answers!CanAnswer
  <2>3. Answers!OpenQuestionHolds
    BY DEF AnswersInv, Waits, Answers!OpenQuestionHolds, Answers!Stages
  <2>4. Answers!SentAsReviewed
    BY DEF AnswersInv, Reviewed, Answers!SentAsReviewed
  <2>5. ASSUME Steady, app.state \in Answers!Stages, Answers!Given \in refused PROVE FALSE
    <3>1. app.state # "needs_answer"
      BY <2>5 DEF Answers!Stages
    <3>2. PICK k \in FormKeys : Relisted(Answers!Given, k)
      BY <2>5, <3>1 DEF AnswersInv, RefusedOnce
    <3>3. k \in Answers!Keys /\ app.attempt \in Answers!Attempts /\
          Answers!Asked[k] = questions[app.attempt][k]
      BY AnswersNow DEF AnswersInv, Answers!Keys, Answers!Asked
    <3>4. Answers!Given[k] = Answers!Asked[k].answer /\ Answers!Given[k] # 0
      BY <3>1, <3>2, <3>3, GivenIsAsked DEF Relisted
    <3>5. answers[Answers!Asked[k].answer].offer = Answers!Asked[k].offer
      BY <3>3, <3>4 DEF AnswersInv, Rows
    <3> QED BY <3>2, <3>4, <3>5 DEF Relisted
  <2> QED BY <2>1, <2>2, <2>3, <2>4, <2>5 DEF Answers!NoFillLoop
<1> QED BY <1>1, <1>2, <1>3, PTL DEF Answers!Spec

-----------------------------------------------------------------------------
(* FormFill. *)

\* Where a form is read, and where its fields are being filled.
Underway == {"next", "resume", "settle", "verify", "rejected", "filled"}

\* Of an answer that was typed, and taken: it stands in its field.
TypedIn(q) ==
    /\ Fill!Answer(q) # "none" /\ step.at \in Underway
    /\ q \notin step.left /\ q \notin step.bad

\* The page's script takes over before anything is typed, and the parsed
\* resume comes back before anything else is.
PageIsDone ==
    /\ ~page.live => step.at = "observe"
    /\ page.parse => step.at = "resume" /\ vendor # "greenhouse"
    /\ step.at \in Underway /\ vendor # "greenhouse" /\
         (Fill!Resume \in step.left \/ step.at = "resume")
       => \A q \in Fill!Questions : ~TypedIn(q)

\* One save at a time, of the field that was typed last.
OneSave ==
    \A q \in page.changed \cup page.saving :
        vendor = "ashby" /\ step.at = "settle" /\ step.field = q

\* What was typed is shown, and held.
Stays ==
    \A q \in Fill!Questions : TypedIn(q) =>
        /\ shown[q] \in Fill!Picks(q)
        /\ vendor = "ashby" => held[q] = shown[q] \/ q \in page.changed \cup page.saving

\* What is left to fill has an answer.
NothingLeft ==
    /\ step.at = "filled" => step.left = {} /\ step.bad = {}
    /\ \A q \in Fill!Questions \cap step.left : Fill!Answer(q) # "none"

FillInv == Fill!TypeOK /\ PageIsDone /\ OneSave /\ Stays /\ NothingLeft /\ Fill!SentAsMeant

LEMMA FormBegins ==
    ASSUME Fill!Init
    PROVE  FillInv
<1>1. Fill!TypeOK
  BY DEF Fill!Init, Fill!TypeOK, Fill!AllBlank, Fill!Shown, Fill!Values, Fill!Options,
     Fill!Questions, Fill!Ends, Fill!Vendors
<1>2. PageIsDone /\ OneSave /\ Stays /\ NothingLeft /\ Fill!SentAsMeant
  BY DEF Fill!Init, PageIsDone, OneSave, Stays, NothingLeft, Fill!SentAsMeant, TypedIn, Underway
<1> QED BY <1>1, <1>2 DEF FillInv

\* Where the adapter is after it went on.
LEMMA StepGoes ==
    ASSUME Fill!TypeOK, NEW at \in Fill!Ends \cup {"observe"} \cup Underway, Fill!Goes(at)
    PROVE  /\ step' \in [at : Fill!Ends \union {"observe", "next", "resume", "settle", "verify",
                                           "rejected", "filled"},
                         field : Fill!Questions \union {"none"},
                         left : SUBSET (Fill!Questions \union {Fill!Resume}),
                           bad : SUBSET Fill!Questions]
           /\ step'.at = at /\ step'.field = step.field /\ step'.left = step.left
           /\ step'.bad = step.bad
BY DEF Fill!Goes, Fill!TypeOK, Underway

\* The answers and the options are what they were throughout.
givenForm == <<vendor, asks, saved, fact>>
LEMMA SameAnswers ==
    ASSUME UNCHANGED givenForm
    PROVE  /\ \A q : Fill!Answer(q)' = Fill!Answer(q) /\ Fill!Picks(q)' = Fill!Picks(q)
           /\ Fill!Touched' = Fill!Touched
BY DEF givenForm, Fill!Answer, Fill!Picks, Fill!Touched, Fill!HostedAnswer, Fill!LeverAnswer,
   Fill!AshbyAnswer, Fill!Listed, Fill!Matches, Fill!Loose

LEMMA PageKeeps ==
    ASSUME Patient, FillInv, step.at \notin Fill!Ends, Fill!PageStep
    PROVE  FillInv'
<1>1. UNCHANGED givenForm /\ UNCHANGED <<step, submitted>>
  BY DEF Fill!PageStep, Fill!Hydrate, Fill!Prefill, Fill!SaveStarts, Fill!SaveEnds, givenForm
<1>2. /\ \A q : Fill!Answer(q)' = Fill!Answer(q) /\ Fill!Picks(q)' = Fill!Picks(q)
      /\ \A q : TypedIn(q)' <=> TypedIn(q)
  BY <1>1, SameAnswers DEF TypedIn
<1>3. NothingLeft' /\ Fill!SentAsMeant'
  BY <1>1, <1>2 DEF FillInv, NothingLeft, Fill!SentAsMeant, Fill!Ends
<1>4. CASE Fill!Hydrate
  <2>0. /\ page' \in [live : BOOLEAN, parse : BOOLEAN,
                      changed : SUBSET Fill!Questions, saving : SUBSET Fill!Questions]
        /\ shown' \in [Fill!Questions -> Fill!Shown] /\ UNCHANGED <<held, page.parse,
             page.changed, page.saving>>
    BY <1>4 DEF FillInv, Fill!TypeOK, Fill!Hydrate, Fill!AllBlank, Fill!Shown
  <2>1. Fill!TypeOK'
    BY <1>1, <2>0 DEF FillInv, Fill!TypeOK, givenForm
  <2>2. PageIsDone' /\ OneSave' /\ Stays'
    BY <1>4, <1>1, <1>2 DEF FillInv, Fill!TypeOK, Fill!Hydrate, PageIsDone, OneSave, Stays,
       givenForm, TypedIn, Underway
  <2> QED BY <1>3, <2>1, <2>2 DEF FillInv
<1>5. CASE Fill!Prefill
  <2>0. /\ page' \in [live : BOOLEAN, parse : BOOLEAN,
                      changed : SUBSET Fill!Questions, saving : SUBSET Fill!Questions]
        /\ page'.live = page.live /\ ~page'.parse /\ page'.changed = {} /\ page'.saving = {}
    BY <1>5 DEF FillInv, Fill!TypeOK, Fill!Prefill
  <2>1. shown' \in [Fill!Questions -> Fill!Shown] /\ held' = shown'
    BY <1>5 DEF FillInv, Fill!TypeOK, Fill!Prefill, Fill!Shown, Fill!Questions
  <2>2. Fill!TypeOK'
    BY <1>1, <2>0, <2>1 DEF FillInv, Fill!TypeOK, givenForm
  <2>3. PageIsDone' /\ OneSave' /\ Stays'
    BY <1>5, <1>1, <1>2 DEF FillInv, Fill!TypeOK, Fill!Prefill, PageIsDone, OneSave, Stays,
       givenForm, Underway
  <2> QED BY <1>3, <2>2, <2>3 DEF FillInv
<1>6. ASSUME NEW q \in Fill!Questions, Fill!SaveStarts(q)
      PROVE  FillInv'
  <2>1. /\ page' \in [live : BOOLEAN, parse : BOOLEAN,
                      changed : SUBSET Fill!Questions, saving : SUBSET Fill!Questions]
        /\ page'.live = page.live /\ page'.parse = page.parse
        /\ page'.changed = page.changed \ {q} /\ page'.saving = page.saving \cup {q}
        /\ q \in page.changed
    BY <1>6 DEF FillInv, Fill!TypeOK, Fill!SaveStarts
  <2>2. Fill!TypeOK'
    BY <1>6, <1>1, <2>1 DEF FillInv, Fill!TypeOK, Fill!SaveStarts, givenForm
  <2>3. PageIsDone' /\ OneSave' /\ Stays'
    BY <1>6, <1>1, <1>2, <2>1 DEF FillInv, Fill!SaveStarts, PageIsDone, OneSave, Stays,
       givenForm
  <2> QED BY <1>3, <2>2, <2>3 DEF FillInv
<1>7. ASSUME NEW q \in Fill!Questions, Fill!SaveEnds(q)
      PROVE  FillInv'
  <2>1. /\ page' \in [live : BOOLEAN, parse : BOOLEAN,
                      changed : SUBSET Fill!Questions, saving : SUBSET Fill!Questions]
        /\ page'.live = page.live /\ page'.parse = page.parse
        /\ page'.changed = page.changed /\ page'.saving = page.saving \ {q}
    BY <1>7 DEF FillInv, Fill!TypeOK, Fill!SaveEnds
  <2>2. page.saving = {q}
    BY <1>7 DEF FillInv, OneSave, Fill!SaveEnds
  <2>3. held' = [held EXCEPT ![q] = shown[q]]
    BY <1>7, <2>2 DEF Fill!SaveEnds
  <2>4. Fill!TypeOK'
    BY <1>7, <1>1, <2>1, <2>3 DEF FillInv, Fill!TypeOK, Fill!SaveEnds, givenForm
  <2>5. PageIsDone' /\ OneSave'
    BY <1>7, <1>1, <1>2, <2>1 DEF FillInv, Fill!SaveEnds, PageIsDone, OneSave, givenForm
  <2>6. Stays'
    BY <1>7, <1>1, <1>2, <2>1, <2>3 DEF FillInv, Fill!TypeOK, Fill!SaveEnds, Stays, givenForm
  <2> QED BY <1>3, <2>4, <2>5, <2>6 DEF FillInv
<1> QED BY <1>4, <1>5, <1>6, <1>7 DEF Fill!PageStep

\* A step of the adapter that touches no field: nothing is typed that was not.
LEMMA GoesKeeps ==
    ASSUME Patient, FillInv, step.at \notin Fill!Ends, NEW at \in Fill!Ends \cup Underway,
           Fill!Goes(at),
           UNCHANGED givenForm, UNCHANGED <<shown, held, page>>,
           page.live /\ ~page.parse /\ page.changed \cup page.saving = {},
           at \in Underway => step.at \in Underway /\ at # "resume",
           at = "filled" => step.left = {} /\ step.bad = {},
           at # "sent" => submitted' = submitted,
           submitted' \in [Fill!Questions -> Fill!Shown], at = "sent" => Fill!SentAsMeant'
    PROVE  FillInv'
<1>1. /\ step' \in [at : Fill!Ends \union {"observe", "next", "resume", "settle", "verify",
                                      "rejected", "filled"},
                    field : Fill!Questions \union {"none"},
                    left : SUBSET (Fill!Questions \union {Fill!Resume}),
                      bad : SUBSET Fill!Questions]
      /\ step'.at = at /\ step'.field = step.field /\ step'.left = step.left
      /\ step'.bad = step.bad
  BY StepGoes DEF FillInv
<1>2. /\ \A q : Fill!Answer(q)' = Fill!Answer(q) /\ Fill!Picks(q)' = Fill!Picks(q)
      /\ \A q : TypedIn(q)' => TypedIn(q)
  BY <1>1, SameAnswers DEF TypedIn
<1>3. Fill!TypeOK'
  BY <1>1 DEF FillInv, Fill!TypeOK, givenForm
<1>4. PageIsDone' /\ OneSave' /\ Stays' /\ NothingLeft'
  BY <1>1, <1>2 DEF FillInv, PageIsDone, OneSave, Stays, NothingLeft, givenForm
<1>5. Fill!SentAsMeant'
  BY <1>1 DEF Fill!SentAsMeant
<1> QED BY <1>3, <1>4, <1>5 DEF FillInv

\* While the adapter goes on, the page is done with its own work.
LEMMA PageStands ==
    ASSUME FillInv, step.at \in Underway
    PROVE  /\ page.live /\ (step.at # "resume" => ~page.parse)
           /\ step.at # "settle" => page.changed \cup page.saving = {}
BY DEF FillInv, PageIsDone, OneSave, Underway

LEMMA AdapterGoesKeeps ==
    ASSUME Patient, FillInv,
           Fill!Attached \/ Fill!Settle \/ Fill!Verify \/ Fill!Filled \/ Fill!Rejected \/
             (step.at = "observe" /\ Fill!Goes("retry") /\ Fill!Observe)
           \/ (Fill!Observe /\ Fill!Goes("asked"))
    PROVE  FillInv'
<1>1. UNCHANGED givenForm /\ UNCHANGED <<shown, held, page, submitted>>
  BY DEF Fill!Attached, Fill!Settle, Fill!Verify, Fill!Filled, Fill!Rejected, Fill!Observe,
     givenForm
<1>2. page.live /\ ~page.parse /\ page.changed \cup page.saving = {}
  <2>1. CASE Fill!Observe
    BY <2>1 DEF Fill!Observe, FillInv, PageIsDone, OneSave
  <2>2. CASE Fill!Attached \/ Fill!Settle \/ Fill!Verify \/ Fill!Filled \/ Fill!Rejected
    BY <2>2, PageStands DEF Fill!Attached, Fill!Settle, Fill!Verify, Fill!Filled,
       Fill!Rejected, Underway, Fill!Landed
  <2> QED BY <2>1, <2>2
<1>3. PICK at \in Fill!Ends \cup Underway :
         /\ Fill!Goes(at) /\ at \notin {"sent", "resume"}
         /\ at \in Underway => step.at \in Underway
         /\ at = "filled" => step.left = {} /\ step.bad = {}
  BY DEF Fill!Attached, Fill!Settle, Fill!Verify, Fill!Filled, Fill!Rejected, Fill!Observe,
     Fill!Ends, Underway
<1>4. step.at \notin Fill!Ends
  BY DEF Fill!Attached, Fill!Settle, Fill!Verify, Fill!Filled, Fill!Rejected, Fill!Observe,
     Fill!Ends
<1>5. submitted' \in [Fill!Questions -> Fill!Shown]
  BY <1>1 DEF FillInv, Fill!TypeOK
<1> QED BY <1>1, <1>2, <1>3, <1>4, <1>5, GoesKeeps

LEMMA FormSendKeeps ==
    ASSUME Patient, FillInv, Fill!Send
    PROVE  FillInv'
<1>1. /\ UNCHANGED givenForm /\ UNCHANGED <<shown, held, page>> /\ step.at = "filled" /\
           Fill!Goes("sent")
      /\ submitted' = Fill!OnForm
  BY DEF Fill!Send, givenForm
<1>2. page.live /\ ~page.parse /\ page.changed \cup page.saving = {} /\ step.at \notin Fill!Ends
  BY <1>1, PageStands DEF Underway, Fill!Ends
<1>3. \A q \in Fill!Questions : Fill!Answer(q) # "none" => Fill!OnForm[q] \in Fill!Picks(q)
  BY <1>1, <1>2 DEF FillInv, NothingLeft, Stays, TypedIn, Underway, Fill!OnForm
<1>4. Fill!SentAsMeant'
  BY <1>1, <1>3, SameAnswers DEF Fill!SentAsMeant
<1>5. submitted' \in [Fill!Questions -> Fill!Shown]
  BY <1>1 DEF FillInv, Fill!TypeOK, Fill!OnForm
<1> QED BY <1>1, <1>2, <1>4, <1>5, GoesKeeps DEF Fill!Ends, Underway

LEMMA ObserveKeeps ==
    ASSUME Patient, FillInv, Fill!Observe
    PROVE  FillInv'
<1>1. CASE Fill!Goes("retry") \/ Fill!Goes("asked")
  BY <1>1, AdapterGoesKeeps DEF Fill!Observe
<1>2. CASE step' = [step EXCEPT !.at = "next", !.left = Fill!Touched \union {Fill!Resume}]
  <2>1. /\ step' \in [at : Fill!Ends \union {"observe", "next", "resume", "settle", "verify",
                                        "rejected", "filled"},
                      field : Fill!Questions \union {"none"},
                      left : SUBSET (Fill!Questions \union {Fill!Resume}),
                        bad : SUBSET Fill!Questions]
        /\ step'.at = "next" /\ step'.left = Fill!Touched \union {Fill!Resume}
    BY <1>2 DEF FillInv, Fill!TypeOK, Fill!Touched
  <2>2. UNCHANGED givenForm /\ UNCHANGED <<shown, held, page, submitted>> /\ step.at = "observe"
    BY DEF Fill!Observe, givenForm
  <2>3. page.live /\ ~page.parse /\ page.changed \cup page.saving = {}
    BY <2>2 DEF Fill!Observe, FillInv, PageIsDone, OneSave
  <2>4. \A q \in Fill!Questions : ~TypedIn(q)'
    BY <2>1, <2>2, SameAnswers DEF TypedIn, Fill!Touched
  <2>5. Fill!TypeOK'
    BY <2>1, <2>2 DEF FillInv, Fill!TypeOK, givenForm
  <2>6. PageIsDone' /\ OneSave' /\ Stays' /\ Fill!SentAsMeant'
    BY <2>1, <2>2, <2>3, <2>4 DEF PageIsDone, OneSave, Stays, Fill!SentAsMeant
  <2>7. \A q \in Fill!Questions \cap Fill!Touched : Fill!Answer(q) # "none"
    <3>1. \/ \A q \in asks.required : Fill!Answer(q) # "none"
          \/ \E at \in {"retry", "asked"} : step' = [step EXCEPT !.at = at]
      BY DEF Fill!Observe, Fill!Goes
    <3>2. \A q \in asks.required : Fill!Answer(q) # "none"
      BY <2>1, <3>1 DEF FillInv, Fill!TypeOK
    <3> QED BY <3>2 DEF Fill!Touched
  <2>8. NothingLeft'
    BY <2>1, <2>2, <2>7, SameAnswers DEF NothingLeft, Fill!Questions, Fill!Resume
  <2> QED BY <2>5, <2>6, <2>8 DEF FillInv
<1> QED BY <1>1, <1>2 DEF Fill!Observe

LEMMA AttachKeeps ==
    ASSUME Patient, FillInv, Fill!Attach
    PROVE  FillInv'
<1>1. /\ UNCHANGED givenForm /\ UNCHANGED <<shown, held, submitted>> /\ step.at = "next" /\
           Fill!Resume \in step.left
      /\ page.live /\ ~page.parse /\ page.changed \cup page.saving = {}
  BY PageStands DEF Fill!Attach, givenForm, Underway
<1>2. /\ step' \in [at : Fill!Ends \union {"observe", "next", "resume", "settle", "verify",
                                      "rejected", "filled"},
                    field : Fill!Questions \union {"none"},
                    left : SUBSET (Fill!Questions \union {Fill!Resume}),
                      bad : SUBSET Fill!Questions]
      /\ step'.at = "resume" /\ step'.left = step.left \ {Fill!Resume} /\ step'.bad = step.bad
  BY DEF Fill!Attach, FillInv, Fill!TypeOK
<1>3. /\ page' \in [live : BOOLEAN, parse : BOOLEAN,
                    changed : SUBSET Fill!Questions, saving : SUBSET Fill!Questions]
      /\ page'.live /\ (page'.parse => vendor # "greenhouse")
      /\ page'.changed \cup page'.saving = {}
  BY <1>1 DEF Fill!Attach, FillInv, Fill!TypeOK
<1>4. /\ \A q : Fill!Answer(q)' = Fill!Answer(q) /\ Fill!Picks(q)' = Fill!Picks(q)
      /\ \A q \in Fill!Questions : TypedIn(q)' <=> TypedIn(q)
  BY <1>1, <1>2, SameAnswers DEF TypedIn, Fill!Questions, Fill!Resume, Underway
<1>5. Fill!TypeOK'
  BY <1>1, <1>2, <1>3 DEF FillInv, Fill!TypeOK, givenForm
<1>6. PageIsDone' /\ OneSave' /\ Stays' /\ NothingLeft' /\ Fill!SentAsMeant'
  BY <1>1, <1>2, <1>3, <1>4 DEF FillInv, PageIsDone, OneSave, Stays, NothingLeft,
     Fill!SentAsMeant, givenForm, Underway
<1> QED BY <1>5, <1>6 DEF FillInv

LEMMA RejectKeeps ==
    ASSUME Patient, FillInv, NEW q \in Fill!Questions, Fill!Reject(q)
    PROVE  FillInv'
<1>1. /\ UNCHANGED givenForm /\ UNCHANGED <<shown, held, submitted, page>> /\ step.at = "next"
      /\ page.live /\ ~page.parse /\ page.changed \cup page.saving = {}
  BY PageStands DEF Fill!Reject, givenForm, Underway
<1>2. /\ step' \in [at : Fill!Ends \union {"observe", "next", "resume", "settle", "verify",
                                      "rejected", "filled"},
                    field : Fill!Questions \union {"none"},
                    left : SUBSET (Fill!Questions \union {Fill!Resume}),
                      bad : SUBSET Fill!Questions]
      /\ step'.at = "next" /\ step'.left = step.left \ {q} /\ step'.bad = step.bad \cup {q}
  BY <1>1 DEF Fill!Reject, FillInv, Fill!TypeOK
<1>3. /\ \A r : Fill!Answer(r)' = Fill!Answer(r) /\ Fill!Picks(r)' = Fill!Picks(r)
      /\ \A r \in Fill!Questions : TypedIn(r)' => TypedIn(r)
  BY <1>1, <1>2, SameAnswers DEF TypedIn, Underway
<1>4. vendor # "greenhouse" => Fill!Resume \notin step'.left
  BY <1>2 DEF Fill!Reject, Fill!InTurn
<1>5. Fill!TypeOK'
  BY <1>1, <1>2 DEF FillInv, Fill!TypeOK, givenForm
<1>6. PageIsDone' /\ OneSave' /\ Stays' /\ NothingLeft' /\ Fill!SentAsMeant'
  BY <1>1, <1>2, <1>3, <1>4 DEF FillInv, PageIsDone, OneSave, Stays, NothingLeft,
     Fill!SentAsMeant, givenForm
<1> QED BY <1>5, <1>6 DEF FillInv

LEMMA FieldKeeps ==
    ASSUME Patient, FillInv, NEW q \in Fill!Questions, Fill!Fill(q)
    PROVE  FillInv'
<1>1. /\ UNCHANGED givenForm /\ UNCHANGED submitted /\ step.at = "next"
      /\ page.live /\ ~page.parse /\ page.changed \cup page.saving = {}
  BY PageStands DEF Fill!Fill, givenForm, Underway
<1>2. PICK value \in Fill!Picks(q) : shown' = [shown EXCEPT ![q] = value]
  BY DEF Fill!Fill
<1>3. value \in Fill!Shown
  <2>1. Fill!Answer(q) # "none"
    BY DEF Fill!Fill, FillInv, NothingLeft
  <2>2. saved[q] \in Fill!Values \cup {"none"} /\ fact[q] \in Fill!Options \cup {"none"} /\
        vendor \in Fill!Vendors
    BY DEF FillInv, Fill!TypeOK
  <2>3. Fill!Answer(q) \in Fill!Values
    BY <2>1, <2>2 DEF Fill!Answer, Fill!HostedAnswer, Fill!LeverAnswer, Fill!AshbyAnswer,
       Fill!Values, Fill!Vendors
  <2>4. asks.offers \subseteq Fill!Options
    BY DEF FillInv, Fill!TypeOK
  <2> QED BY <1>2, <2>3, <2>4 DEF Fill!Picks, Fill!Matches, Fill!Shown, Fill!Values
<1>4. /\ step' \in [at : Fill!Ends \union {"observe", "next", "resume", "settle", "verify",
                                      "rejected", "filled"},
                    field : Fill!Questions \union {"none"},
                    left : SUBSET (Fill!Questions \union {Fill!Resume}),
                      bad : SUBSET Fill!Questions]
      /\ step'.at = (IF vendor = "ashby" THEN "settle" ELSE "verify")
      /\ step'.field = q /\ step'.left = step.left \ {q} /\ step'.bad = step.bad
  BY DEF Fill!Fill, FillInv, Fill!TypeOK
<1>5. /\ page' \in [live : BOOLEAN, parse : BOOLEAN,
                    changed : SUBSET Fill!Questions, saving : SUBSET Fill!Questions]
      /\ page'.live /\ ~page'.parse
      /\ page'.changed \cup page'.saving = (IF vendor = "ashby" THEN {q} ELSE {})
      /\ vendor = "ashby" => q \in page'.changed
  BY <1>1 DEF Fill!Fill, FillInv, Fill!TypeOK
<1>6. shown' \in [Fill!Questions -> Fill!Shown] /\ held' \in [Fill!Questions -> Fill!Shown]
  BY <1>2, <1>3 DEF Fill!Fill, FillInv, Fill!TypeOK
<1>7. Fill!TypeOK'
  BY <1>1, <1>4, <1>5, <1>6 DEF FillInv, Fill!TypeOK, givenForm
<1>8. /\ \A r : Fill!Answer(r)' = Fill!Answer(r) /\ Fill!Picks(r)' = Fill!Picks(r)
      /\ \A r \in Fill!Questions \ {q} : TypedIn(r)' => TypedIn(r)
  BY <1>1, <1>4, SameAnswers DEF TypedIn, Underway
<1>9. vendor # "greenhouse" => Fill!Resume \notin step'.left
  BY <1>4 DEF Fill!Fill, Fill!InTurn
<1>10. PageIsDone' /\ NothingLeft' /\ Fill!SentAsMeant'
  BY <1>1, <1>4, <1>5, <1>8, <1>9 DEF FillInv, PageIsDone, NothingLeft, Fill!SentAsMeant,
     givenForm
<1>11. OneSave'
  BY <1>1, <1>4, <1>5 DEF OneSave, givenForm
<1>12. Stays'
  <2> SUFFICES ASSUME NEW r \in Fill!Questions, TypedIn(r)'
               PROVE  /\ shown'[r] \in Fill!Picks(r)
                      /\ vendor = "ashby" => held'[r] = shown'[r] \/
                           r \in page'.changed \cup page'.saving
    BY <1>1, <1>8 DEF Stays, givenForm
  <2>1. CASE r = q
    BY <1>2, <1>5, <2>1 DEF FillInv, Fill!TypeOK
  <2>2. CASE r # q
    BY <1>1, <1>2, <1>8, <2>2 DEF FillInv, Fill!TypeOK, Stays, Fill!Fill
  <2> QED BY <2>1, <2>2
<1> QED BY <1>7, <1>10, <1>11, <1>12 DEF FillInv

\* What was guessed would be more than one option.
LEMMA NoGuess ==
    ASSUME FillInv
    PROVE  Fill!NothingGuessed
<1> SUFFICES ASSUME step.at = "sent", saved["list"] = "part"
             PROVE  Fill!Cardinality(asks.offers) = 1
  BY DEF Fill!NothingGuessed
<1>1. Fill!Answer("list") = "part" /\ "list" \in Fill!Questions
  BY DEF Fill!Answer, Fill!Questions
<1>2. submitted["list"] \in Fill!Picks("list")
  BY <1>1 DEF FillInv, Fill!SentAsMeant
<1>3. asks.offers \subseteq {"a", "b"}
  BY DEF FillInv, Fill!TypeOK, Fill!Options
<1> QED BY <1>1, <1>2, <1>3 DEF Fill!Picks, Fill!Matches

\* What a form holds when it goes out is what the applicant answered, whatever
\* the page and its parsed resume did in between: while an adapter's waits are
\* long enough, for every vendor, answer and order of the page's work.
THEOREM FormAlwaysMeant ==
    ASSUME Patient
    PROVE  Fill!Spec => [](Fill!TypeOK /\ Fill!FormIsMeant)
<1>1. Fill!Init => FillInv
  BY FormBegins
<1>2. FillInv /\ [Fill!Next]_Fill!vars => FillInv'
  <2> SUFFICES ASSUME FillInv, [Fill!Next]_Fill!vars
               PROVE  FillInv'
    OBVIOUS
  <2>1. CASE step.at \notin Fill!Ends /\ Fill!PageStep
    BY <2>1, PageKeeps
  <2>2. CASE Fill!Observe \/ Fill!Attach \/ Fill!Attached \/ Fill!Settle \/ Fill!Verify \/
             Fill!Filled \/ Fill!Rejected \/ Fill!Send
    BY <2>2, ObserveKeeps, AttachKeeps, AdapterGoesKeeps, FormSendKeeps
  <2>3. ASSUME NEW q \in Fill!Questions, Fill!Reject(q) \/ Fill!Fill(q)
        PROVE  FillInv'
    BY <2>3, RejectKeeps, FieldKeeps
  <2>4. CASE UNCHANGED Fill!vars
    <3>1. UNCHANGED givenForm /\ UNCHANGED <<step, shown, held, page, submitted>>
      BY <2>4 DEF Fill!vars, givenForm
    <3> QED BY <3>1, SameAnswers
        DEF FillInv, Fill!TypeOK, PageIsDone, OneSave, Stays, NothingLeft, Fill!SentAsMeant,
        TypedIn, givenForm
  <2> QED BY <2>1, <2>2, <2>3, <2>4 DEF Fill!Next, Fill!AdapterStep
<1>3. FillInv => Fill!TypeOK /\ Fill!FormIsMeant
  BY NoGuess DEF FillInv, Fill!FormIsMeant
<1> QED BY <1>1, <1>2, <1>3, PTL DEF Fill!Spec

-----------------------------------------------------------------------------
(* Materials. *)

\* The bounds are numbers.
MaterialsAssumption == MaxMade \in Nat /\ MaxTries \in Nat /\ MaxEdits \in Nat /\
  MaxFaults \in Nat

RowType == [at : Material!Stages \union Material!Waits \union Material!Ends,
            stage : Material!Stages,
            fence : Nat, leased : BOOLEAN, tries : 0 .. MaxTries]
ContextType == [master : Material!Masters \union {0}, artifact : Nat, letter : 0 .. MaxMade,
                allowed : SUBSET Material!Optional, answers : SUBSET Material!Facts]
WorkerType == [at : {"idle", "leased", "uploading", "uploaded", "posting", "filled"},
               fence : Nat, ctx : ContextType, letter : 0 .. MaxMade, artifact : Nat]
NetType == [kind : {"upload", "letter"}, fence : Nat, what : Nat]
SentType == [resume : Nat, letter : Nat, answers : SUBSET Material!Facts,
             allowed : SUBSET Material!Optional]

MaterialsTyped ==
    /\ profile \in [master : Material!Masters \union {0}, facts : SUBSET Material!Facts]
    /\ permits \in SUBSET Material!Optional /\ posting \in BOOLEAN /\ form \in Material!Fields
    /\ row \in RowType
    /\ artifacts \in Seq(Material!Artifact) /\ letter \in 0 .. MaxMade
    /\ worker \in WorkerType /\ net \subseteq NetType
    /\ seen \in SentType /\ sent \in SentType
    /\ spent \in [made : 0 .. MaxMade, edits : 0 .. MaxEdits, faults : 0 .. MaxFaults]

\* What is referred to is there, and no lease is of the future.
Refers ==
    /\ worker.fence <= row.fence
    /\ worker.artifact <= Len(artifacts) /\ worker.ctx.artifact <= Len(artifacts)
    /\ seen.resume <= Len(artifacts) /\ sent.resume <= Len(artifacts)
    /\ \A m \in net :
          /\ m.fence <= row.fence
          /\ m.kind = "upload" => m.what \in 1 .. Len(artifacts)
          /\ m.kind = "letter" => m.what \in 1 .. MaxMade

\* What a stage works from, and, so long as its lease holds, what is so.
ContextHolds ==
    /\ worker.letter # 0 => "letter" \in worker.ctx.allowed
    /\ "voluntary" \in worker.ctx.answers => "voluntary" \in worker.ctx.allowed
    /\ worker.ctx.letter # 0 => worker.ctx.letter = letter
    /\ worker.letter # 0 /\ worker.ctx.letter # 0 => worker.letter = worker.ctx.letter
LeaseHolds ==
    worker.at # "idle" /\ Material!Fenced(worker.fence) =>
        /\ worker.ctx.allowed = permits
        /\ row.at = "ready" =>
              /\ worker.ctx.artifact = Material!ArtifactOf(worker.ctx.master)
              /\ seen.letter # 0 => worker.ctx.letter = seen.letter

Up == {i \in DOMAIN artifacts : artifacts[i].up}

\* What was approved is what there is, and no upload comes after the approval.
ReviewHolds ==
    /\ seen.letter # 0 => letter = seen.letter
    /\ row.at = "ready" => seen.resume = Material!Newest(Up)
    /\ \A m \in net : m.kind = "upload" /\ m.fence = row.fence => row.at = "tailoring"

\* Only a stage is leased, and nothing is sent before the row says so.
SentLast ==
    /\ row.leased => row.at \in Material!Stages
    /\ row.at # "submitting" => sent = Material!Nothing

MaterialsInv == MaterialsTyped /\ Refers /\ ContextHolds /\ LeaseHolds /\ ReviewHolds /\
  SentLast /\ Material!MaterialsStand

-----------------------------------------------------------------------------
\* The newest of places that are there is one of them, and none is newer.
LEMMA NewestIsLast ==
    ASSUME NEW n \in Nat, NEW S \in SUBSET (1 .. n)
    PROVE  /\ S = {} => Material!Newest(S) = 0
           /\ S # {} => Material!Newest(S) \in S /\ \A i \in S : i <= Material!Newest(S)
           /\ Material!Newest(S) \in 0 .. n
<1>1. CASE S = {}
  BY <1>1 DEF Material!Newest
<1>2. CASE S # {}
  <2>1. \E i \in S : \A j \in S : i >= j
    BY <1>2, GreatestIsThere
  <2>2. Material!Max(S) \in S /\ \A j \in S : Material!Max(S) >= j
    BY <2>1 DEF Material!Max
  <2>3. Material!Newest(S) = Material!Max(S)
    BY <1>2 DEF Material!Newest
  <2> DEFINE top == Material!Max(S)
  <2>4. top \in S /\ \A j \in S : top >= j
    BY <2>2
  <2> HIDE DEF top
  <2>5. top \in 0 .. n /\ \A j \in S : j <= top
    BY <2>4
  <2>6. Material!Newest(S) = top
    BY <2>3 DEF top
  <2> QED BY <1>2, <2>4, <2>5, <2>6
<1> QED BY <1>1, <1>2

LEMMA StartTyped == MaterialsAssumption => Material!Idle \in WorkerType /\
  Material!Nothing \in SentType
BY DEF MaterialsAssumption, Material!Idle, Material!Nothing, Material!NoContext, WorkerType,
   ContextType, SentType

LEMMA Places ==
    ASSUME MaterialsTyped
    PROVE  /\ Len(artifacts) \in Nat /\ DOMAIN artifacts = 1 .. Len(artifacts)
           /\ \A i \in 1 .. Len(artifacts) :
                 artifacts[i] \in Material!Artifact /\ artifacts[i].of \in Material!Masters
           /\ \A m : Material!ArtifactOf(m) \in 0 .. Len(artifacts)
           /\ Material!Newest(Up) \in 0 .. Len(artifacts)
<1>1. /\ artifacts \in Seq(Material!Artifact) /\ Len(artifacts) \in Nat
      /\ DOMAIN artifacts = 1 .. Len(artifacts)
  BY LenProperties DEF MaterialsTyped
<1>2. \A i \in 1 .. Len(artifacts) : artifacts[i] \in Material!Artifact
  BY <1>1, ElementOfSeq
<1>3. \A m : Material!ArtifactOf(m) \in 0 .. Len(artifacts)
  BY <1>1, NewestIsLast DEF Material!ArtifactOf
<1>4. Material!Newest(Up) \in 0 .. Len(artifacts)
  BY <1>1, NewestIsLast DEF Up
<1> QED BY <1>1, <1>2, <1>3, <1>4 DEF Material!Artifact

\* What the world keeps typed.
WorldTyped ==
    /\ profile \in [master : Material!Masters \union {0}, facts : SUBSET Material!Facts]
    /\ permits \in SUBSET Material!Optional /\ posting \in BOOLEAN /\ form \in Material!Fields
    /\ spent \in [made : 0 .. MaxMade, edits : 0 .. MaxEdits, faults : 0 .. MaxFaults]

\* The row moves on: a lease that ends or is stale stays so, and none is approved.
Moves ==
    /\ row' \in RowType
    /\ \/ row' = row
       \/ row'.fence > row.fence
       \/ row'.fence = row.fence /\ row'.at = row.at /\ ~row'.leased
    /\ row'.leased => row'.at \in Material!Stages
    /\ row'.at = "ready" => row.at = "ready"
    /\ row'.at # "submitting" => sent = Material!Nothing
    /\ permits' = permits \/ ~row'.leased

\* The stage goes on or ends, and writes at most the letter it may.
Works ==
    \/ worker' \in {worker, Material!Idle}
    \/ /\ worker' \in WorkerType /\ worker.at # "idle"
       /\ worker'.fence = worker.fence /\ worker'.ctx = worker.ctx
       /\ worker'.artifact = worker.artifact
       /\ worker'.letter # worker.letter /\ worker'.letter # 0 =>
             /\ "letter" \in worker.ctx.allowed
             /\ worker.ctx.letter # 0 => worker'.letter = worker.ctx.letter

\* Requests arrive or are lost, and no upload is announced.
Sends ==
    \A m \in net' :
        m \in net \/ (/\ m \in NetType /\ m.kind = "letter"
                      /\ m.fence = worker.fence /\ m.what \in 1 .. MaxMade)

\* The first letter is kept.
Keeping == letter' \in 0 .. MaxMade /\ (letter' = letter \/ letter = 0)

LEMMA MoveKeeps ==
    ASSUME MaterialsAssumption, MaterialsInv, UNCHANGED <<artifacts, seen, sent>>, WorldTyped',
           Moves,
           Works, Sends, Keeping
    PROVE  MaterialsInv'
<1> USE DEF MaterialsInv
<1>1. MaterialsTyped'
  BY StartTyped DEF MaterialsTyped, WorldTyped, Moves, Works, Sends, Keeping
<1>2. row.fence \in Nat /\ row'.fence \in Nat /\ row.fence <= row'.fence
  BY <1>1 DEF MaterialsTyped, Moves, RowType
<1>3. worker.fence \in Nat /\ Len(artifacts) \in Nat
  BY Places DEF MaterialsTyped, WorkerType
<1>4. \A m \in net : m.fence \in Nat
  BY DEF MaterialsTyped, NetType
<1>5. Refers'
  BY <1>2, <1>3, <1>4 DEF Refers, Material!Idle, Material!NoContext, Works, Sends
<1>6. ContextHolds'
  BY DEF ContextHolds, Material!Idle, Material!NoContext, Works, Keeping
<1>7. LeaseHolds'
  <2> SUFFICES ASSUME worker'.at # "idle", row'.leased, row'.fence = worker'.fence
               PROVE  /\ worker'.ctx.allowed = permits'
                      /\ row'.at = "ready" =>
                            /\ worker'.ctx.artifact = Material!ArtifactOf(worker.ctx.master)'
                            /\ seen'.letter # 0 => worker'.ctx.letter = seen'.letter
    <3>1. worker'.at # "idle" => worker'.ctx = worker.ctx
      BY DEF Material!Idle, Works
    <3> QED BY <3>1 DEF LeaseHolds, Material!Fenced
  <2>1. worker'.ctx = worker.ctx /\ worker'.fence = worker.fence /\ worker.at # "idle"
    BY DEF Material!Idle, Works
  <2>2. row' = row /\ permits' = permits
    BY <1>2, <1>3, <2>1 DEF Moves, Refers
  <2>3. worker.at # "idle" /\ Material!Fenced(worker.fence)
    BY <2>1, <2>2 DEF Material!Fenced
  <2> QED BY <2>1, <2>2, <2>3 DEF LeaseHolds, Material!ArtifactOf
<1>8. ReviewHolds'
  <2>1. \A m \in net' : m.kind = "upload" /\ m.fence = row'.fence => row'.at = "tailoring"
    BY <1>2, <1>4 DEF ReviewHolds, Moves, Refers, Sends
  <2> QED BY <2>1 DEF ReviewHolds, Moves, Up, Keeping
<1>9. SentLast'
  BY DEF SentLast, Moves
<1>10. Material!MaterialsStand'
  BY DEF Material!MaterialsStand, Material!LetterStands, Material!ResumeStands,
     Material!PolicyStands, Material!Master
<1> QED BY <1>1, <1>5, <1>6, <1>7, <1>8, <1>9, <1>10

LEMMA RowTyped ==
    ASSUME NEW q \in RowType, NEW at \in Material!Stages \cup Material!Waits \cup Material!Ends,
               NEW leased \in BOOLEAN,
           NEW fence \in Nat, NEW stage \in Material!Stages
    PROVE  [q EXCEPT !.at = at, !.leased = leased, !.fence = fence, !.stage = stage] \in RowType
BY DEF RowType

LEMMA ReportMoves ==
    ASSUME MaterialsInv,
           NEW at \in {"tailoring", "filling"} \cup Material!Waits \cup {"skipped"},
               Material!Report(at),
           permits' = permits
    PROVE  Moves /\ worker' = Material!Idle
<1>1. row \in RowType
  BY DEF MaterialsInv, MaterialsTyped
<1>2. CASE Material!Fenced(worker.fence)
  <2> DEFINE stage == IF at \in Material!Stages THEN at ELSE row.stage
             r == [row EXCEPT !.at = at, !.leased = FALSE, !.fence = row.fence + 1, !.stage = stage]
  <2>1. row' = r /\ worker' = Material!Idle
    BY <1>2 DEF Material!Report
  <2>2. at \in Material!Stages \cup Material!Waits \cup Material!Ends /\ at # "ready"
    BY DEF Material!Stages, Material!Waits, Material!Ends
  <2>3. stage \in Material!Stages
    BY <1>1 DEF RowType
  <2> HIDE DEF stage
  <2>4. r \in RowType
    <3>1. row.fence + 1 \in Nat
      BY <1>1 DEF RowType
    <3> QED BY <1>1, <2>2, <2>3, <3>1, RowTyped
  <2>6. r.fence > row.fence /\ ~r.leased /\ r.at = at
    BY <1>1 DEF RowType
  <2> HIDE DEF r
  <2>5. row.at # "submitting" /\ sent = Material!Nothing
    BY <1>2 DEF MaterialsInv, SentLast, Material!Fenced, Material!Stages
  <2> QED BY <2>1, <2>2, <2>4, <2>5, <2>6 DEF Moves
<1>3. CASE ~Material!Fenced(worker.fence)
  BY <1>1, <1>3 DEF Material!Report, Moves, MaterialsInv, SentLast
<1> QED BY <1>2, <1>3

\* A step of the worker that only reports.
Quiet == Material!Unmade /\ UNCHANGED <<artifacts, letter, net, spent>>

LEMMA ReportKeeps ==
    ASSUME MaterialsAssumption, MaterialsInv, Quiet,
           NEW at \in {"tailoring", "filling"} \cup Material!Waits \cup {"skipped"},
               Material!Report(at)
    PROVE  MaterialsInv'
BY ReportMoves, MoveKeeps DEF Quiet, Material!Unmade, MaterialsInv, MaterialsTyped, WorldTyped,
   Works, Sends, Keeping

LEMMA ReportsKeep ==
    ASSUME MaterialsAssumption, MaterialsInv, Material!Screen \/ Material!TailorAtOnce \/
           Material!Tailored \/ Material!Hold \/ Material!Park
    PROVE  MaterialsInv'
<1>1. \E at \in {"tailoring", "filling"} \cup Material!Waits \cup {"skipped"} : Material!Report(at)
  BY DEF Material!Screen, Material!TailorAtOnce, Material!Tailored, Material!Hold,
     Material!Park, Material!Waits
<1>2. Quiet
  BY DEF Material!Screen, Material!TailorAtOnce, Material!Tailored, Material!Hold,
     Material!Park, Quiet
<1> QED BY <1>1, <1>2, ReportKeeps

LEMMA RefusedKeeps ==
    ASSUME MaterialsAssumption, MaterialsInv, Material!Refused
    PROVE  MaterialsInv'
<1>1. Moves /\ WorldTyped'
  BY DEF Material!Refused, Material!Unmade, Moves, MaterialsInv, MaterialsTyped, SentLast,
     WorldTyped
<1> QED BY <1>1, MoveKeeps DEF Material!Refused, Material!Unmade, Works, Sends, Keeping,
           MaterialsInv, MaterialsTyped


\* The row changes to a whole row, and no lease is held.
Becomes(r) ==
    /\ r \in RowType /\ ~r.leased
    /\ r.fence > row.fence \/ (r.fence = row.fence /\ r.at = row.at)
    /\ r.at = "ready" => row.at = "ready"
    /\ r.at # "submitting" => row.at # "submitting"

LEMMA BecomesKeeps ==
    ASSUME MaterialsAssumption, MaterialsInv, Becomes(row'), WorldTyped', worker' = worker,
           net' = net,
           UNCHANGED <<artifacts, letter, seen, sent>>
    PROVE  MaterialsInv'
<1>1. Moves
  BY DEF Becomes, MaterialsInv, SentLast, Moves
<1> QED BY <1>1, MoveKeeps DEF Works, Sends, Keeping, MaterialsInv, MaterialsTyped

LEMMA RowChangesKeep ==
    ASSUME MaterialsAssumption, MaterialsInv, Material!LeaseGone \/ Material!Retry \/
           Material!Answer \/ Material!Expire \/ Material!SavePolicy
    PROVE  MaterialsInv'
<1>1. /\ row \in RowType /\ row.fence \in Nat /\ row.fence + 1 \in Nat /\
           row.fence + 1 > row.fence
      /\ row.at \in Material!Stages \cup Material!Waits \cup Material!Ends /\
           row.stage \in Material!Stages /\ WorldTyped
  BY DEF MaterialsInv, MaterialsTyped, RowType, WorldTyped
<1>2. CASE Material!LeaseGone
  <2>1. row' = [row EXCEPT !.fence = row.fence + 1, !.stage = row.at, !.at = "retry"]
    BY <1>2 DEF Material!LeaseGone
  <2>2. row' \in RowType
    BY <1>1, <1>2, <2>1 DEF Material!LeaseGone, RowType, Material!Waits
  <2>3. Becomes(row')
    BY <1>1, <1>2, <2>1, <2>2 DEF Material!LeaseGone, Becomes, RowType, Material!Stages
  <2> QED BY <1>1, <1>2, <2>3, BecomesKeeps DEF Material!LeaseGone, WorldTyped
<1>3. CASE Material!Retry
  <2> DEFINE at == IF row.stage = "ready" THEN "filling" ELSE row.stage
  <2>1. row' = [row EXCEPT !.at = at, !.tries = row.tries + 1, !.fence = row.fence + 1]
    BY <1>3 DEF Material!Retry
  <2>2. at \in Material!Stages /\ at # "ready" /\ row.tries + 1 \in 0 .. MaxTries
    BY <1>1, <1>3 DEF Material!Retry, Material!Stages, RowType, MaterialsAssumption
  <2> HIDE DEF at
  <2>3. row' \in RowType
    BY <1>1, <2>1, <2>2 DEF RowType
  <2>4. row.at \notin Material!Stages /\ ~row.leased
    BY <1>3 DEF Material!Retry, Material!Stages, MaterialsInv, SentLast
  <2>5. Becomes(row')
    BY <1>1, <1>3, <2>1, <2>2, <2>3, <2>4 DEF Material!Retry, Becomes, RowType, Material!Stages
  <2> QED BY <1>1, <1>3, <2>5, BecomesKeeps DEF Material!Retry, WorldTyped
<1>4. CASE Material!Answer
  <2>1. row' = [row EXCEPT !.at = "screening", !.fence = row.fence + 1]
    BY <1>4 DEF Material!Answer
  <2>2. row' \in RowType
    BY <1>1, <2>1 DEF RowType, Material!Stages
  <2>3. row.at \notin Material!Stages /\ ~row.leased
    BY <1>4 DEF Material!Answer, Material!Stages, MaterialsInv, SentLast
  <2>4. Becomes(row')
    BY <1>1, <1>4, <2>1, <2>2, <2>3 DEF Material!Answer, Becomes, RowType
  <2>5. WorldTyped'
    BY <1>1, <1>4 DEF Material!Answer, WorldTyped
  <2> QED BY <1>4, <2>4, <2>5, BecomesKeeps DEF Material!Answer
<1>5. CASE Material!Expire
  <2>1. row' = [row EXCEPT !.leased = FALSE] /\ row' \in RowType
    BY <1>1, <1>5 DEF Material!Expire, RowType
  <2>2. Becomes(row')
    BY <1>1, <2>1 DEF Becomes, RowType
  <2> QED BY <1>1, <1>5, <2>2, BecomesKeeps DEF Material!Expire, Material!Unmade, WorldTyped
<1>6. CASE Material!SavePolicy
  <2> DEFINE at == IF row.at \in {"ready", "approval"} THEN "screening" ELSE row.at
  <2>1. row' = [row EXCEPT !.leased = FALSE, !.fence = row.fence + 1, !.at = at]
    BY <1>6 DEF Material!SavePolicy, Material!Refilled
  <2>2. at \in Material!Stages \cup Material!Waits \cup Material!Ends /\ at # "ready" /\
        row.at # "submitting"
    BY <1>1, <1>6 DEF Material!SavePolicy, Material!Edit, Material!Ends, Material!Stages
  <2> HIDE DEF at
  <2>3. row' \in RowType
    BY <1>1, <2>1, <2>2 DEF RowType
  <2>4. Becomes(row')
    BY <1>1, <2>1, <2>2, <2>3 DEF Becomes, RowType
  <2>5. WorldTyped'
    BY <1>1, <1>6 DEF Material!SavePolicy, Material!Edit, WorldTyped, Material!Optional,
       MaterialsAssumption
  <2> QED BY <1>6, <2>4, <2>5, BecomesKeeps DEF Material!SavePolicy, Material!Edit
<1> QED BY <1>2, <1>3, <1>4, <1>5, <1>6

LEMMA WorldKeeps ==
    ASSUME MaterialsAssumption, MaterialsInv, Material!EditProfile \/ Material!Employer
    PROVE  MaterialsInv'
<1>1. WorldTyped'
  <2>1. WorldTyped
    BY DEF MaterialsInv, MaterialsTyped, WorldTyped
  <2>2. spent' \in [made : 0 .. MaxMade, edits : 0 .. MaxEdits, faults : 0 .. MaxFaults]
    BY <2>1 DEF Material!EditProfile, Material!Employer, Material!Edit, WorldTyped,
       MaterialsAssumption
  <2>3. CASE Material!EditProfile
    <3>1. profile.facts \in SUBSET Material!Facts /\ profile.master \in Material!Masters \cup {0}
      BY <2>1 DEF WorldTyped
    <3>2. ASSUME NEW f \in profile.facts,
                     profile' = [profile EXCEPT !.facts = profile.facts \ {f}]
          PROVE  profile' \in [master : Material!Masters \cup {0}, facts : SUBSET Material!Facts]
      <4>1. profile.facts \ {f} \in SUBSET Material!Facts
        BY <3>1
      <4> DEFINE known == profile.facts \ {f}
      <4> HIDE DEF known
      <4>2. profile' = [profile EXCEPT !.facts = known] /\ known \in SUBSET Material!Facts
        BY <3>2, <4>1 DEF known
      <4> QED BY <2>1, <4>2 DEF WorldTyped
    <3>3. ASSUME NEW m \in Material!Masters, profile' = [profile EXCEPT !.master = m]
          PROVE  profile' \in [master : Material!Masters \cup {0}, facts : SUBSET Material!Facts]
      BY <2>1, <3>3 DEF WorldTyped
    <3>4. profile' \in [master : Material!Masters \cup {0}, facts : SUBSET Material!Facts]
      BY <2>3, <3>2, <3>3 DEF Material!EditProfile
    <3> QED BY <2>1, <2>2, <2>3, <3>4 DEF Material!EditProfile, WorldTyped
  <2>4. CASE Material!Employer
    BY <2>1, <2>2, <2>4 DEF Material!Employer, WorldTyped
  <2> QED BY <2>3, <2>4
<1>2. Moves
  BY DEF Material!EditProfile, Material!Employer, Material!Edit, Moves, MaterialsInv, SentLast,
     MaterialsTyped
<1> QED
  BY <1>1, <1>2, MoveKeeps DEF Material!EditProfile, Material!Employer, Material!Edit, Works,
     Sends, Keeping, MaterialsInv, MaterialsTyped

LEMMA FaultKeeps == ASSUME MaterialsAssumption, MaterialsInv, Material!Fault PROVE MaterialsInv'
<1>1. WorldTyped'
  BY DEF Material!Fault, Material!Unmade, MaterialsInv, MaterialsTyped, WorldTyped,
     MaterialsAssumption
<1>2. Moves /\ worker' = Material!Idle
  <2>1. CASE worker' = Material!Idle /\ UNCHANGED row
    BY <2>1 DEF Material!Fault, Material!Unmade, Moves, MaterialsInv, SentLast, MaterialsTyped
  <2>2. CASE Material!Report("retry")
    BY <2>2, ReportMoves DEF Material!Fault, Material!Unmade, Material!Waits
  <2> QED BY <2>1, <2>2 DEF Material!Fault
<1> QED BY <1>1, <1>2, MoveKeeps DEF Material!Fault, Material!Unmade, Works, Sends, Keeping,
           MaterialsInv, MaterialsTyped

LEMMA FillKeeps == ASSUME MaterialsAssumption, MaterialsInv, Material!Fill PROVE MaterialsInv'
<1> DEFINE new == IF Material!WantsLetter THEN Material!Written ELSE 0
           at == IF new # 0 /\ row.stage = "filling" THEN "posting" ELSE "filled"
<1>1. /\ spent.made \in 0 .. MaxMade /\ worker \in WorkerType /\
           worker.ctx.letter \in 0 .. MaxMade
      /\ worker.fence \in Nat /\ WorldTyped /\ MaxMade \in Nat
  BY DEF MaterialsInv, MaterialsTyped, WorldTyped, WorkerType, ContextType, MaterialsAssumption
<1>2. new \in 0 .. MaxMade
  BY <1>1 DEF Material!Fill, Material!Written
<1>3. /\ new # 0 => "letter" \in worker.ctx.allowed
      /\ worker' = [worker EXCEPT !.letter = new, !.at = at]
      /\ net' = IF new # 0 /\ row.stage = "filling"
                THEN net \cup {[kind |-> "letter", fence |-> worker.fence, what |-> new]} ELSE net
      /\ spent' = [spent EXCEPT !.made = IF new > spent.made THEN new ELSE spent.made]
  BY DEF Material!Fill
<1>4. worker.ctx.letter # 0 /\ new # 0 => new = worker.ctx.letter
  BY DEF Material!Written
<1>5. at \in {"posting", "filled"}
  OBVIOUS
<1> HIDE DEF new, at
<1>6. worker' \in WorkerType /\ worker'.letter = new
  BY <1>1, <1>2, <1>3, <1>5 DEF WorkerType
<1>7. worker'.fence = worker.fence /\ worker'.ctx = worker.ctx /\
      worker'.artifact = worker.artifact
  BY <1>1, <1>3 DEF WorkerType
<1>8. Works
  BY <1>3, <1>4, <1>6, <1>7 DEF Works, Material!Fill
<1>9. Sends
  <2> DEFINE m == [kind |-> "letter", fence |-> worker.fence, what |-> new]
  <2>1. new # 0 => m \in NetType /\ m.kind = "letter" /\ m.fence = worker.fence /\
        m.what \in 1 .. MaxMade
    BY <1>1, <1>2 DEF NetType
  <2> QED BY <1>3, <2>1 DEF Sends
<1>10. WorldTyped'
  <2> DEFINE made == IF new > spent.made THEN new ELSE spent.made
  <2>1. made \in 0 .. MaxMade
    BY <1>1, <1>2
  <2> HIDE DEF made
  <2>2. spent' = [spent EXCEPT !.made = made]
    BY <1>3 DEF made
  <2>3. spent' \in [made : 0 .. MaxMade, edits : 0 .. MaxEdits, faults : 0 .. MaxFaults]
    BY <1>1, <2>1, <2>2 DEF WorldTyped
  <2> QED BY <1>1, <2>3 DEF Material!Fill, Material!Unmade, WorldTyped
<1>11. Moves /\ Keeping
  BY DEF Material!Fill, Material!Unmade, Moves, Keeping, MaterialsInv, MaterialsTyped, SentLast
<1> QED BY <1>8, <1>9, <1>10, <1>11, MoveKeeps DEF Material!Fill, Material!Unmade

LEMMA PostKeeps == ASSUME MaterialsAssumption, MaterialsInv, Material!Post PROVE MaterialsInv'
<1>1. PICK m \in net :
        /\ m.kind = "letter" /\ net' = net \ {m}
        /\ letter' = IF Material!Keeps THEN m.what ELSE letter
        /\ IF worker.at = "posting" /\ worker.fence = m.fence
           THEN IF row.at = "filling" THEN worker' = [worker EXCEPT !.at = "filled"] /\
             UNCHANGED row
                ELSE Material!Report("retry")
           ELSE UNCHANGED <<worker, row>>
  BY DEF Material!Post
<1>2. m.what \in 1 .. MaxMade
  BY <1>1 DEF MaterialsInv, Refers
<1>3. Keeping
  BY <1>1, <1>2 DEF Keeping, Material!Keeps, MaterialsInv, MaterialsTyped
<1>4. WorldTyped' /\ Sends /\ UNCHANGED <<artifacts, seen, sent, permits>>
  BY <1>1 DEF Material!Post, Material!Unmade, WorldTyped, MaterialsInv, MaterialsTyped, Sends
<1>5. Moves /\ Works
  <2>1. CASE UNCHANGED <<worker, row>>
    BY <1>4, <2>1 DEF Moves, Works, MaterialsInv, MaterialsTyped, SentLast
  <2>2. CASE Material!Report("retry")
    BY <1>4, <2>2, ReportMoves DEF Works, Material!Waits
  <2>3. CASE worker.at = "posting" /\ worker' = [worker EXCEPT !.at = "filled"] /\ UNCHANGED row
    <3>1. Moves
      BY <1>4, <2>3 DEF Moves, MaterialsInv, MaterialsTyped, SentLast
    <3>2. Works
      BY <2>3 DEF Works, MaterialsInv, MaterialsTyped, WorkerType
    <3> QED BY <3>1, <3>2
  <2> QED BY <1>1, <2>1, <2>2, <2>3
<1> QED BY <1>3, <1>4, <1>5, MoveKeeps

LEMMA ContextTyped ==
    ASSUME MaterialsAssumption, MaterialsInv
    PROVE  /\ Material!Context \in ContextType /\ Material!Context.letter = letter /\
                Material!Context.allowed = permits
           /\ Material!Context.artifact = Material!ArtifactOf(Material!Context.master) /\
                Material!Context.artifact <= Len(artifacts)
           /\ "voluntary" \in Material!Context.answers => "voluntary" \in Material!Context.allowed
<1>1. /\ profile.master \in Material!Masters \cup {0} /\ profile.facts \in SUBSET Material!Facts
      /\ permits \in SUBSET Material!Optional /\ letter \in 0 .. MaxMade
  BY DEF MaterialsInv, MaterialsTyped
<1>2. Material!Answers \in SUBSET Material!Facts /\
      ("voluntary" \in Material!Answers => "voluntary" \in permits)
  BY <1>1 DEF Material!Answers
<1>3. Material!ArtifactOf(profile.master) \in 0 .. Len(artifacts) /\ Len(artifacts) \in Nat
  BY Places DEF MaterialsInv
<1>4. Material!ArtifactOf(profile.master) \in Nat /\
      Material!ArtifactOf(profile.master) <= Len(artifacts)
  BY <1>3
<1>5. Material!Context \in ContextType
  BY <1>1, <1>2, <1>4 DEF Material!Context, ContextType
<1> QED BY <1>2, <1>4, <1>5 DEF Material!Context

LEMMA LeaseKeeps == ASSUME MaterialsAssumption, MaterialsInv, Material!Lease PROVE MaterialsInv'
<1> USE DEF MaterialsInv
<1>1. /\ row \in RowType /\ row.fence \in Nat /\ row.fence + 1 \in Nat /\
           row.fence < row.fence + 1
      /\ Material!Idle \in WorkerType /\ Material!Idle.letter = 0 /\ Material!Idle.artifact = 0
  BY StartTyped DEF MaterialsTyped, RowType, Material!Idle
<1>2. /\ row' = [row EXCEPT !.leased = TRUE, !.fence = row.fence + 1, !.stage = row.at]
      /\ row.at \in Material!Stages
      /\ worker' = [Material!Idle EXCEPT !.at = "leased", !.fence = row.fence + 1,
                                         !.ctx = Material!Context]
      /\ UNCHANGED <<profile, permits, posting, form, artifacts, letter, net, seen, sent, spent>>
  BY DEF Material!Lease
<1>3. /\ row' \in RowType /\ row'.fence = row.fence + 1 /\ row'.at = row.at /\ row'.leased
  BY <1>1, <1>2 DEF RowType
<1>4. /\ worker' \in WorkerType /\ worker'.fence = row.fence + 1 /\ worker'.ctx = Material!Context
      /\ worker'.letter = 0 /\ worker'.artifact = 0
  BY <1>1, <1>2, ContextTyped DEF WorkerType
<1>5. MaterialsTyped'
  BY <1>2, <1>3, <1>4 DEF MaterialsTyped
<1>6. Refers'
  <2>1. Len(artifacts) \in Nat
    BY Places
  <2>2. \A m \in net : m.fence \in Nat /\ m.fence <= row.fence
    BY DEF MaterialsTyped, NetType, Refers
  <2>3. \A m \in net' : m.fence <= row'.fence
    BY <1>1, <1>2, <1>3, <2>2
  <2> QED BY <1>1, <1>2, <1>3, <1>4, <2>1, <2>3, ContextTyped DEF Refers
<1>7. ContextHolds'
  BY <1>2, <1>4, ContextTyped DEF ContextHolds
<1>8. LeaseHolds'
  <2>2. worker'.ctx.allowed = permits' /\ worker'.ctx.letter = letter
    BY <1>2, <1>4, ContextTyped
  <2>3. row'.at = "ready" => (seen'.letter # 0 => worker'.ctx.letter = seen'.letter)
    BY <1>2, <1>3, <2>2 DEF ReviewHolds
  <2>4. (worker.ctx.artifact = Material!ArtifactOf(worker.ctx.master))'
    BY <1>2, <1>4, ContextTyped DEF Material!ArtifactOf
  <2> QED BY <2>2, <2>3, <2>4 DEF LeaseHolds
<1>9. ReviewHolds'
  <2>1. \A m \in net : m.fence \in Nat /\ m.fence <= row.fence
    BY DEF MaterialsTyped, NetType, Refers
  <2>2. \A m \in net' : m.fence # row'.fence
    BY <1>1, <1>2, <1>3, <2>1
  <2> QED BY <1>2, <1>3, <2>2 DEF ReviewHolds, Up
<1>10. SentLast'
  BY <1>2, <1>3 DEF SentLast, Material!Stages
<1>11. Material!MaterialsStand'
  BY <1>2 DEF Material!MaterialsStand, Material!LetterStands, Material!ResumeStands,
     Material!PolicyStands, Material!Master
<1> QED BY <1>5, <1>6, <1>7, <1>8, <1>9, <1>10, <1>11

LEMMA ApproveKeeps ==
    ASSUME MaterialsAssumption, MaterialsInv, Material!Approve
    PROVE  MaterialsInv'
<1> USE DEF MaterialsInv
<1>1. /\ row \in RowType /\ row.fence \in Nat /\ row.fence + 1 \in Nat /\
           row.fence < row.fence + 1
      /\ Material!Nothing \in SentType /\ sent = Material!Nothing /\ ~row.leased
  BY StartTyped DEF MaterialsTyped, RowType, SentLast, Material!Approve, Material!Stages
<1>2. /\ row' = [row EXCEPT !.at = "ready", !.fence = row.fence + 1]
      /\ seen' = Material!Shown
      /\ UNCHANGED <<profile, permits, posting, form, artifacts, letter, worker, net, sent,
           spent>>
  BY DEF Material!Approve
<1>3. row' \in RowType /\ row'.fence = row.fence + 1 /\ row'.at = "ready" /\ ~row'.leased
  BY <1>1, <1>2 DEF RowType, Material!Stages
<1>4. Material!Newest(Up) \in 0 .. Len(artifacts) /\ Len(artifacts) \in Nat
  BY Places
<1>5. Material!Shown = [Material!Nothing EXCEPT !.resume = Material!Newest(Up), !.letter = letter]
  BY DEF Material!Shown, Up
<1>6. Material!Shown \in SentType /\ Material!Shown.resume = Material!Newest(Up) /\
      Material!Shown.letter = letter
  <2>1. Material!Newest(Up) \in Nat /\ letter \in 0 .. MaxMade
    BY <1>4 DEF MaterialsTyped
  <2> DEFINE newest == Material!Newest(Up)
             s == [Material!Nothing EXCEPT !.resume = newest, !.letter = letter]
  <2>2. newest \in Nat /\ letter \in Nat
    BY <2>1 DEF MaterialsAssumption
  <2> HIDE DEF newest
  <2>3. s \in SentType /\ s.resume = newest /\ s.letter = letter
    BY <1>1, <2>2 DEF SentType
  <2> HIDE DEF s
  <2>4. Material!Shown = s
    BY <1>5 DEF s, newest
  <2> QED BY <2>3, <2>4 DEF newest
<1>7. MaterialsTyped'
  BY <1>2, <1>3, <1>6 DEF MaterialsTyped
<1>8. \A m \in net : m.fence \in Nat /\ m.fence <= row.fence
  BY DEF MaterialsTyped, NetType, Refers
<1>9. Refers'
  <2>1. worker.fence \in Nat
    BY DEF MaterialsTyped, WorkerType
  <2>2. \A m \in net' : m.fence <= row'.fence
    BY <1>1, <1>2, <1>3, <1>8
  <2> QED BY <1>1, <1>2, <1>3, <1>4, <1>6, <2>1, <2>2 DEF Refers
<1>10. ContextHolds' /\ LeaseHolds'
  BY <1>2, <1>3 DEF ContextHolds, LeaseHolds, Material!Fenced
<1>11. ReviewHolds'
  <2>1. \A m \in net' : m.fence # row'.fence
    BY <1>1, <1>2, <1>3, <1>8
  <2> QED BY <1>2, <1>3, <1>6, <2>1 DEF ReviewHolds, Up
<1>12. SentLast' /\ Material!MaterialsStand'
  BY <1>1, <1>2, <1>3 DEF SentLast, Material!MaterialsStand, Material!LetterStands,
     Material!ResumeStands, Material!PolicyStands, Material!Master, Material!Nothing
<1> QED BY <1>7, <1>9, <1>10, <1>11, <1>12

\* Of two artifacts that are the newest, one of all and one of its master, the
\* same master means the same artifact.
LEMMA SameMaster ==
    ASSUME MaterialsTyped, NEW m, Material!ArtifactOf(m) # 0,
           Material!Master(Material!ArtifactOf(m)) = Material!Master(Material!Newest(Up))
    PROVE  Material!ArtifactOf(m) = Material!Newest(Up)
<1> DEFINE Of == {i \in DOMAIN artifacts : artifacts[i].of = m /\ artifacts[i].up}
<1>1. Len(artifacts) \in Nat /\ DOMAIN artifacts = 1 .. Len(artifacts)
  BY Places
<1>2. Of \in SUBSET (1 .. Len(artifacts)) /\ Up \in SUBSET (1 .. Len(artifacts))
  BY <1>1 DEF Up
<1>3. Material!ArtifactOf(m) = Material!Newest(Of)
  BY DEF Material!ArtifactOf
<1>4. Of # {} /\ Material!Newest(Of) \in Of /\ \A i \in Of : i <= Material!Newest(Of)
  BY <1>1, <1>2, <1>3, NewestIsLast
<1>5. Up # {} /\ Material!Newest(Of) \in Up
  BY <1>4 DEF Up
<1>6. Material!Newest(Up) \in Up /\ \A i \in Up : i <= Material!Newest(Up)
  BY <1>1, <1>2, <1>5, NewestIsLast
<1>7. Material!Newest(Of) \in Nat /\ Material!Newest(Up) \in Nat /\ Material!Newest(Of) # 0 /\
      Material!Newest(Up) # 0
  <2>1. Material!Newest(Of) \in 1 .. Len(artifacts)
    BY <1>2, <1>4, Zenon
  <2>2. Material!Newest(Up) \in 1 .. Len(artifacts)
    BY <1>2, <1>6, Zenon
  <2> QED BY <1>1, <2>1, <2>2
<1>8. artifacts[Material!Newest(Of)].of = m /\ artifacts[Material!Newest(Up)].of = m
  BY <1>3, <1>4, <1>7 DEF Material!Master
<1>9. Material!Newest(Up) \in Of
  BY <1>6, <1>8 DEF Up
<1> QED BY <1>3, <1>4, <1>5, <1>6, <1>7, <1>9

LEMMA BeginKeeps == ASSUME MaterialsAssumption, MaterialsInv, Material!Begin PROVE MaterialsInv'
<1> USE DEF MaterialsInv
<1>1. /\ row \in RowType /\ row.fence \in Nat /\ worker \in WorkerType /\
           worker.ctx \in ContextType
      /\ Material!Idle \in WorkerType /\ permits \in SUBSET Material!Optional
  BY StartTyped DEF MaterialsTyped, RowType, WorkerType
<1>2. /\ worker.at = "filled" /\ row.at = "ready" /\ Material!Fenced(worker.fence)
      /\ row' = [row EXCEPT !.at = "submitting", !.leased = FALSE]
      /\ sent' = [resume |-> worker.ctx.artifact, letter |-> worker.letter,
                  answers |-> worker.ctx.answers, allowed |-> permits]
      /\ worker' = Material!Idle
      /\ UNCHANGED <<profile, permits, posting, form, artifacts, letter, net, seen, spent>>
  BY DEF Material!Begin, Material!MayBegin
<1>3. row' \in RowType /\ row'.fence = row.fence /\ row'.at = "submitting" /\ ~row'.leased
  BY <1>1, <1>2 DEF RowType, Material!Ends
<1>4. /\ sent' \in SentType /\ sent'.resume = worker.ctx.artifact /\ sent'.letter = worker.letter
      /\ sent'.answers = worker.ctx.answers /\ sent'.allowed = permits
  <2>1. worker.ctx.artifact \in Nat /\ worker.letter \in 0 .. MaxMade /\
        worker.ctx.answers \in SUBSET Material!Facts
    BY <1>1 DEF WorkerType, ContextType
  <2>2. worker.letter \in Nat
    BY <2>1 DEF MaterialsAssumption
  <2> QED BY <1>1, <1>2, <2>1, <2>2 DEF SentType
<1>5. MaterialsTyped'
  BY <1>1, <1>2, <1>3, <1>4 DEF MaterialsTyped
<1>6. Refers'
  BY <1>1, <1>2, <1>3, <1>4, Places DEF Refers, Material!Idle, Material!NoContext
<1>7. ContextHolds' /\ LeaseHolds'
  BY <1>2 DEF ContextHolds, LeaseHolds, Material!Idle, Material!NoContext
<1>8. ReviewHolds'
  <2>1. \A m \in net : ~(m.kind = "upload" /\ m.fence = row.fence)
    BY <1>2 DEF ReviewHolds
  <2> QED BY <1>2, <1>3, <2>1 DEF ReviewHolds
<1>9. SentLast'
  BY <1>3 DEF SentLast
<1>10. /\ worker.ctx.allowed = permits /\
            worker.ctx.artifact = Material!ArtifactOf(worker.ctx.master)
       /\ seen.letter # 0 => worker.ctx.letter = seen.letter
       /\ seen.resume = Material!Newest(Up)
  BY <1>2 DEF LeaseHolds, ReviewHolds
<1>11. Material!LetterStands' /\ Material!PolicyStands'
  BY <1>2, <1>4, <1>10 DEF ContextHolds, Material!LetterStands, Material!PolicyStands
<1>12. Material!ResumeStands'
  <2> SUFFICES ASSUME sent'.resume # 0,
                      Material!Master(worker.ctx.artifact) = Material!Master(Material!Newest(Up))
               PROVE  worker.ctx.artifact = Material!Newest(Up)
    BY <1>2, <1>4, <1>10 DEF Material!ResumeStands, Material!Master
  <2> QED BY <1>4, <1>10, SameMaster
<1> QED BY <1>5, <1>6, <1>7, <1>8, <1>9, <1>11, <1>12 DEF Material!MaterialsStand

\* Under a lease that works on the resume nothing has been reviewed or sent.
Tailoring == row.leased /\ row.at = "tailoring"

LEMMA PlaceIsThere ==
    ASSUME MaterialsTyped, NEW m, NEW text
    PROVE  /\ Material!Place(m, text) \in 1 .. Len(artifacts) + 1
           /\ Material!Place(m, text) \notin DOMAIN artifacts =>
                Material!Place(m, text) = Len(artifacts) + 1
<1> DEFINE same == {i \in DOMAIN artifacts : artifacts[i].of = m /\ artifacts[i].text = text}
<1>1. Len(artifacts) \in Nat /\ DOMAIN artifacts = 1 .. Len(artifacts)
  BY Places
<1>2. same \in SUBSET (1 .. Len(artifacts))
  BY <1>1
<1>3. Material!Place(m, text) = IF same = {} THEN Len(artifacts) + 1 ELSE Material!Newest(same)
  BY DEF Material!Place
<1> HIDE DEF same
<1>4. same # {} => Material!Newest(same) \in 1 .. Len(artifacts)
  BY <1>1, <1>2, NewestIsLast
<1> QED BY <1>1, <1>3, <1>4

\* Artifacts are made, or available, while the resume is worked on.
LEMMA ArtifactsKeep ==
    ASSUME MaterialsAssumption, MaterialsInv, Tailoring,
           UNCHANGED <<profile, permits, posting, form, row, letter, seen, sent>>, WorldTyped',
           artifacts' \in Seq(Material!Artifact), Len(artifacts') >= Len(artifacts),
           worker' \in WorkerType,
           worker' = worker \/ (/\ worker.at # "idle" /\ worker'.fence = worker.fence
                                /\ worker'.ctx = worker.ctx /\ worker'.letter = worker.letter
                                /\ worker'.artifact <= Len(artifacts')),
           \A m \in net' : m \in net \/ (/\ m \in NetType /\ m.kind = "upload" /\ m.fence <= row.fence
                                         /\ m.what \in 1 .. Len(artifacts'))
    PROVE  MaterialsInv'
<1> USE DEF MaterialsInv
<1>1. MaterialsTyped'
  BY DEF MaterialsTyped, WorldTyped
<1>2. Len(artifacts) \in Nat /\ Len(artifacts') \in Nat
  BY <1>1, Places, LenProperties
<1>3. Refers'
  <2>1. /\ worker.artifact \in Nat /\ worker.ctx.artifact \in Nat
        /\ seen.resume \in Nat /\ sent.resume \in Nat
    BY DEF MaterialsTyped, WorkerType, ContextType, SentType
  <2>2. /\ worker'.artifact <= Len(artifacts') /\ worker'.ctx.artifact <= Len(artifacts')
        /\ seen.resume <= Len(artifacts') /\ sent.resume <= Len(artifacts')
    BY <1>2, <2>1 DEF Refers
  <2>3. \A m \in net' : /\ m.fence <= row.fence
                        /\ m.kind = "upload" => m.what \in 1 .. Len(artifacts')
                        /\ m.kind = "letter" => m.what \in 1 .. MaxMade
    BY <1>2 DEF Refers
  <2>4. worker'.fence <= row.fence
    BY DEF Refers
  <2> QED BY <2>2, <2>3, <2>4 DEF Refers
<1>4. ContextHolds'
  BY DEF ContextHolds
<1>5. LeaseHolds'
  BY DEF LeaseHolds, Tailoring, Material!Fenced
<1>6. ReviewHolds'
  BY DEF ReviewHolds, Tailoring
<1>7. SentLast'
  BY DEF SentLast
<1>8. Material!MaterialsStand'
  BY DEF Tailoring, SentLast, Material!Nothing, Material!MaterialsStand, Material!LetterStands,
     Material!ResumeStands, Material!PolicyStands
<1> QED BY <1>1, <1>3, <1>4, <1>5, <1>6, <1>7, <1>8

LEMMA TailorKeeps ==
    ASSUME MaterialsAssumption, MaterialsInv, NEW text \in 0 .. MaxMade, Material!Tailor(text)
    PROVE  MaterialsInv'
<1> DEFINE place == Material!Place(worker.ctx.master, text)
           new == [of |-> worker.ctx.master, text |-> text, up |-> FALSE]
           m == [kind |-> "upload", fence |-> worker.fence, what |-> place]
<1>1. /\ artifacts \in Seq(Material!Artifact) /\ Len(artifacts) \in Nat /\ worker \in WorkerType
      /\ worker.ctx.master \in Material!Masters /\ worker.fence \in Nat /\
           worker.fence <= row.fence
  <2>1. worker.ctx \in ContextType
    BY DEF MaterialsInv, MaterialsTyped, WorkerType
  <2> QED BY <2>1, Places DEF MaterialsInv, MaterialsTyped, WorkerType, ContextType,
             Material!Tailor, Refers
<1>2. /\ artifacts' = IF place \in DOMAIN artifacts THEN artifacts ELSE Append(artifacts, new)
      /\ net' = net \cup {m}
      /\ worker' = [worker EXCEPT !.at = "uploading", !.artifact = place]
      /\ Tailoring /\ worker.at = "leased"
      /\ spent' = [spent EXCEPT !.made = IF text = 0 THEN spent.made ELSE text]
  BY DEF Material!Tailor, Tailoring, Material!Fenced
<1>3. /\ place \in 1 .. Len(artifacts) + 1 /\ place \in Nat
      /\ place \notin DOMAIN artifacts => place = Len(artifacts) + 1
  BY <1>1, PlaceIsThere DEF MaterialsInv
<1>4. new \in Material!Artifact
  BY <1>1 DEF Material!Artifact
<1> HIDE DEF place, new
<1>5. /\ artifacts' \in Seq(Material!Artifact) /\ Len(artifacts') \in Nat /\
           Len(artifacts') >= Len(artifacts)
      /\ place <= Len(artifacts')
  <2>1. CASE place \in DOMAIN artifacts
    <3>1. place \in 1 .. Len(artifacts)
      BY <1>1, <2>1, LenProperties
    <3> QED BY <1>1, <1>2, <2>1, <3>1
  <2>2. CASE place \notin DOMAIN artifacts
    <3>1. artifacts' \in Seq(Material!Artifact) /\ Len(artifacts') = Len(artifacts) + 1
      BY <1>1, <1>2, <1>4, <2>2, AppendProperties
    <3> QED BY <1>1, <1>3, <2>2, <3>1
  <2> QED BY <2>1, <2>2
<1>6. /\ worker' \in WorkerType /\ worker'.fence = worker.fence /\ worker'.ctx = worker.ctx
      /\ worker'.letter = worker.letter /\ worker'.artifact = place
  BY <1>1, <1>2, <1>3 DEF WorkerType
<1>7. m \in NetType /\ m.kind = "upload" /\ m.fence = worker.fence /\ m.what = place
  BY <1>1, <1>3 DEF NetType
<1> HIDE DEF m
<1>8. m.what \in 1 .. Len(artifacts')
  BY <1>3, <1>5, <1>7
<1>9. WorldTyped'
  <2> DEFINE made == IF text = 0 THEN spent.made ELSE text
  <2>1. made \in 0 .. MaxMade /\ WorldTyped
    BY DEF MaterialsInv, MaterialsTyped, WorldTyped
  <2> HIDE DEF made
  <2>2. spent' = [spent EXCEPT !.made = made]
    BY <1>2 DEF made
  <2>3. spent' \in [made : 0 .. MaxMade, edits : 0 .. MaxEdits, faults : 0 .. MaxFaults]
    BY <2>1, <2>2 DEF WorldTyped
  <2> QED BY <2>1, <2>3 DEF Material!Tailor, Material!Unmade, WorldTyped
<1>10. UNCHANGED <<profile, permits, posting, form, row, letter, seen, sent>>
  BY DEF Material!Tailor, Material!Unmade
<1> QED BY <1>1, <1>2, <1>5, <1>6, <1>7, <1>8, <1>9, <1>10, ArtifactsKeep

LEMMA UploadKeeps == ASSUME MaterialsAssumption, MaterialsInv, Material!Upload PROVE MaterialsInv'
<1>1. PICK m \in net :
        /\ m.kind = "upload" /\ net' = net \ {m}
        /\ artifacts' = IF Material!Uploads(m) THEN [artifacts EXCEPT ![m.what].up = TRUE]
                        ELSE artifacts
        /\ worker' = IF worker.at = "uploading" /\ worker.fence = m.fence
                     THEN [worker EXCEPT !.at = "uploaded"] ELSE worker
  BY DEF Material!Upload
<1>2. /\ worker \in WorkerType /\ WorldTyped /\ artifacts \in Seq(Material!Artifact)
      /\ m.what \in 1 .. Len(artifacts) /\ Len(artifacts) \in Nat
  BY <1>1, Places DEF MaterialsInv, MaterialsTyped, WorldTyped, Refers
<1>3. /\ UNCHANGED <<profile, permits, posting, form, row, letter, seen, sent, spent>>
      /\ WorldTyped'
  BY <1>2 DEF Material!Upload, Material!Unmade, WorldTyped
<1>4. /\ worker' \in WorkerType /\ worker'.fence = worker.fence /\ worker'.ctx = worker.ctx
      /\ worker'.letter = worker.letter /\ worker'.artifact = worker.artifact
      /\ worker' = worker \/ worker.at # "idle"
  BY <1>1, <1>2 DEF WorkerType
<1>5. CASE ~Material!Uploads(m)
  <2>1. Moves /\ Works /\ Sends /\ Keeping
    BY <1>1, <1>3, <1>4 DEF Moves, Works, Sends, Keeping, MaterialsInv, MaterialsTyped, SentLast
  <2> QED BY <1>1, <1>3, <1>5, <2>1, MoveKeeps
<1>6. CASE Material!Uploads(m)
  <2>1. Tailoring
    BY <1>1, <1>6 DEF Material!Uploads, Material!Fenced, Tailoring, MaterialsInv, ReviewHolds
  <2> DEFINE i == m.what
             a == [artifacts[i] EXCEPT !.up = TRUE]
  <2>2. a \in Material!Artifact
    BY <1>2, Places DEF MaterialsInv, Material!Artifact
  <2>3. artifacts' = [artifacts EXCEPT ![i] = a]
    BY <1>1, <1>6
  <2> HIDE DEF i, a
  <2>4. i \in 1 .. Len(artifacts)
    BY <1>2 DEF i
  <2>5. artifacts' \in Seq(Material!Artifact) /\ Len(artifacts') = Len(artifacts)
    BY <1>2, <2>2, <2>3, <2>4, ExceptSeq
  <2>6. worker'.artifact <= Len(artifacts')
    BY <1>4, <2>5 DEF MaterialsInv, Refers
  <2>7. Len(artifacts') >= Len(artifacts)
    BY <1>2, <2>5
  <2> QED BY <1>1, <1>3, <1>4, <2>1, <2>5, <2>6, <2>7, ArtifactsKeep
<1> QED BY <1>5, <1>6

-----------------------------------------------------------------------------
LEMMA MaterialsBegin == ASSUME MaterialsAssumption, Material!Init PROVE MaterialsInv
<1>1. Material!Idle \in WorkerType /\ Material!Nothing \in SentType
  BY StartTyped
<1>2. MaterialsTyped
  <2>1. profile \in [master : Material!Masters \cup {0}, facts : SUBSET Material!Facts]
    BY DEF Material!Init, Material!Masters
  <2>2. row \in RowType
    BY DEF Material!Init, RowType, Material!Stages, MaterialsAssumption
  <2>3. artifacts \in Seq(Material!Artifact)
    BY EmptySeq DEF Material!Init
  <2>4. permits \in SUBSET Material!Optional /\ posting \in BOOLEAN /\ form \in Material!Fields
    BY DEF Material!Init, Material!Fields
  <2>5. /\ letter \in 0 .. MaxMade
        /\ spent \in [made : 0 .. MaxMade, edits : 0 .. MaxEdits, faults : 0 .. MaxFaults]
    BY DEF Material!Init, MaterialsAssumption
  <2> QED BY <1>1, <2>1, <2>2, <2>3, <2>4, <2>5 DEF Material!Init, MaterialsTyped
<1>3. Refers
  <2>1. Len(artifacts) = 0
    BY EmptySeq DEF Material!Init
  <2> QED BY <2>1 DEF Material!Init, Refers, Material!Idle, Material!NoContext, Material!Nothing
<1>4. ContextHolds /\ LeaseHolds /\ ReviewHolds /\ SentLast /\ Material!MaterialsStand
  BY DEF Material!Init, ContextHolds, LeaseHolds, ReviewHolds, SentLast,
     Material!MaterialsStand, Material!LetterStands,
     Material!ResumeStands, Material!PolicyStands, Material!Idle, Material!NoContext,
     Material!Nothing
<1> QED BY <1>2, <1>3, <1>4 DEF MaterialsInv

\* Whatever is edited, retried, lost or late between the review and the form
\* that goes out, what goes out is what was reviewed: for any number of
\* rewrites, retries, edits and faults.
THEOREM MaterialsAlwaysStand ==
    ASSUME MaterialsAssumption
    PROVE  Material!Spec => [](Material!TypeOK /\ Material!MaterialsStand)
<1>1. Material!Init => MaterialsInv
  BY MaterialsBegin
<1>2. MaterialsInv /\ [Material!Next]_Material!vars => MaterialsInv'
  <2> SUFFICES ASSUME MaterialsInv, [Material!Next]_Material!vars PROVE MaterialsInv'
    OBVIOUS
  <2>1. CASE UNCHANGED Material!vars
    BY <2>1 DEF Material!vars, MaterialsInv, MaterialsTyped, Refers, ContextHolds, LeaseHolds,
       ReviewHolds, SentLast,
       Material!MaterialsStand, Material!LetterStands, Material!ResumeStands,
       Material!PolicyStands, Material!Master, Material!Fenced, Material!ArtifactOf, Up
  <2>2. CASE Material!Next
    BY <2>2, LeaseKeeps, RowChangesKeep, ReportsKeep, RefusedKeeps, UploadKeeps, TailorKeeps,
       FillKeeps, PostKeeps, BeginKeeps, FaultKeeps, ApproveKeeps, WorldKeeps DEF Material!Next
  <2> QED BY <2>1, <2>2
<1>3. MaterialsInv => Material!TypeOK /\ Material!MaterialsStand
  <2> SUFFICES ASSUME MaterialsInv PROVE Material!TypeOK
    BY DEF MaterialsInv
  <2>1. \A m \in net : m.kind \in {"upload", "letter"} /\ m.fence \in 0 .. row.fence
    <3>1. row.fence \in Nat
      BY DEF MaterialsInv, MaterialsTyped, RowType
    <3>2. \A m \in net : m.kind \in {"upload", "letter"} /\ m.fence \in Nat /\
          m.fence <= row.fence
      BY DEF MaterialsInv, MaterialsTyped, NetType, Refers
    <3> QED BY <3>1, <3>2
  <2>2. /\ worker.at \in {"idle", "leased", "uploading", "uploaded", "posting", "filled"}
        /\ worker.letter \in 0 .. MaxMade
        /\ worker.artifact \in Nat /\ seen.resume \in Nat /\ sent.resume \in Nat
    BY DEF MaterialsInv, MaterialsTyped, WorkerType, SentType
  <2>3. /\ worker.artifact \in 0 .. Len(artifacts) /\ seen.resume \in 0 .. Len(artifacts)
        /\ sent.resume \in 0 .. Len(artifacts)
    BY <2>2, Places DEF MaterialsInv, Refers
  <2> QED BY <2>1, <2>2, <2>3 DEF MaterialsInv, MaterialsTyped, RowType, Material!TypeOK
<1> QED BY <1>1, <1>2, <1>3, PTL DEF Material!Spec
=============================================================================
