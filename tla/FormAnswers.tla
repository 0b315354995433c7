---------------------------- MODULE FormAnswers -----------------------------
(***************************************************************************)
(* The questions a form asks and the answers it is filled with: what the   *)
(* worker reads (application-context.ts), what it asks and reports         *)
(* (worker/main.ts, worker/screening.ts), and how the server matches a     *)
(* question with an answer it has (questions.ts).                          *)
(*                                                                         *)
(* One role, attempted one application after another under one live run of *)
(* a worker that may lose its lease at any time; ControlPlane has the runs,*)
(* fences and workers, whose effect here is that a lease is held or not.   *)
(* Tailoring is passed through: it asks nothing.  A worker asks required   *)
(* questions that rest on no fact, so none may be left blank and no fact   *)
(* moves an answer.  Counters are bounded by the constants named Max.      *)
(***************************************************************************)
EXTENDS Naturals, Sequences, FiniteSetsExt

CONSTANTS
    ScreenKeys,     \* requirements a profile may leave open
    FormKeys,       \* required fields of the employer's form
    Values,         \* answers of an applicant
    Useless,        \* those no stage takes: a misspelt country, a wrong option
    Steady,         \* a refused dropdown always lists its options
    MaxAttempts, MaxAnswers, MaxPolicies, MaxSaves, MaxSlips

Keys == ScreenKeys \cup FormKeys
Kinds == {"text", "select", "combobox"}
Offers == {"text", "list"}      \* free text, or the options a field lists
Stages == {"screening", "filling", "ready"}
None == "none"
Attempts == 1..MaxAttempts

VARIABLES
    kind,           \* of a key: what sort of field asks it
    facts,          \* requirements the profile confirms
    policy,         \* its revision, and whether it lets forms be filled
    app,            \* the newest attempt and its state
    questions,      \* of an attempt and a key
    answers,        \* every answer given, in the order of the rows
    work,           \* the lease in hand and the context read under it
    refused,        \* fillings refused since the applicant last acted
    review,         \* what the applicant was shown for approval
    sent,           \* what went to the employer
    saves, slips

vars == <<kind, facts, policy, app, questions, answers, work, refused, review,
          sent, saves, slips>>

NoQuestion == [offer |-> None, policy |-> 0, answer |-> 0, active |-> FALSE]
Idle == [stage |-> None, given |-> <<>>, facts |-> {}, current |-> FALSE]

Init ==
    /\ kind \in [Keys -> Kinds]
    /\ \A k \in ScreenKeys : kind[k] = "text"
    /\ facts \in SUBSET ScreenKeys
    /\ policy = [revision |-> 1, fills |-> TRUE]
    /\ app = [attempt |-> 1, state |-> "screening"]
    /\ questions = [n \in Attempts |-> [k \in Keys |-> NoQuestion]]
    /\ answers = <<>>
    /\ work = Idle
    /\ refused = {}
    /\ review = <<>> /\ sent = <<>>
    /\ saves = 0 /\ slips = 0

Asked == questions[app.attempt]

\* What the context passes on: answers of active questions of this policy.
Given == [k \in Keys |->
    IF Asked[k].active /\ Asked[k].policy = policy.revision THEN Asked[k].answer ELSE 0]

\* A question that holds the application back.
Open(q) == q.active /\ (q.answer = 0 \/ q.policy # policy.revision)
Holds(asked) == \E k \in Keys : Open(asked[k])

\* The fence moved: what the worker still reports is refused.
Moved == work' = Idle

-----------------------------------------------------------------------------
\* The worker.

\* The context of a lease: the answers and facts of that moment.
Lease ==
    /\ work.stage = None /\ app.state \in Stages
    /\ work' = [stage |-> app.state, given |-> Given, facts |-> facts,
                current |-> TRUE]
    /\ UNCHANGED <<kind, facts, policy, app, questions, answers, refused, review,
                   sent, saves, slips>>

\* The lease runs out, or the program stops, before anything is reported.
Drop ==
    /\ work.stage # None /\ work' = Idle
    /\ UNCHANGED <<kind, facts, policy, app, questions, answers, refused, review,
                   sent, saves, slips>>

\* Screening reads an answer it cannot use as none; a form is filled with it.
Usable(k) == work.given[k] # 0 /\ answers[work.given[k]].value \notin Useless
Unscreened == {k \in ScreenKeys \ work.facts : ~Usable(k)}
Missing == {k \in FormKeys : work.given[k] = 0}

\* What a key is asked with: a field that lists its options offers them, a
\* combobox lists its own only once it refuses a choice.
Observed(k) == IF kind[k] = "select" THEN "list" ELSE "text"
AfterRefusal(k) ==
    IF kind[k] # "combobox" THEN {Observed(k)}
    ELSE IF Steady THEN {"list"} ELSE Offers

\* Mutant of Reusable: what the question was offered with is not compared.
ReusableAnyOffer(k, offer) ==
    LET same == {i \in 1..Len(answers) : answers[i].key = k}
    IN IF policy.fills /\ same # {} /\ answers[Max(same)].policy = policy.revision
       THEN Max(same) ELSE 0

\* The newest answer to the same question of any attempt, if it was given
\* under this policy.
Reusable(k, offer) ==
    LET same == {i \in 1..Len(answers) :
                    answers[i].key = k /\ answers[i].offer = offer}
    IN IF policy.fills /\ same # {} /\ answers[Max(same)].policy = policy.revision
       THEN Max(same) ELSE 0

\* Mutant of Matched: a question asked again takes the answer it had.
MatchedAgain(k, offer) ==
    LET old == Asked[k]
        row == [offer |-> offer, policy |-> policy.revision, answer |-> 0, active |-> TRUE]
    IN [row EXCEPT !.answer = Reusable(k, offer)]

\* A row after the worker asked its key.  A question whose answer was
\* refused stays open for the applicant.
Matched(k, offer) ==
    LET old == Asked[k]
        changed == old.offer # offer \/ ~old.active \/ old.policy # policy.revision
        rejected == ~changed /\ old.answer # 0
        row == [offer |-> offer, policy |-> policy.revision, active |-> TRUE,
                answer |-> IF changed \/ rejected THEN 0 ELSE old.answer]
    IN IF rejected \/ Reusable(k, offer) = 0 THEN row
       ELSE [row EXCEPT !.answer = Reusable(k, offer)]

\* The batch of a stage.  Fields left out keep their rows.
Ask(asked) ==
    LET rows == [k \in Keys |-> IF k \in DOMAIN asked THEN Matched(k, asked[k]) ELSE Asked[k]]
    IN /\ questions' = [questions EXCEPT ![app.attempt] = rows]
       /\ app' = [app EXCEPT !.state = IF Holds(rows) THEN "needs_answer" ELSE "screening"]

\* A batch under an older profile is refused.
Batch(asked) ==
    /\ IF work.current THEN Ask(asked) ELSE UNCHANGED <<questions, app>>
    /\ work' = Idle
    /\ UNCHANGED <<kind, facts, policy, answers, review, sent, saves>>

AskScreening ==
    /\ work.stage # None /\ Unscreened # {}
    /\ work.stage = "screening" \/ Missing = {}
    /\ Batch([k \in Unscreened |-> Observed(k)])
    /\ UNCHANGED <<refused, slips>>

AskMissing ==
    /\ work.stage \in {"filling", "ready"} /\ Missing # {}
    /\ Batch([k \in Missing |-> Observed(k)])
    /\ UNCHANGED <<refused, slips>>

\* The stage's result, taken under the fence alone.
Report(state) ==
    /\ app' = [app EXCEPT !.state = state]
    /\ work' = Idle
    /\ UNCHANGED <<kind, facts, policy, questions, answers, refused, sent, saves, slips>>

Screened ==
    /\ work.stage = "screening" /\ Unscreened = {}
    /\ Report("filling")
    /\ UNCHANGED review

Fills == work.stage \in {"filling", "ready"} /\ Missing = {} /\ Unscreened = {}
Rejects == {k \in FormKeys : ~Usable(k)}

\* The form refuses answers, by their value or because a click timed out;
\* every refused field is asked at once.
Refuse ==
    /\ Fills
    /\ \E bad \in {b \in SUBSET FormKeys : Rejects \subseteq b /\ b # {}} :
        /\ slips + Cardinality(bad \ Rejects) <= MaxSlips
        /\ slips' = slips + Cardinality(bad \ Rejects)
        /\ \E asked \in [bad -> Offers] :
            /\ \A k \in bad : asked[k] \in AfterRefusal(k)
            /\ Batch(asked)
    /\ refused' = IF work.current THEN refused \cup {work.given} ELSE refused

\* The page broke in a way that is no answer's fault.
Breaks ==
    /\ work.stage \in {"filling", "ready"}
    /\ Report("retryable_failure")
    /\ UNCHANGED review

Filled ==
    /\ work.stage = "filling" /\ Fills /\ Rejects = {}
    /\ Report("needs_policy_decision")
    /\ review' = work.given

\* The approved form is filled once more and sent.  What follows
\* the intent is in WorkerSession.
Send ==
    /\ work.stage = "ready" /\ Fills /\ Rejects = {}
    /\ app' = [app EXCEPT !.state = "submitted"]
    /\ sent' = work.given
    /\ work' = Idle
    /\ UNCHANGED <<kind, facts, policy, questions, answers, refused, review, saves, slips>>

-----------------------------------------------------------------------------
\* The applicant.

CanAnswer(k) ==
    /\ Asked[k].active /\ Asked[k].policy = policy.revision /\ policy.fills
    /\ app.state \in Stages \cup {"needs_answer"}

\* Mutant of Resumed: one answer sends the form on.
ResumedByAny(rows) == "screening"

\* Mutant of Resumed: an approved form keeps its approval.
ResumedApproved(rows) ==
    IF Holds(rows) THEN "needs_answer"
    ELSE IF app.state = "ready" THEN "ready" ELSE "screening"

Resumed(rows) == IF Holds(rows) THEN "needs_answer" ELSE "screening"

Answer(k, v) ==
    LET rows == [Asked EXCEPT ![k].answer = Len(answers) + 1]
    IN /\ CanAnswer(k) /\ Len(answers) < MaxAnswers
       /\ answers' = Append(answers, [attempt |-> app.attempt, key |-> k,
              offer |-> Asked[k].offer, policy |-> policy.revision, value |-> v])
       /\ questions' = [questions EXCEPT ![app.attempt] = rows]
       /\ app' = [app EXCEPT !.state = Resumed(rows)]
       /\ Moved /\ refused' = {}
       /\ UNCHANGED <<kind, facts, policy, review, sent, saves, slips>>

Act(state) ==
    /\ app' = [app EXCEPT !.state = state]
    /\ Moved /\ refused' = {}
    /\ UNCHANGED <<kind, facts, policy, questions, answers, review, sent, saves, slips>>

Approve == app.state = "needs_policy_decision" /\ Act("ready")
RetrySafe == app.state = "retryable_failure" /\ Act("filling")

\* Retrying what never reached the employer makes the next attempt.
NextAttempt ==
    /\ app.state \in {"needs_answer", "retryable_failure"} /\ app.attempt < MaxAttempts
    /\ app' = [attempt |-> app.attempt + 1, state |-> "screening"]
    /\ Moved /\ refused' = {}
    /\ UNCHANGED <<kind, facts, policy, questions, answers, review, sent, saves, slips>>

SaveProfile(known) ==
    /\ saves < MaxSaves /\ saves' = saves + 1
    /\ facts' = known
    /\ work' = IF work = Idle THEN Idle ELSE [work EXCEPT !.current = FALSE]
    /\ refused' = {}
    /\ UNCHANGED <<kind, policy, app, questions, answers, review, sent, slips>>

\* An answered question moves to the new policy when forms may be filled
\* under it; every other one closes.
Carried(q, fills) ==
    IF ~q.active THEN q
    ELSE IF q.answer # 0 /\ q.policy = policy.revision /\ fills
         THEN [q EXCEPT !.policy = @ + 1]
         ELSE [q EXCEPT !.active = FALSE]

\* Mutant of Rescreens: a row that waits on questions goes on waiting.
RescreensFilled(rows, fills) ==
    /\ app.state \in Stages \cup {"needs_policy_decision"}
    /\ \E k \in Keys : Asked[k].active /\ ~rows[k].active

\* The row screens again when it waits on questions, when a filled form lost
\* an answer, or when what fills it changed after the review.
Rescreens(rows, fills) ==
    \/ app.state = "needs_answer"
    \/ /\ app.state \in Stages \cup {"needs_policy_decision"}
       /\ \E k \in Keys : Asked[k].active /\ ~rows[k].active
    \/ app.state \in {"ready", "needs_policy_decision"} /\ fills # policy.fills

Enable(fills) ==
    LET rows == [k \in Keys |-> Carried(Asked[k], fills)]
    IN /\ policy.revision < MaxPolicies
       /\ policy' = [revision |-> policy.revision + 1, fills |-> fills]
       /\ questions' = [questions EXCEPT ![app.attempt] = rows]
       /\ app' = IF Rescreens(rows, fills) THEN [app EXCEPT !.state = "screening"] ELSE app
       /\ Moved /\ refused' = {}
       /\ UNCHANGED <<kind, facts, answers, review, sent, saves, slips>>


Next ==
    \/ Lease \/ Drop \/ AskScreening \/ AskMissing \/ Screened \/ Refuse \/ Breaks
    \/ Filled \/ Send \/ Approve \/ RetrySafe \/ NextAttempt
    \/ \E k \in Keys, v \in Values : Answer(k, v)
    \/ \E known \in SUBSET ScreenKeys : SaveProfile(known)
    \/ \E fills \in BOOLEAN : Enable(fills)

Spec == Init /\ [][Next]_vars

-----------------------------------------------------------------------------
\* Every variable keeps its type, and an answer of a row is one of its key
\* given to this attempt or an earlier one.
TypeOK ==
    /\ app.attempt \in Attempts
    /\ app.state \in Stages \cup {"needs_answer", "needs_policy_decision",
                                  "retryable_failure", "submitted"}
    /\ \A n \in Attempts, k \in Keys : LET q == questions[n][k] IN
         q.answer # 0 => /\ q.answer \in 1..Len(answers)
                         /\ answers[q.answer].key = k
                         /\ answers[q.answer].offer = q.offer
                         /\ answers[q.answer].attempt <= n

\* A form that was refused is never filled with the same answers again
\* unless the applicant acted in between: the server does not loop between
\* filling, asking and an answer of its own (registerQuestionBatch,
\* reusableAnswer).
NoFillLoop == app.state \in Stages => Given \notin refused

\* While forms may be filled, an application that waits for an answer has a
\* question the applicant can answer (canAnswer, carryRunsForward).
NoStrandedApplication ==
    app.state = "needs_answer" /\ policy.fills => \E k \in Keys : CanAnswer(k) /\ Open(Asked[k])

\* No form goes on while a question of it is open (reschedule and
\* registerQuestionBatch look at every active question).
OpenQuestionHolds ==
    app.state \in Stages \cup {"needs_policy_decision"} => ~Holds(Asked)

\* The answers that reach the employer are those the applicant reviewed,
\* whatever was answered, carried to another policy or filled again since.
SentAsReviewed == sent # <<>> => sent = review
=============================================================================
