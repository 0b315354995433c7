------------------------------- MODULE FormFill -------------------------------
(***************************************************************************)
(* One pass over an employer's form: src/worker/ats/ reads the fields,     *)
(* types an answer into each, checks that it took, and the form goes out   *)
(* as the page, or for Ashby the employer's server, then holds it.  The    *)
(* page acts beside the adapter: Greenhouse's script resets what was typed *)
(* before it took over, Lever's and Ashby's resume parsing fills fields of *)
(* its own, and Ashby sends each answer to its server as it changes.       *)
(*                                                                         *)
(* A form has one text and one list, besides the resume.  "a" and "b" are  *)
(* values, "part" is text that both hold ("Stanford"), "theirs" is what a  *)
(* parsed resume puts in.                                                  *)
(***************************************************************************)
EXTENDS Naturals, FiniteSets

CONSTANT Patient    \* what an adapter waits for comes before the wait ends

Vendors == {"greenhouse", "lever", "ashby"}
Questions == {"text", "list"}
Resume == "resume"
Options == {"a", "b"}
Values == Options \union {"part"}
Shown == Values \union {"blank", "theirs"}
Ends == {"asked", "retry", "sent"}

VARIABLES
    vendor,    \* whose form it is
    asks,      \* the questions: which are required, what the list offers
    saved,     \* the applicant's answer to that very question, or "none"
    fact,      \* what the confirmed profile says of it, or "none"
    step,      \* where the adapter is, and the fields it has left
    shown,     \* what the page shows in each field
    held,      \* what the employer's server holds of each
    page,      \* what the page's own script has still to do
    sent       \* the form that went out

vars == <<vendor, asks, saved, fact, step, shown, held, page, sent>>

AllBlank == [q \in Questions |-> "blank"]

TypeOK ==
    /\ vendor \in Vendors
    /\ asks \in [required : SUBSET Questions, offers : SUBSET Options, long : BOOLEAN]
    /\ saved \in [Questions -> Values \union {"none"}]
    /\ fact \in [Questions -> Options \union {"none"}]
    /\ step \in [at : Ends \union {"observe", "next", "resume", "settle", "verify",
                                   "rejected", "filled"},
                 field : Questions \union {"none"},
                 left : SUBSET (Questions \union {Resume}), bad : SUBSET Questions]
    /\ shown \in [Questions -> Shown] /\ held \in [Questions -> Shown]
    /\ page \in [live : BOOLEAN, parse : BOOLEAN,
                 changed : SUBSET Questions, saving : SUBSET Questions]
    /\ sent \in [Questions -> Shown]

\* The choices a list is read with: a long one, and a Greenhouse menu that was
\* not opened, have none.
Listed == IF asks.long THEN {} ELSE asks.offers

Init ==
    /\ vendor \in Vendors
    /\ asks \in [required : SUBSET Questions, offers : SUBSET Options \ {{}}, long : BOOLEAN]
    /\ saved \in {s \in [Questions -> {"none", "a", "part"}] : s["text"] # "part"}
    /\ fact \in [Questions -> {"none", "a"}]
    /\ step = [at |-> "observe", field |-> "none", left |-> {}, bad |-> {}]
    /\ shown = AllBlank /\ held = AllBlank /\ sent = AllBlank
    /\ page = [live |-> vendor # "greenhouse", parse |-> FALSE, changed |-> {}, saving |-> {}]

-----------------------------------------------------------------------------
\* The answer of each adapter: the applicant's own answer to that question
\* first, then the profile's, which a list takes only when it offers it.
HostedAnswer(q) == fact[q]

LeverAnswer(q) == IF q = "list" /\ ~asks.long /\ fact[q] \notin Listed THEN "none" ELSE fact[q]

AshbyAnswer(q) == IF q = "list" /\ Listed # {} /\ fact[q] \notin Listed THEN "none" ELSE fact[q]

Answer(q) ==
    IF saved[q] # "none" THEN saved[q]
    ELSE CASE vendor = "greenhouse" -> HostedAnswer(q)
           [] vendor = "lever" -> LeverAnswer(q)
           [] vendor = "ashby" -> AshbyAnswer(q)

\* Mutant of Matches: the first of several options that hold the words.
MatchesFirst(value, loose) ==
    IF value \in asks.offers THEN {value}
    ELSE IF loose /\ value = "part" THEN {CHOOSE o \in asks.offers : TRUE} ELSE {}

\* The options a typed value stands for: itself, or, for a list the applicant
\* was asked about in words, the one option that holds it.
Matches(value, loose) ==
    IF value \in asks.offers THEN {value}
    ELSE IF loose /\ value = "part" /\ Cardinality(asks.offers) = 1 THEN asks.offers ELSE {}

Loose(q) == Listed # {} \/ saved[q] # "none"

Picks(q) ==
    IF q = "text" THEN {Answer(q)}
    ELSE Matches(Answer(q), vendor = "lever" /\ Loose(q))

\* Whether a field shows its answer; Lever's list is looked at on its own, where
\* any option that holds the words will do.
Verified(q) ==
    IF vendor = "lever" /\ q = "list" /\ Answer(q) = "part"
    THEN shown[q] \in Options
    ELSE shown[q] \in Picks(q)

-----------------------------------------------------------------------------
\* The page's own work.  Its script takes over and resets what was typed.
Hydrate ==
    /\ ~page.live
    /\ page' = [page EXCEPT !.live = TRUE]
    /\ shown' = AllBlank
    /\ UNCHANGED <<vendor, asks, saved, fact, step, held, sent>>

\* The parsed resume comes back: it fills a field, or clears what it lacks.
Prefill ==
    /\ page.parse
    /\ \E text \in {"blank", "theirs", shown["text"]}, list \in {"blank", shown["list"]} :
           shown' = [q \in Questions |-> IF q = "text" THEN text ELSE list]
    /\ held' = shown'
    /\ page' = [page EXCEPT !.parse = FALSE, !.changed = {}, !.saving = {}]
    /\ UNCHANGED <<vendor, asks, saved, fact, step, sent>>

\* A changed answer leaves for Ashby's server.
SaveStarts(q) ==
    /\ q \in page.changed
    /\ page' = [page EXCEPT !.changed = @ \ {q}, !.saving = @ \union {q}]
    /\ UNCHANGED <<vendor, asks, saved, fact, step, shown, held, sent>>

\* It is stored, or, of two under way at once, it may be dropped.
SaveEnds(q) ==
    /\ q \in page.saving
    /\ page' = [page EXCEPT !.saving = @ \ {q}]
    /\ \/ held' = [held EXCEPT ![q] = shown[q]]
       \/ page.saving # {q} /\ UNCHANGED held
    /\ UNCHANGED <<vendor, asks, saved, fact, step, shown, sent>>

PageStep == Hydrate \/ Prefill \/ \E q \in Questions : SaveStarts(q) \/ SaveEnds(q)

-----------------------------------------------------------------------------
Goes(at) == step' = [step EXCEPT !.at = at]

\* The fields an adapter will touch: the ones it has an answer for and the
\* required ones.
Touched == {q \in Questions : Answer(q) # "none" \/ q \in asks.required}

\* A required question without an answer goes to the inbox before anything is
\* typed; another page than the job's own is not read at all.
Observe ==
    /\ step.at = "observe" /\ (page.live \/ ~Patient)
    /\ \/ Goes("retry")
       \/ /\ \E q \in asks.required : Answer(q) = "none"
          /\ Goes("asked")
       \/ /\ \A q \in asks.required : Answer(q) # "none"
          /\ step' = [step EXCEPT !.at = "next", !.left = Touched \union {Resume}]
    /\ UNCHANGED <<vendor, asks, saved, fact, shown, held, page, sent>>

\* Mutant of InTurn: every form is filled in its own order.
InTurnAny(q) == TRUE

\* Lever and Ashby parse the resume, so theirs goes first; Greenhouse fills in
\* the form's order, whatever that is.
InTurn(q) == vendor # "greenhouse" => Resume \notin step.left

Attach ==
    /\ step.at = "next" /\ Resume \in step.left
    /\ step' = [step EXCEPT !.at = "resume", !.left = @ \ {Resume}]
    /\ page' = [page EXCEPT !.parse = vendor # "greenhouse"]
    /\ UNCHANGED <<vendor, asks, saved, fact, shown, held, sent>>

\* The adapter waits until the page has done with the resume.
Attached ==
    /\ step.at = "resume" /\ (~page.parse \/ ~Patient)
    /\ Goes("next") \/ Goes("retry")
    /\ UNCHANGED <<vendor, asks, saved, fact, shown, held, page, sent>>

\* An answer the field does not take is kept with the others it refused.
Reject(q) ==
    /\ step.at = "next" /\ q \in step.left /\ InTurn(q)
    /\ Picks(q) = {}
    /\ step' = [step EXCEPT !.left = @ \ {q}, !.bad = @ \union {q}]
    /\ UNCHANGED <<vendor, asks, saved, fact, shown, held, page, sent>>

Fill(q) ==
    /\ step.at = "next" /\ q \in step.left /\ InTurn(q)
    /\ \E value \in Picks(q) : shown' = [shown EXCEPT ![q] = value]
    /\ step' = [step EXCEPT !.at = IF vendor = "ashby" THEN "settle" ELSE "verify",
                            !.field = q, !.left = @ \ {q}]
    /\ page' = IF vendor = "ashby" THEN [page EXCEPT !.changed = @ \union {q}] ELSE page
    /\ held' = IF vendor = "ashby" THEN held ELSE shown'
    /\ UNCHANGED <<vendor, asks, saved, fact, sent>>

\* Mutant of Landed: the next answer waits for no save.
LandedAlways == TRUE

\* An answer's save lands before the next answer is touched.
Landed == page.changed = {} /\ page.saving = {}

Settle ==
    /\ step.at = "settle" /\ (Landed \/ ~Patient)
    /\ Goes("verify")
    /\ UNCHANGED <<vendor, asks, saved, fact, shown, held, page, sent>>

Verify ==
    /\ step.at = "verify"
    /\ Goes(IF Verified(step.field) THEN "next" ELSE "retry")
    /\ UNCHANGED <<vendor, asks, saved, fact, shown, held, page, sent>>

\* Ashby's fields are all looked at once more.
Stands == vendor = "ashby" => \A q \in Questions : Answer(q) # "none" => Verified(q)

Filled ==
    /\ step.at = "next" /\ step.left = {}
    /\ Goes(IF step.bad # {} THEN "rejected" ELSE IF Stands THEN "filled" ELSE "retry")
    /\ UNCHANGED <<vendor, asks, saved, fact, shown, held, page, sent>>

\* The refused answers become questions, with the choices the form offers; a
\* form that cannot be read again is tried again later.
Rejected ==
    /\ step.at = "rejected"
    /\ Goes("asked") \/ Goes("retry")
    /\ UNCHANGED <<vendor, asks, saved, fact, shown, held, page, sent>>

\* The form goes out as the page holds it, Ashby's as its server does.
OnForm == IF vendor = "ashby" THEN held ELSE shown

Send ==
    /\ step.at = "filled"
    /\ Goes("sent")
    /\ sent' = OnForm
    /\ UNCHANGED <<vendor, asks, saved, fact, shown, held, page>>

AdapterStep ==
    \/ Observe \/ Attach \/ Attached \/ Settle \/ Verify \/ Filled \/ Rejected \/ Send
    \/ \E q \in Questions : Reject(q) \/ Fill(q)

Next == step.at \notin Ends /\ (PageStep \/ AdapterStep)

Spec == Init /\ [][Next]_vars

-----------------------------------------------------------------------------
\* What goes out for a question that has an answer is that answer, or the one
\* option of the list that it names: neither a script that takes the page
\* over, nor a resume parsed late, nor a save the server dropped puts another
\* in its place (greenhouse.ts 148-151, lever.ts 111, ashby.ts 19-20).
SentAsMeant ==
    step.at = "sent" =>
        \A q \in Questions : Answer(q) # "none" => sent[q] \in Picks(q)

\* A question the applicant's answer leaves to chance is asked, not guessed:
\* text that several options hold goes out as none of them (lever.ts 78-88).
NothingGuessed ==
    step.at = "sent" /\ saved["list"] = "part" => Cardinality(asks.offers) = 1

FormIsMeant == SentAsMeant /\ NothingGuessed

\* An optional question without an answer goes out empty, as the review says
\* (main.ts 361).
LeftBlankIsBlank ==
    step.at = "sent" => \A q \in Questions : Answer(q) = "none" => sent[q] = "blank"
=============================================================================
