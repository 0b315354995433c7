------------------------------- MODULE Materials -------------------------------
(***************************************************************************)
(* What one application sends, from the stage that makes it to the form it *)
(* goes out with: the tailored resume (an artifact of the master resume    *)
(* the profile names for the role) and the cover letter.  Every stage of   *)
(* the worker fetches the application's context anew, so what it tailors,  *)
(* fills, has reviewed and sends is chosen up to four times, from a        *)
(* profile, a policy, a posting and an employer's form that change         *)
(* meanwhile, and from artifacts and letters that earlier tries of the     *)
(* same stage left behind.                                                 *)
(*                                                                         *)
(* A letter is the number it was written as, 0 for none; an artifact is    *)
(* its place among the application's artifacts, 0 for none.                *)
(***************************************************************************)
EXTENDS Integers, Sequences, FiniteSetsExt

CONSTANTS
    MaxMade,    \* bound: rewrites and letters the provider is asked for
    MaxTries,   \* bound: retries of one application (3 in the code)
    MaxEdits,   \* bound: changes to profile, policy, posting and form
    MaxFaults   \* bound: deaths of the worker and lost answers

Masters == {1, 2}
Optional == {"letter", "voluntary"}
Facts == {"name", "voluntary", "country"}
Fields == {"no", "optional", "required"}
Stages == {"screening", "tailoring", "filling", "ready"}
Waits == {"answer", "document", "stuck", "retry", "approval"}
Ends == {"skipped", "submitting"}

VARIABLES
    profile,    \* the master it names (0: none) and its confirmed facts
    policy,     \* the optional things the enabled policy allows
    posting,    \* is it still as discovery froze it?
    form,       \* the letter field of the employer's form
    row,        \* the application
    artifacts,  \* its artifacts, in the order they were created
    letter,     \* the letter kept for it
    worker,     \* the stage the worker is in
    net,        \* requests that are on their way
    seen,       \* what the applicant saw when approving
    sent,       \* what went out
    spent

vars == <<profile, policy, posting, form, row, artifacts, letter, worker, net, seen, sent, spent>>

Artifact == [of : Masters, text : 0 .. MaxMade, up : BOOLEAN]
NoContext == [master |-> 0, artifact |-> 0, letter |-> 0, allowed |-> {}, answers |-> {}]
Idle == [at |-> "idle", fence |-> 0, ctx |-> NoContext, letter |-> 0, artifact |-> 0]
Nothing == [resume |-> 0, letter |-> 0, answers |-> {}, allowed |-> {}]

TypeOK ==
    /\ profile \in [master : Masters \union {0}, facts : SUBSET Facts]
    /\ policy \in SUBSET Optional
    /\ posting \in BOOLEAN
    /\ form \in Fields
    /\ row \in [at : Stages \union Waits \union Ends, stage : Stages,
                fence : Nat, leased : BOOLEAN, tries : 0 .. MaxTries]
    /\ artifacts \in Seq(Artifact)
    /\ letter \in 0 .. MaxMade
    /\ worker.at \in {"idle", "leased", "uploading", "uploaded", "posting", "filled"}
    /\ worker.letter \in 0 .. MaxMade /\ worker.artifact \in 0 .. Len(artifacts)
    /\ \A m \in net : m.kind \in {"upload", "letter"} /\ m.fence \in 0 .. row.fence
    /\ seen.resume \in 0 .. Len(artifacts) /\ sent.resume \in 0 .. Len(artifacts)
    /\ spent \in [made : 0 .. MaxMade, edits : 0 .. MaxEdits, faults : 0 .. MaxFaults]

Init ==
    /\ profile \in [master : {0, 1}, facts : {Facts}]
    /\ policy = Optional
    /\ posting = TRUE
    /\ form = "optional"
    /\ row = [at |-> "screening", stage |-> "screening", fence |-> 0, leased |-> FALSE, tries |-> 0]
    /\ artifacts = <<>> /\ letter = 0
    /\ worker = Idle /\ net = {} /\ seen = Nothing /\ sent = Nothing
    /\ spent = [made |-> 0, edits |-> 0, faults |-> 0]

Newest(S) == IF S = {} THEN 0 ELSE Max(S)

\* The newest available artifact made of a master.
ArtifactOf(m) == Newest({i \in DOMAIN artifacts : artifacts[i].of = m /\ artifacts[i].up})

\* What the applicant is shown for the application: its newest available
\* artifact, whatever master it was made of, and the letter kept for it.
Shown == [Nothing EXCEPT !.resume = Newest({i \in DOMAIN artifacts : artifacts[i].up}),
                         !.letter = letter]

\* The answers a form may be given: what the profile confirms, a voluntary one
\* only under a policy that discloses it unasked.
Answers == profile.facts \ (IF "voluntary" \in policy THEN {} ELSE {"voluntary"})

\* The context a stage works from.
Context == [master |-> profile.master, artifact |-> ArtifactOf(profile.master),
            letter |-> letter, allowed |-> policy, answers |-> Answers]

\* Does the role's requirement stand open, for want of a fact?
Unscreened(ctx) == "country" \notin ctx.answers
Verified(ctx) == ctx.artifact # 0 /\ artifacts[ctx.artifact].of = ctx.master

\* A request is honoured under the lease it was made with.
Fenced(fence) == row.leased /\ row.fence = fence

(***************************************************************************)
(* The worker: a stage is leased with a fresh context, works, and reports. *)
(***************************************************************************)
Lease ==
    /\ row.at \in Stages /\ ~row.leased /\ worker = Idle
    /\ row' = [row EXCEPT !.leased = TRUE, !.fence = @ + 1, !.stage = row.at]
    /\ worker' = [Idle EXCEPT !.at = "leased", !.fence = row.fence + 1, !.ctx = Context]
    /\ posting
    /\ UNCHANGED <<profile, policy, posting, form, artifacts, letter, net, seen, sent, spent>>

\* The posting is no longer the one that was frozen: the row waits for a retry.
LeaseGone ==
    /\ row.at \in Stages /\ ~row.leased /\ worker = Idle /\ ~posting
    /\ row' = [row EXCEPT !.fence = @ + 1, !.stage = row.at, !.at = "retry"]
    /\ UNCHANGED <<profile, policy, posting, form, artifacts, letter, worker, net, seen, sent, spent>>

\* The stage reports, and ends.  A report under a lost lease changes nothing.
Report(at) ==
    /\ row' = IF Fenced(worker.fence)
              THEN [row EXCEPT !.at = at, !.leased = FALSE, !.fence = @ + 1,
                               !.stage = IF at \in Stages THEN at ELSE @]
              ELSE row
    /\ worker' = Idle

Unmade == UNCHANGED <<profile, policy, posting, form, seen, sent>>

Screen ==
    /\ worker.at = "leased" /\ row.stage = "screening"
    /\ IF Unscreened(worker.ctx) THEN Report("answer")
       ELSE \E at \in {"tailoring", "skipped"} : Report(at)
    /\ Unmade /\ UNCHANGED <<artifacts, letter, net, spent>>

\* Tailoring that needs no upload: the artifact of an earlier try is there, no
\* master is, or the provider or the document fails.
TailorAtOnce ==
    /\ worker.at = "leased" /\ row.stage = "tailoring"
    /\ \/ Verified(worker.ctx) /\ Report("filling")
       \/ worker.ctx.master = 0 /\ Report("document")
       \/ /\ worker.ctx.master # 0 /\ ~Verified(worker.ctx)
          /\ \E at \in {"retry", "document"} : Report(at)
    /\ Unmade /\ UNCHANGED <<artifacts, letter, net, spent>>

\* The place of an artifact intended before under the same content, or a new one.
Place(m, text) ==
    LET same == {i \in DOMAIN artifacts : artifacts[i].of = m /\ artifacts[i].text = text}
    IN  IF same = {} THEN Len(artifacts) + 1 ELSE Newest(same)

\* A rewrite of the master, or the master unchanged when it cannot be edited
\* (text 0), is announced to the server and its bytes sent.
Tailor(text) ==
    /\ worker.at = "leased" /\ row.stage = "tailoring"
    /\ worker.ctx.master # 0 /\ ~Verified(worker.ctx)
    /\ text = 0 \/ text = spent.made + 1
    /\ text <= MaxMade
    /\ Fenced(worker.fence) /\ row.at = "tailoring"
    /\ LET place == Place(worker.ctx.master, text)
       IN  /\ artifacts' = IF place \in DOMAIN artifacts THEN artifacts
                           ELSE Append(artifacts, [of |-> worker.ctx.master, text |-> text, up |-> FALSE])
           /\ net' = net \union {[kind |-> "upload", fence |-> worker.fence, what |-> place]}
           /\ worker' = [worker EXCEPT !.at = "uploading", !.artifact = place]
    /\ spent' = [spent EXCEPT !.made = IF text = 0 THEN @ ELSE text]
    /\ Unmade /\ UNCHANGED <<row, letter>>

\* A stage whose lease is gone is refused and ends.
Refused ==
    /\ worker.at # "idle" /\ ~Fenced(worker.fence)
    /\ worker' = Idle
    /\ Unmade /\ UNCHANGED <<row, artifacts, letter, net, spent>>

\* Mutant of Uploads: the lease an upload was announced with is not asked for.
UploadsLate(m) == m.kind = "upload"

\* The server takes an upload under the lease it was announced with, and its
\* answer reaches the worker or is lost.
Uploads(m) == m.kind = "upload" /\ Fenced(m.fence)
Upload ==
    \E m \in net :
        /\ m.kind = "upload" /\ net' = net \ {m}
        /\ artifacts' = IF Uploads(m) THEN [artifacts EXCEPT ![m.what].up = TRUE] ELSE artifacts
        /\ worker' = IF worker.at = "uploading" /\ worker.fence = m.fence
                     THEN [worker EXCEPT !.at = "uploaded"] ELSE worker
        /\ Unmade /\ UNCHANGED <<row, letter, spent>>

Tailored ==
    /\ worker.at = "uploaded" /\ Report("filling")
    /\ Unmade /\ UNCHANGED <<artifacts, letter, net, spent>>

(***************************************************************************)
(* Filling: the form is read, the letter written, and the form filled.     *)
(***************************************************************************)
\* Holds of a form that cannot be filled.  Without the artifact of the master
\* the profile now names there is nothing to retry: the row is stuck.
WantsLetter == form = "required" \/ (form = "optional" /\ "letter" \in worker.ctx.allowed)
Hold ==
    /\ worker.at = "leased" /\ row.stage \in {"filling", "ready"}
    /\ \/ ~Verified(worker.ctx) /\ Report("stuck")
       \/ Verified(worker.ctx) /\ Report("retry")
       \/ /\ Verified(worker.ctx) /\ WantsLetter
          /\ "letter" \notin worker.ctx.allowed /\ Report("document")
       \/ /\ Verified(worker.ctx)
          /\ Unscreened(worker.ctx) \/ (WantsLetter /\ "name" \notin worker.ctx.answers)
          /\ Report("answer")
    /\ Unmade /\ UNCHANGED <<artifacts, letter, net, spent>>

\* Mutant of Written: every fill asks for a letter of its own.
WrittenAnew == spent.made + 1

\* The letter kept when the form was filled goes out again; otherwise one is written.
Written == IF worker.ctx.letter # 0 THEN worker.ctx.letter ELSE spent.made + 1

Fill ==
    /\ worker.at = "leased" /\ row.stage \in {"filling", "ready"}
    /\ Verified(worker.ctx) /\ ~Unscreened(worker.ctx)
    /\ LET letter1 == IF WantsLetter THEN Written ELSE 0
       IN  /\ letter1 # 0 => "letter" \in worker.ctx.allowed /\ "name" \in worker.ctx.answers
           /\ letter1 <= MaxMade
           /\ worker' = [worker EXCEPT !.letter = letter1,
                            !.at = IF letter1 # 0 /\ row.stage = "filling" THEN "posting" ELSE "filled"]
           /\ net' = IF letter1 # 0 /\ row.stage = "filling"
                     THEN net \union {[kind |-> "letter", fence |-> worker.fence, what |-> letter1]}
                     ELSE net
           /\ spent' = [spent EXCEPT !.made = IF letter1 > @ THEN letter1 ELSE @]
    /\ Unmade /\ UNCHANGED <<row, artifacts, letter>>

\* Mutant of Keeps: the newest letter is kept.
KeepsNewest == row.at \in {"filling", "ready"}

\* The first letter posted while the row is being filled is kept; no lease is
\* asked for, so the post of a stage that died may be the first.
Keeps == row.at = "filling" /\ letter = 0
Post ==
    \E m \in net :
        /\ m.kind = "letter" /\ net' = net \ {m}
        /\ letter' = IF Keeps THEN m.what ELSE letter
        /\ IF worker.at = "posting" /\ worker.fence = m.fence
           THEN IF row.at = "filling" THEN worker' = [worker EXCEPT !.at = "filled"] /\ UNCHANGED row
                ELSE Report("retry")
           ELSE UNCHANGED <<worker, row>>
        /\ Unmade /\ UNCHANGED <<artifacts, spent>>

\* The filled form waits for its review.
Park ==
    /\ worker.at = "filled" /\ row.stage = "filling" /\ Report("approval")
    /\ Unmade /\ UNCHANGED <<artifacts, letter, net, spent>>

\* Mutant of MayBegin: any lease of the approved row will do.
MayBeginAnyhow == row.at \in {"ready", "screening"}

\* The approved form, filled again, is sent under a lease that still holds.
MayBegin == Fenced(worker.fence) /\ row.at = "ready"
Begin ==
    /\ worker.at = "filled" /\ row.stage = "ready" /\ MayBegin
    /\ row' = [row EXCEPT !.at = "submitting", !.leased = FALSE]
    /\ sent' = [resume |-> worker.ctx.artifact, letter |-> worker.letter,
                answers |-> worker.ctx.answers, allowed |-> policy]
    /\ worker' = Idle
    /\ UNCHANGED <<profile, policy, posting, form, artifacts, letter, net, seen, spent>>

\* The worker dies, or an answer it waits for is lost and it reports a retry.
Fault ==
    /\ spent.faults < MaxFaults /\ worker.at # "idle"
    /\ spent' = [spent EXCEPT !.faults = @ + 1]
    /\ \/ worker' = Idle /\ UNCHANGED row
       \/ worker.at \in {"uploading", "posting"} /\ Report("retry")
    /\ Unmade /\ UNCHANGED <<artifacts, letter, net>>

Expire ==
    /\ row.leased /\ worker.at = "idle"
    /\ row' = [row EXCEPT !.leased = FALSE]
    /\ Unmade /\ UNCHANGED <<artifacts, letter, worker, net, spent>>

(***************************************************************************)
(* The applicant, and the world.                                           *)
(***************************************************************************)
Approve ==
    /\ row.at = "approval"
    /\ row' = [row EXCEPT !.at = "ready", !.fence = @ + 1]
    /\ seen' = Shown
    /\ UNCHANGED <<profile, policy, posting, form, artifacts, letter, worker, net, sent, spent>>

\* A hold is tried again from its stage; an approved form is filled again.
Retry ==
    /\ row.at \in {"retry", "document"} /\ row.tries < MaxTries
    /\ row' = [row EXCEPT !.at = IF row.stage = "ready" THEN "filling" ELSE row.stage,
                          !.tries = @ + 1, !.fence = @ + 1]
    /\ UNCHANGED <<profile, policy, posting, form, artifacts, letter, worker, net, seen, sent, spent>>

\* A question is answered, and the row screens again.
Answer ==
    /\ row.at = "answer"
    /\ profile' = [profile EXCEPT !.facts = Facts]
    /\ row' = [row EXCEPT !.at = "screening", !.fence = @ + 1]
    /\ UNCHANGED <<policy, posting, form, artifacts, letter, worker, net, seen, sent, spent>>

Edit ==
    /\ spent.edits < MaxEdits /\ row.at \notin Ends
    /\ spent' = [spent EXCEPT !.edits = @ + 1]
    /\ UNCHANGED <<artifacts, letter, worker, net, seen, sent>>

EditProfile ==
    /\ Edit
    /\ \/ \E m \in Masters \ {profile.master} : profile' = [profile EXCEPT !.master = m]
       \/ \E f \in profile.facts : profile' = [profile EXCEPT !.facts = @ \ {f}]
    /\ UNCHANGED <<policy, posting, form, row>>

\* A policy that fills forms differently is enabled: every lease ends, and a
\* filled or approved form screens again.
Refilled(r) ==
    [r EXCEPT !.leased = FALSE, !.fence = @ + 1,
              !.at = IF @ \in {"ready", "approval"} THEN "screening" ELSE @]
SavePolicy ==
    /\ Edit
    /\ \E k \in Optional : policy' = IF k \in policy THEN policy \ {k} ELSE policy \union {k}
    /\ row' = Refilled(row)
    /\ UNCHANGED <<profile, posting, form>>

\* The employer edits the form or the posting (a posting may be put back).
Employer ==
    /\ Edit
    /\ \/ \E f \in Fields \ {form} : form' = f /\ UNCHANGED posting
       \/ posting' = ~posting /\ UNCHANGED form
    /\ UNCHANGED <<profile, policy, row>>

Next ==
    \/ Lease \/ LeaseGone \/ Screen \/ TailorAtOnce \/ Refused \/ Upload \/ Tailored
    \/ \E text \in 0 .. MaxMade : Tailor(text)
    \/ Hold \/ Fill \/ Post \/ Park \/ Begin \/ Fault \/ Expire
    \/ Approve \/ Retry \/ Answer \/ EditProfile \/ SavePolicy \/ Employer

Spec == Init /\ [][Next]_vars

(***************************************************************************)
(* Properties.                                                             *)
(***************************************************************************)
Master(i) == IF i = 0 THEN 0 ELSE artifacts[i].of

\* The letter that goes out is the one the applicant reviewed, and if the
\* review showed a letter no other goes out (worker/main.ts:319: "The letter
\* saved when the form was filled is the one the applicant approved").
LetterStands == sent.letter # 0 /\ seen.letter # 0 => sent.letter = seen.letter

\* The resume that goes out is the reviewed one, unless the profile names
\* another master by then: no artifact made in between takes its place.
ResumeStands ==
    sent.resume # 0 /\ Master(sent.resume) = Master(seen.resume) => sent.resume = seen.resume

\* Nothing goes out that the policy in force at that moment does not allow,
\* though the context it was filled from was fetched under an earlier one.
PolicyStands ==
    /\ sent.letter # 0 => "letter" \in sent.allowed
    /\ "voluntary" \in sent.answers => "voluntary" \in sent.allowed

MaterialsStand == LetterStands /\ ResumeStands /\ PolicyStands

\* What the applicant is shown for an application is what it sends
\* (materials.ts:11: "What each application sent: its tailored resume (with the
\* lines that changed), its cover letter").
ShownIsSent ==
    row.at = "submitting" =>
        sent.resume = Shown.resume /\ (Shown.letter # 0 => sent.letter = Shown.letter)
================================================================================
