---------------------------- MODULE DocumentStore ----------------------------
(***************************************************************************)
(* An applicant's documents: the rows of the private database and the      *)
(* bytes of the private store, which no transaction spans (documents.ts,   *)
(* artifacts.ts).  An upload is granted, its bytes arrive through the      *)
(* server (a local directory) or from the client (the hosted store, which  *)
(* calls back), and they are validated; a grant that ran out is cleaned    *)
(* up; a worker's artifact is written under its application's lease.       *)
(* Requests interleave at their reads, writes and updates and may die      *)
(* between any two.                                                        *)
(*                                                                         *)
(* Time is a grant's phase (live; late; old, a minute later) and whether a *)
(* row's lease of 30 seconds ran out.  A request to receive or complete an *)
(* upload ends within that minute.                                         *)
(***************************************************************************)
EXTENDS Naturals, FiniteSets

CONSTANTS
    Documents,
    Requests,       \* requests the server may be serving at once
    Quota,          \* documents an applicant may keep
    MaxFaults       \* bound: requests that die

None == "none"
Contents == {"good", "bad"}     \* bytes that pass validation, or do not

VARIABLES
    mode,           \* the store: "local" or "blob"
    doc,            \* the row of each document and of its grant
    object,         \* its bytes: none, torn, good or bad
    landed,         \* the client's upload was taken by the hosted store
    request,        \* what each request does, to which document, how far
    faults

vars == <<mode, doc, object, landed, request, faults>>

NoDocument == [state |-> "absent", artifact |-> FALSE, grant |-> None,
               lease |-> None, over |-> FALSE]
Idle == [op |-> None, doc |-> None, step |-> None, read |-> None]

Init ==
    /\ mode \in {"local", "blob"}
    /\ doc = [d \in Documents |-> NoDocument]
    /\ object = [d \in Documents |-> None]
    /\ landed = [d \in Documents |-> FALSE]
    /\ request = [r \in Requests |-> Idle]
    /\ faults = 0

Kept == {d \in Documents : doc[d].state \notin {"absent", "expired"}}
LeaseFree(d) == doc[d].lease = None \/ doc[d].over
Begins(r, op, d, step) ==
    /\ request[r] = Idle
    /\ request' = [request EXCEPT ![r] = [op |-> op, doc |-> d, step |-> step, read |-> None]]
At(r, op, step) == request[r].op = op /\ request[r].step = step
Goes(r, step) == request' = [request EXCEPT ![r].step = step]
Ends(r) == request' = [request EXCEPT ![r] = Idle]

\* One request at a time works on a row, until its lease runs out.
Claimed(r, d, states) ==
    /\ doc[d].state \in states /\ LeaseFree(d)
    /\ doc' = [doc EXCEPT ![d].lease = r, ![d].over = FALSE]

\* An update made only under the request's own lease.
Settled(r, d, state) ==
    doc' = IF doc[d].lease = r
           THEN [doc EXCEPT ![d].state = state, ![d].lease = None, ![d].over = FALSE]
           ELSE doc

-----------------------------------------------------------------------------
\* Grants.  Only uploads count the quota; what a worker makes is kept too.
Create(d) ==
    /\ doc[d].state = "absent" /\ Cardinality(Kept) < Quota
    /\ doc' = [doc EXCEPT ![d].state = "pending", ![d].grant = "live"]
    /\ UNCHANGED <<mode, object, landed, request, faults>>

CreateArtifact(d) ==
    /\ doc[d].state = "absent"
    /\ doc' = [doc EXCEPT ![d].state = "pending", ![d].artifact = TRUE]
    /\ UNCHANGED <<mode, object, landed, request, faults>>

Late(d) ==
    /\ doc[d].grant = "live"
    /\ doc' = [doc EXCEPT ![d].grant = "late"]
    /\ UNCHANGED <<mode, object, landed, request, faults>>

Old(d) ==
    /\ doc[d].grant = "late"
    /\ \A r \in Requests : request[r].doc = d => request[r].op \notin {"receive", "complete"}
    /\ doc' = [doc EXCEPT ![d].grant = "old"]
    /\ UNCHANGED <<mode, object, landed, request, faults>>

LeaseEnds(d) ==
    /\ doc[d].lease # None /\ ~doc[d].over
    /\ doc' = [doc EXCEPT ![d].over = TRUE]
    /\ UNCHANGED <<mode, object, landed, request, faults>>

-----------------------------------------------------------------------------
\* An upload through the server.
StartReceive(r, d) ==
    /\ mode = "local" /\ doc[d].grant = "live"
    /\ Claimed(r, d, {"pending"}) /\ Begins(r, "receive", d, "open")
    /\ UNCHANGED <<mode, object, landed, faults>>

\* The file must be new; one that could not be written whole is unlinked.
OpenFile(r) ==
    LET d == request[r].doc
    IN /\ At(r, "receive", "open") \/ At(r, "artifact", "open")
       /\ mode = "local" /\ object[d] = None
       /\ object' = [object EXCEPT ![d] = "torn"] /\ Goes(r, "write")
       /\ UNCHANGED <<mode, doc, landed, faults>>

WriteFile(r) ==
    LET d == request[r].doc
    IN /\ request[r].step = "write"
       /\ \/ /\ \E content \in Contents : object' = [object EXCEPT ![d] = content]
             /\ Goes(r, "settle")
          \/ object' = [object EXCEPT ![d] = None] /\ Goes(r, "release")
       /\ UNCHANGED <<mode, doc, landed, faults>>

Exists(r) ==
    /\ At(r, "receive", "open") /\ object[request[r].doc] # None
    /\ Goes(r, "release")
    /\ UNCHANGED <<mode, doc, object, landed, faults>>

\* The row is quarantined and the same request goes on to validate it.
Received(r) ==
    LET d == request[r].doc
    IN /\ At(r, "receive", "settle")
       /\ Settled(r, d, "quarantined")
       /\ IF doc[d].lease = r
          THEN request' = [request EXCEPT ![r] = [Idle EXCEPT !.op = "validate", !.doc = d,
                                                              !.step = "claim"]]
          ELSE Goes(r, "release")
       /\ UNCHANGED <<mode, object, landed, faults>>

Release(r) ==
    /\ request[r].step = "release"
    /\ Settled(r, request[r].doc, doc[request[r].doc].state) /\ Ends(r)
    /\ UNCHANGED <<mode, object, landed, faults>>

\* An upload to the hosted store, while its token is valid, and never over
\* bytes that are there; the store calls back, at any later time.
Put(d) ==
    /\ mode = "blob" /\ doc[d].grant = "live" /\ doc[d].state = "pending" /\ object[d] = None
    /\ \E content \in Contents : object' = [object EXCEPT ![d] = content]
    /\ landed' = [landed EXCEPT ![d] = TRUE]
    /\ UNCHANGED <<mode, doc, request, faults>>

\* Mutant of MayComplete: a callback is taken however late it comes.
MayCompleteLate(d) == doc[d].state = "pending"

MayComplete(d) == doc[d].state = "pending" /\ doc[d].grant = "live"

StartComplete(r, d) ==
    /\ mode = "blob" /\ landed[d]
    /\ MayComplete(d) \/ doc[d].state = "quarantined"
    /\ Begins(r, "complete", d, "mark")
    /\ UNCHANGED <<mode, doc, object, landed, faults>>

Complete(r) ==
    LET d == request[r].doc
    IN /\ At(r, "complete", "mark")
       /\ doc' = IF doc[d].state = "pending" /\ LeaseFree(d)
                 THEN [doc EXCEPT ![d].state = "quarantined"] ELSE doc
       /\ request' = [request EXCEPT ![r] = [Idle EXCEPT !.op = "validate", !.doc = d,
                                                         !.step = "claim"]]
       /\ UNCHANGED <<mode, object, landed, faults>>

-----------------------------------------------------------------------------
\* Validation, by the request that completed the upload or by the applicant.
Revalidate(r, d) ==
    /\ doc[d].state = "quarantined" /\ Begins(r, "validate", d, "claim")
    /\ UNCHANGED <<mode, doc, object, landed, faults>>

ClaimToValidate(r) ==
    /\ At(r, "validate", "claim")
    /\ Claimed(r, request[r].doc, {"quarantined"}) /\ Goes(r, "read")
    /\ UNCHANGED <<mode, object, landed, faults>>

NotClaimed(r) ==
    /\ At(r, "validate", "claim")
    /\ doc[request[r].doc].state # "quarantined" \/ ~LeaseFree(request[r].doc)
    /\ Ends(r)
    /\ UNCHANGED <<mode, doc, object, landed, faults>>

\* The bytes are read, or cannot be: no bytes is no reason to reject them.
Read(r) ==
    /\ At(r, "validate", "read")
    /\ \E read \in {object[request[r].doc], None} :
         request' = [request EXCEPT ![r].step = "settle", ![r].read = read]
    /\ UNCHANGED <<mode, doc, object, landed, faults>>

\* Mutant of Verdict: bytes that could not be read are rejected.
VerdictOfMissing(read) ==
    IF read = "good" THEN "available" ELSE "rejected"

Verdict(read) ==
    CASE read = "good" -> "available"
      [] read \in {"bad", "torn"} -> "rejected"
      [] OTHER -> "quarantined"

\* A parser may be busy or time out: the verdict is put off.
Validated(r) ==
    LET d == request[r].doc
    IN /\ At(r, "validate", "settle")
       /\ \E verdict \in {Verdict(request[r].read), "quarantined"} :
            IF doc[d].state = "quarantined" THEN Settled(r, d, verdict) ELSE UNCHANGED doc
       /\ Ends(r)
       /\ UNCHANGED <<mode, object, landed, faults>>

-----------------------------------------------------------------------------
\* The bytes of a grant that ran out go before the quota they took.

\* Mutant of MayCleanUp: a grant's minute of grace is not waited for.
MayCleanUpLate(d) ==
    doc[d].grant \in {"late", "old"} /\ doc[d].state = "pending" /\ LeaseFree(d)

MayCleanUp(d) == doc[d].grant = "old" /\ doc[d].state = "pending" /\ LeaseFree(d)

StartCleanup(r, d) ==
    /\ MayCleanUp(d) /\ Begins(r, "cleanup", d, "claim")
    /\ UNCHANGED <<mode, doc, object, landed, faults>>

ClaimToCleanUp(r) ==
    LET d == request[r].doc
    IN /\ At(r, "cleanup", "claim")
       /\ IF doc[d].state = "pending" /\ LeaseFree(d)
          THEN Claimed(r, d, {"pending"}) /\ Goes(r, "delete")
          ELSE UNCHANGED doc /\ Ends(r)
       /\ UNCHANGED <<mode, object, landed, faults>>

\* A deletion that fails, or is not heard of, keeps the row.
Delete(r) ==
    LET d == request[r].doc
    IN /\ At(r, "cleanup", "delete")
       /\ \/ object' = [object EXCEPT ![d] = None] /\ Goes(r, "settle")
          \/ /\ object' \in {object, [object EXCEPT ![d] = None]}
             /\ Goes(r, "release")
       /\ UNCHANGED <<mode, doc, landed, faults>>

CleanedUp(r) ==
    /\ At(r, "cleanup", "settle")
    /\ Settled(r, request[r].doc, "expired") /\ Ends(r)
    /\ UNCHANGED <<mode, object, landed, faults>>

-----------------------------------------------------------------------------
\* A worker's artifact.  Its bytes match the hash of its manifest before
\* they are written, and a write that failed looks at what is there.
StartArtifact(r, d) ==
    /\ doc[d].artifact /\ doc[d].state \in {"pending", "quarantined"}
    /\ Begins(r, "artifact", d, "open")
    /\ UNCHANGED <<mode, doc, object, landed, faults>>

PutArtifact(r) ==
    LET d == request[r].doc
    IN /\ At(r, "artifact", "open")
       /\ \/ /\ mode = "blob" /\ object[d] = None
             /\ \E content \in Contents : object' = [object EXCEPT ![d] = content]
          \/ object[d] \in Contents /\ UNCHANGED object
       /\ Goes(r, "settle")
       /\ UNCHANGED <<mode, doc, landed, faults>>

ArtifactFails(r) ==
    /\ At(r, "artifact", "open") /\ mode = "local" /\ object[request[r].doc] = "torn"
    /\ Ends(r)
    /\ UNCHANGED <<mode, doc, object, landed, faults>>

\* Under the application's lease, which may be gone: the row gets the verdict,
\* or is quarantined for another try.  What is available stays so: the
\* trigger private_document_immutable_metadata aborts any other update.
ArtifactSettles(r) ==
    LET d == request[r].doc
    IN /\ At(r, "artifact", "settle")
       /\ \E state \in {Verdict(object[d]), "quarantined"} :
            doc' \in {doc, IF doc[d].state = "available" THEN doc
                           ELSE [doc EXCEPT ![d].state = state, ![d].lease = None,
                                            ![d].over = FALSE]}
       /\ Ends(r)
       /\ UNCHANGED <<mode, object, landed, faults>>

Dies(r) ==
    /\ faults < MaxFaults /\ faults' = faults + 1
    /\ request[r] # Idle /\ Ends(r)
    /\ UNCHANGED <<mode, doc, object, landed>>

-----------------------------------------------------------------------------
Step(r) ==
    \/ OpenFile(r) \/ WriteFile(r) \/ Exists(r) \/ Received(r) \/ Release(r)
    \/ Complete(r) \/ ClaimToValidate(r) \/ NotClaimed(r) \/ Read(r) \/ Validated(r)
    \/ ClaimToCleanUp(r) \/ Delete(r) \/ CleanedUp(r)
    \/ PutArtifact(r) \/ ArtifactFails(r) \/ ArtifactSettles(r) \/ Dies(r)

Start(r, d) ==
    \/ StartReceive(r, d) \/ StartComplete(r, d) \/ Revalidate(r, d)
    \/ StartCleanup(r, d) \/ StartArtifact(r, d)

Next ==
    \/ \E d \in Documents : \/ Create(d) \/ CreateArtifact(d) \/ Put(d)
                            \/ Late(d) \/ Old(d) \/ LeaseEnds(d)
    \/ \E r \in Requests : Step(r) \/ \E d \in Documents : Start(r, d)

Spec == Init /\ [][Next]_vars

-----------------------------------------------------------------------------
\* Every variable keeps its type.
TypeOK ==
    /\ object \in [Documents -> Contents \cup {None, "torn"}]
    /\ \A d \in Documents :
         /\ doc[d].state \in {"absent", "pending", "quarantined", "available",
                              "rejected", "expired"}
         /\ doc[d].lease \in Requests \cup {None}

\* What the rows say of the bytes is so, though no transaction spans both:
\* an available document has its validated bytes, bytes that are fine are
\* never rejected, and an expired row left none behind in the store.
RowsMatchBytes ==
    \A d \in Documents :
        /\ doc[d].state = "available" => object[d] = "good"
        /\ doc[d].state = "rejected" => object[d] \in {"bad", "torn"}
        /\ doc[d].state = "expired" => object[d] = None
=============================================================================
