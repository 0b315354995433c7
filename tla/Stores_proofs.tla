---------------------------- MODULE Stores_proofs -----------------------------
(***************************************************************************)
(* Proofs about what a count or a row says of something else, which other  *)
(* steps change: DocumentStore (of the bytes), ProviderBudget (of calls    *)
(* paid for), Pairing (of a machine's credentials) and ClaimCaps (of what  *)
(* was started).  None of them refers to another; each has its invariant,  *)
(* a lemma for each action, and its theorem last.                          *)
(***************************************************************************)
EXTENDS Integers, FiniteSets, FunctionTheorems, FiniteSetTheorems, TLAPS

CONSTANTS
    Documents, Quota, MaxDeaths,                            \* DocumentStore's
    Runs, Costs, PerRun, PerDay, Ttl, MaxClock, MaxCrashes, \* ProviderBudget's
    Requests,                                               \* of either
    Grants, Foreign, MaxSends, MaxChanges, MaxFaults,       \* Pairing's
    Rows, Label, Board, Limited, DailyCap, EmployerCap, Limit, Span, Day, MaxTime,
    MaxMarks                                                \* ClaimCaps'

VARIABLES
    mode, doc, object, landed, request, faults,
    clock, day, ledger, lock, requests, billed, crashes,
    grant, worker, binding, meta, vault, proc, net, made, told, spent,
    row, marks

Docs == INSTANCE DocumentStore WITH MaxFaults <- MaxDeaths
Budget == INSTANCE ProviderBudget
Pairs == INSTANCE Pairing
Caps == INSTANCE ClaimCaps WITH MaxClock <- MaxTime

-----------------------------------------------------------------------------
(* DocumentStore. *)

States == {"absent", "pending", "quarantined", "available", "rejected", "expired"}
Bytes == Docs!Contents \cup {Docs!None, "torn"}
Steps == {Docs!None, "open", "write", "settle", "release", "mark", "claim", "read", "delete"}
Ops == {Docs!None, "receive", "complete", "validate", "cleanup", "artifact"}
RowType == [state : States, artifact : BOOLEAN, grant : {Docs!None, "live", "late", "old"},
            lease : Requests \cup {Docs!None}, over : BOOLEAN]
ServingType ==
    {q \in [op : Ops, doc : Documents \cup {Docs!None}, step : Steps, read : Bytes] :
        q.op = Docs!None \/ q.doc \in Documents}

DocsTyped ==
    /\ doc \in [Documents -> RowType]
    /\ object \in [Documents -> Bytes]
    /\ landed \in [Documents -> BOOLEAN]
    /\ request \in [Requests -> ServingType]

\* What a row says of its grant and of its bytes.
RowIsWhole(d) ==
    /\ doc[d].state = "absent" => doc[d].grant = Docs!None /\ ~doc[d].artifact
    /\ doc[d].artifact => doc[d].grant = Docs!None
    /\ doc[d].state = "expired" => doc[d].grant = "old" /\ object[d] = Docs!None
    /\ doc[d].state \in {"quarantined", "available", "rejected"} => object[d] \in Docs!Contents
    /\ doc[d].state = "available" => object[d] = "good"
    /\ doc[d].state = "rejected" => object[d] = "bad"
    /\ landed[d] => object[d] \in Docs!Contents \/ doc[d].grant = "old"

\* What a request that is under way may count on, whoever else is.
Kind(r, op) == request[r].op = op
Standing(d) == doc[d].state \in {"quarantined", "available", "rejected"}
InGrant(d) == doc[d].grant \in {"live", "late"}

Counts(r) ==
    LET d == request[r].doc IN
    /\ request[r].step # Docs!None => ~Kind(r, Docs!None)
    /\ Kind(r, "receive") => InGrant(d)
    /\ Kind(r, "complete") => landed[d] /\ (InGrant(d) \/ Standing(d))
    /\ Kind(r, "cleanup") => doc[d].grant = "old" /\ doc[d].state \in {"pending", "expired"}
    /\ Kind(r, "artifact") => doc[d].artifact /\ doc[d].state # "absent"
    /\ Kind(r, "validate") /\ request[r].step \in {"read", "settle"} => Standing(d)
    /\ request[r].step = "write" => (Kind(r, "receive") \/ Kind(r, "artifact")) /\
         object[d] = "torn"
    /\ request[r].step = "settle" =>
          /\ Kind(r, "receive") \/ Kind(r, "artifact") => object[d] \in Docs!Contents
          /\ Kind(r, "cleanup") => object[d] = Docs!None
          /\ Kind(r, "validate") => request[r].read \in {Docs!None, object[d]}

OneWrites ==
    \A r, s \in Requests :
        /\ request[r].step = "write" /\ request[s].step = "write"
        /\ request[r].doc = request[s].doc
        => r = s

DocsInv ==
    /\ DocsTyped /\ OneWrites
    /\ \A d \in Documents : RowIsWhole(d)
    /\ \A r \in Requests : Counts(r)

-----------------------------------------------------------------------------
LEMMA RequestGoes ==
    ASSUME DocsTyped, NEW r \in Requests, NEW step \in Steps, Docs!Goes(r, step)
    PROVE  /\ request' \in [Requests -> ServingType]
           /\ request'[r].op = request[r].op /\ request'[r].doc = request[r].doc
           /\ request'[r].step = step /\ request'[r].read = request[r].read
           /\ \A s \in Requests \ {r} : request'[s] = request[s]
<1> DEFINE q == [request[r] EXCEPT !.step = step]
<1>1. request[r] \in ServingType
  BY DEF DocsTyped
<1>2. /\ q \in ServingType /\ q.op = request[r].op /\ q.doc = request[r].doc
      /\ q.step = step /\ q.read = request[r].read
  BY <1>1 DEF ServingType
<1>3. request' = [request EXCEPT ![r] = q]
  BY DEF Docs!Goes
<1> HIDE DEF q
<1> QED BY <1>2, <1>3 DEF DocsTyped

LEMMA ServingBecomes ==
    ASSUME DocsTyped, NEW r \in Requests, NEW q \in ServingType,
           request' = [request EXCEPT ![r] = q]
    PROVE  /\ request' \in [Requests -> ServingType] /\ request'[r] = q
           /\ \A s \in Requests \ {r} : request'[s] = request[s]
BY DEF DocsTyped

LEMMA RequestEnds ==
    ASSUME DocsTyped, NEW r \in Requests, Docs!Ends(r)
    PROVE  /\ request' \in [Requests -> ServingType]
           /\ request'[r].op = Docs!None /\ request'[r].step = Docs!None
           /\ \A s \in Requests \ {r} : request'[s] = request[s]
<1>1. Docs!Idle \in ServingType /\ Docs!Idle.op = Docs!None /\ Docs!Idle.step = Docs!None
  BY DEF Docs!Idle, ServingType, Ops, Steps, Bytes
<1>2. request' = [request EXCEPT ![r] = Docs!Idle]
  BY DEF Docs!Ends
<1> HIDE DEF Docs!Idle
<1> QED BY <1>1, <1>2, ServingBecomes

LEMMA RequestBegins ==
    ASSUME DocsTyped, NEW r \in Requests, NEW op \in Ops, NEW d \in Documents, NEW step \in Steps,
           request' = [request EXCEPT ![r] =
                      [op |-> op, doc |-> d, step |-> step, read |-> Docs!None]]
    PROVE  /\ request' \in [Requests -> ServingType]
           /\ request'[r].op = op /\ request'[r].doc = d /\ request'[r].step = step
           /\ \A s \in Requests \ {r} : request'[s] = request[s]
<1> DEFINE q == [op |-> op, doc |-> d, step |-> step, read |-> Docs!None]
<1>1. q \in ServingType /\ q.op = op /\ q.doc = d /\ q.step = step
  BY DEF ServingType, Bytes
<1> HIDE DEF q
<1> QED BY <1>1, ServingBecomes DEF q

LEMMA RequestValidates ==
    ASSUME DocsTyped, NEW r \in Requests, NEW d \in Documents,
           request' = [request EXCEPT ![r] = [Docs!Idle EXCEPT !.op = "validate", !.doc = d,
                                                          !.step = "claim"]]
    PROVE  /\ request' \in [Requests -> ServingType]
           /\ request'[r].op = "validate" /\ request'[r].doc = d /\ request'[r].step = "claim"
           /\ \A s \in Requests \ {r} : request'[s] = request[s]
<1> DEFINE q == [Docs!Idle EXCEPT !.op = "validate", !.doc = d, !.step = "claim"]
<1>1. q \in ServingType /\ q.op = "validate" /\ q.doc = d /\ q.step = "claim"
  BY DEF Docs!Idle, ServingType, Ops, Steps, Bytes
<1> HIDE DEF q
<1> QED BY <1>1, ServingBecomes DEF q

\* A row that changes is of its type, and every other stays as it is.
LEMMA RowBecomes ==
    ASSUME DocsTyped, NEW d \in Documents, NEW w \in RowType, doc' = [doc EXCEPT ![d] = w]
    PROVE  /\ doc' \in [Documents -> RowType] /\ doc'[d] = w
           /\ \A e \in Documents \ {d} : doc'[e] = doc[e]
BY DEF DocsTyped

LEMMA RowIsClaimed ==
    ASSUME DocsTyped, NEW r \in Requests, NEW d \in Documents, NEW states,
           Docs!Claimed(r, d, states)
    PROVE  /\ doc' \in [Documents -> RowType] /\ doc[d].state \in states
           /\ doc'[d].state = doc[d].state /\ doc'[d].grant = doc[d].grant
           /\ doc'[d].artifact = doc[d].artifact
           /\ \A e \in Documents \ {d} : doc'[e] = doc[e]
<1> DEFINE w == [doc[d] EXCEPT !.lease = r, !.over = FALSE]
<1>1. doc[d] \in RowType
  BY DEF DocsTyped
<1>2. /\ w \in RowType /\ w.state = doc[d].state /\ w.grant = doc[d].grant
      /\ w.artifact = doc[d].artifact
  BY <1>1 DEF RowType
<1>3. doc' = [doc EXCEPT ![d] = w] /\ doc[d].state \in states
  BY DEF Docs!Claimed
<1> HIDE DEF w
<1> QED BY <1>2, <1>3, RowBecomes

LEMMA RowIsSettled ==
    ASSUME DocsTyped, NEW r \in Requests, NEW d \in Documents, NEW state \in States,
           Docs!Settled(r, d, state)
    PROVE  /\ doc' \in [Documents -> RowType]
           /\ doc'[d].state \in {doc[d].state, state} /\ doc'[d].grant = doc[d].grant
           /\ doc'[d].artifact = doc[d].artifact
           /\ \A e \in Documents \ {d} : doc'[e] = doc[e]
<1> DEFINE w == [doc[d] EXCEPT !.state = state, !.lease = Docs!None, !.over = FALSE]
<1>1. doc[d] \in RowType
  BY DEF DocsTyped
<1>2. /\ w \in RowType /\ w.state = state /\ w.grant = doc[d].grant
      /\ w.artifact = doc[d].artifact
  BY <1>1 DEF RowType
<1>3. doc' = [doc EXCEPT ![d] = w] \/ doc' = doc
  BY DEF Docs!Settled
<1> HIDE DEF w
<1> QED BY <1>2, <1>3, RowBecomes DEF DocsTyped

-----------------------------------------------------------------------------
\* A step of one request: the others are where they were.
Moves(r) == \A s \in Requests \ {r} : request'[s] = request[s]

\* What requests count on of a row is not taken away.
Lasts(d) ==
    /\ Standing(d) => Standing(d)'
    /\ doc[d].grant = "old" /\ doc[d].state \in {"pending", "expired"}
       => doc'[d].grant = "old" /\ doc'[d].state \in {"pending", "expired"}
    /\ doc[d].artifact /\ doc[d].state # "absent"
       => doc'[d].artifact /\ doc'[d].state # "absent"
    /\ InGrant(d) => InGrant(d)' \/ \A r \in Requests :
                                      request[r].doc = d => ~Kind(r, "receive") /\
                                        ~Kind(r, "complete")

LEMMA RowsMove ==
    ASSUME DocsInv, DocsTyped', object' = object, landed' = landed,
           \A d \in Documents : Lasts(d) /\ RowIsWhole(d)',
           NEW R \in SUBSET Requests,
           \A r \in R : Counts(r)' /\ request'[r].step # "write",
           \A r \in Requests \ R : request'[r] = request[r]
    PROVE  DocsInv'
<1>1. OneWrites'
  BY DEF DocsInv, OneWrites
<1>2. ASSUME NEW s \in Requests \ R
      PROVE  Counts(s)'
  <2>1. Counts(s) /\ request'[s] = request[s] /\ request[s] \in ServingType
    BY DEF DocsInv, DocsTyped
  <2>2. CASE request[s].op = Docs!None
    BY <2>1, <2>2 DEF Counts, Kind, Docs!None
  <2>3. CASE request[s].op # Docs!None
    <3>1. request[s].doc \in Documents
      BY <2>1, <2>3 DEF ServingType
    <3>2. Lasts(request[s].doc)
      BY <3>1
    <3> QED BY <2>1, <3>1, <3>2 DEF Counts, Kind, Lasts, Standing, InGrant
  <2> QED BY <2>2, <2>3
<1> QED BY <1>1, <1>2 DEF DocsInv

\* A step that changes one request alone.
LEMMA RequestMoves ==
    ASSUME DocsInv, UNCHANGED <<doc, object, landed>>, request' \in [Requests -> ServingType],
           NEW r \in Requests, Moves(r), Counts(r)', request'[r].step # "write"
    PROVE  DocsInv'
<1>1. DocsTyped'
  BY DEF DocsInv, DocsTyped, RowType
<1>2. \A d \in Documents : Lasts(d) /\ RowIsWhole(d)'
  BY DEF DocsInv, RowIsWhole, Lasts, Standing, InGrant
<1>3. {r} \in SUBSET Requests /\ \A q \in {r} : Counts(q)' /\ request'[q].step # "write"
  OBVIOUS
<1> QED BY <1>1, <1>2, <1>3, RowsMove DEF Moves

LEMMA RowMoves ==
    ASSUME DocsInv, doc' \in [Documents -> RowType], UNCHANGED <<object, landed>>,
           request' \in [Requests -> ServingType],
           NEW r \in Requests, Moves(r), Counts(r)', request'[r].step # "write",
           NEW d \in Documents, Lasts(d), RowIsWhole(d)',
           \A e \in Documents \ {d} : doc'[e] = doc[e]
    PROVE  DocsInv'
<1>1. DocsTyped'
  BY DEF DocsInv, DocsTyped
<1>2. \A e \in Documents : Lasts(e) /\ RowIsWhole(e)'
  BY DEF DocsInv, RowIsWhole, Lasts, Standing, InGrant
<1>3. {r} \in SUBSET Requests /\ \A q \in {r} : Counts(q)' /\ request'[q].step # "write"
  OBVIOUS
<1> QED BY <1>1, <1>2, <1>3, RowsMove DEF Moves

LEMMA GrantMoves ==
    ASSUME DocsInv, doc' \in [Documents -> RowType], UNCHANGED <<object, landed, request>>,
           NEW d \in Documents, Lasts(d), RowIsWhole(d)',
           \A e \in Documents \ {d} : doc'[e] = doc[e]
    PROVE  DocsInv'
<1>1. DocsTyped'
  BY DEF DocsInv, DocsTyped, ServingType
<1>2. \A e \in Documents : Lasts(e) /\ RowIsWhole(e)'
  BY DEF DocsInv, RowIsWhole, Lasts, Standing, InGrant
<1>3. {} \in SUBSET Requests /\ \A q \in Requests : request'[q] = request[q]
  OBVIOUS
<1> QED BY <1>1, <1>2, <1>3, RowsMove

\* Bytes change only under a row that says nothing of them, and no request
\* but the one that changes them counts on those that were there.
LEMMA BytesMove ==
    ASSUME DocsInv, object' \in [Documents -> Bytes], doc' = doc,
           landed' \in [Documents -> BOOLEAN],
           request' \in [Requests -> ServingType],
           NEW R \in SUBSET Requests, \A r \in Requests \ R : request'[r] = request[r],
           NEW d \in Documents, RowIsWhole(d)', \A r \in R : Counts(r)', OneWrites',
           \A e \in Documents \ {d} : object'[e] = object[e] /\ landed'[e] = landed[e],
           landed[d] => landed'[d],
           \A s \in Requests \ R :
              request[s].doc = d =>
                 /\ request[s].step # "write"
                 /\ request[s].step = "settle" =>
                       IF Kind(s, "cleanup") THEN object'[d] = Docs!None
                       ELSE object'[d] = object[d] \/ Kind(s, "complete")
    PROVE  DocsInv'
<1>1. DocsTyped'
  BY DEF DocsInv, DocsTyped, RowType
<1>2. ASSUME NEW e \in Documents
      PROVE  RowIsWhole(e)'
  BY DEF DocsInv, RowIsWhole
<1>3. ASSUME NEW s \in Requests
      PROVE  Counts(s)'
  <2>1. CASE s \in R
    BY <2>1
  <2>2. CASE s \notin R
    <3>1. Counts(s) /\ request'[s] = request[s] /\ request[s] \in ServingType
      BY <2>2 DEF DocsInv, DocsTyped
    <3>2. CASE request[s].op = Docs!None
      BY <3>1, <3>2 DEF Counts, Kind, Docs!None
    <3>3. CASE request[s].op # Docs!None
      <4>1. request[s].doc \in Documents
        BY <3>1, <3>3 DEF ServingType
      <4>2. CASE request[s].doc # d
        BY <3>1, <4>1, <4>2 DEF Counts, Kind, Standing, InGrant
      <4>3. CASE request[s].doc = d
        BY <2>2, <3>1, <4>3 DEF Counts, Kind, Standing, InGrant, Docs!None, Docs!Contents
      <4> QED BY <4>2, <4>3
    <3> QED BY <3>2, <3>3
  <2> QED BY <2>1, <2>2
<1> QED BY <1>1, <1>2, <1>3 DEF DocsInv

LEMMA ExistsKeeps ==
    ASSUME DocsInv, NEW r \in Requests, Docs!Exists(r)
    PROVE  DocsInv'
<1>1. /\ UNCHANGED <<doc, object, landed>> /\ request' \in [Requests -> ServingType]
      /\ Moves(r) /\ request'[r].step # "write" /\ Counts(r)'
  BY RequestGoes DEF Docs!Exists, Docs!At, Moves, Counts, Kind, DocsInv, Docs!Begins, Ops,
     Steps, Standing, InGrant, Docs!MayComplete, Docs!MayCleanUp, Docs!Contents, Docs!None
<1> QED BY <1>1, RequestMoves

LEMMA NotClaimedKeeps ==
    ASSUME DocsInv, NEW r \in Requests, Docs!NotClaimed(r)
    PROVE  DocsInv'
<1>1. /\ UNCHANGED <<doc, object, landed>> /\ request' \in [Requests -> ServingType]
      /\ Moves(r) /\ request'[r].step # "write" /\ Counts(r)'
  BY RequestEnds DEF Docs!NotClaimed, Docs!At, Moves, Counts, Kind, DocsInv, Docs!Begins, Ops,
     Steps, Standing, InGrant, Docs!MayComplete, Docs!MayCleanUp, Docs!Contents, Docs!None
<1> QED BY <1>1, RequestMoves

LEMMA ArtifactFailsKeeps ==
    ASSUME DocsInv, NEW r \in Requests, Docs!ArtifactFails(r)
    PROVE  DocsInv'
<1>1. /\ UNCHANGED <<doc, object, landed>> /\ request' \in [Requests -> ServingType]
      /\ Moves(r) /\ request'[r].step # "write" /\ Counts(r)'
  BY RequestEnds DEF Docs!ArtifactFails, Docs!At, Moves, Counts, Kind, DocsInv, Docs!Begins,
     Ops, Steps, Standing, InGrant, Docs!MayComplete, Docs!MayCleanUp, Docs!Contents, Docs!None
<1> QED BY <1>1, RequestMoves

LEMMA DiesKeeps ==
    ASSUME DocsInv, NEW r \in Requests, Docs!Dies(r)
    PROVE  DocsInv'
<1>1. /\ UNCHANGED <<doc, object, landed>> /\ request' \in [Requests -> ServingType]
      /\ Moves(r) /\ request'[r].step # "write" /\ Counts(r)'
  BY RequestEnds DEF Docs!Dies, Docs!At, Moves, Counts, Kind, DocsInv, Docs!Begins, Ops, Steps,
     Standing, InGrant, Docs!MayComplete, Docs!MayCleanUp, Docs!Contents, Docs!None
<1> QED BY <1>1, RequestMoves

LEMMA StartCompleteKeeps ==
    ASSUME DocsInv, NEW r \in Requests, NEW d \in Documents, Docs!StartComplete(r, d)
    PROVE  DocsInv'
<1>1. /\ UNCHANGED <<doc, object, landed>> /\ request' \in [Requests -> ServingType]
      /\ Moves(r) /\ request'[r].step # "write" /\ Counts(r)'
  BY RequestBegins DEF Docs!StartComplete, Docs!At, Moves, Counts, Kind, DocsInv, Docs!Begins,
     Ops, Steps, Standing, InGrant, Docs!MayComplete, Docs!MayCleanUp, Docs!Contents, Docs!None
<1> QED BY <1>1, RequestMoves

LEMMA RevalidateKeeps ==
    ASSUME DocsInv, NEW r \in Requests, NEW d \in Documents, Docs!Revalidate(r, d)
    PROVE  DocsInv'
<1>1. /\ UNCHANGED <<doc, object, landed>> /\ request' \in [Requests -> ServingType]
      /\ Moves(r) /\ request'[r].step # "write" /\ Counts(r)'
  BY RequestBegins DEF Docs!Revalidate, Docs!At, Moves, Counts, Kind, DocsInv, Docs!Begins,
     Ops, Steps, Standing, InGrant, Docs!MayComplete, Docs!MayCleanUp, Docs!Contents, Docs!None
<1> QED BY <1>1, RequestMoves

LEMMA StartCleanupKeeps ==
    ASSUME DocsInv, NEW r \in Requests, NEW d \in Documents, Docs!StartCleanup(r, d)
    PROVE  DocsInv'
<1>1. /\ UNCHANGED <<doc, object, landed>> /\ request' \in [Requests -> ServingType]
      /\ Moves(r) /\ request'[r].step # "write" /\ Counts(r)'
  BY RequestBegins DEF Docs!StartCleanup, Docs!At, Moves, Counts, Kind, DocsInv, Docs!Begins,
     Ops, Steps, Standing, InGrant, Docs!MayComplete, Docs!MayCleanUp, Docs!Contents, Docs!None
<1> QED BY <1>1, RequestMoves

LEMMA StartArtifactKeeps ==
    ASSUME DocsInv, NEW r \in Requests, NEW d \in Documents, Docs!StartArtifact(r, d)
    PROVE  DocsInv'
<1>1. /\ UNCHANGED <<doc, object, landed>> /\ request' \in [Requests -> ServingType]
      /\ Moves(r) /\ request'[r].step # "write" /\ Counts(r)'
  BY RequestBegins DEF Docs!StartArtifact, Docs!At, Moves, Counts, Kind, DocsInv, Docs!Begins,
     Ops, Steps, Standing, InGrant, Docs!MayComplete, Docs!MayCleanUp, Docs!Contents, Docs!None
<1> QED BY <1>1, RequestMoves

LEMMA ReadKeeps ==
    ASSUME DocsInv, NEW r \in Requests, Docs!Read(r)
    PROVE  DocsInv'
<1>1. PICK read \in {object[request[r].doc], Docs!None} :
         request' = [request EXCEPT ![r].step = "settle", ![r].read = read]
  BY DEF Docs!Read
<1> DEFINE q == [request[r] EXCEPT !.step = "settle", !.read = read]
<1>2. request[r] \in ServingType /\ request[r].op = "validate" /\ request[r].doc \in Documents
  BY DEF DocsInv, DocsTyped, Docs!Read, Docs!At, ServingType, Docs!None
<1>3. /\ q \in ServingType /\ q.op = "validate" /\ q.doc = request[r].doc
      /\ q.step = "settle" /\ q.read = read
  <2>1. read \in Bytes
    BY <1>1, <1>2 DEF DocsInv, DocsTyped, Bytes
  <2> QED BY <1>2, <2>1 DEF ServingType, Steps
<1>4. request' = [request EXCEPT ![r] = q]
  BY <1>1
<1> HIDE DEF q
<1>5. /\ request' \in [Requests -> ServingType] /\ request'[r] = q /\ Moves(r)
  BY <1>3, <1>4, ServingBecomes DEF DocsInv, Moves
<1>6. UNCHANGED <<doc, object, landed>> /\ Standing(request[r].doc)
  BY <1>2 DEF Docs!Read, DocsInv, Counts, Docs!At, Kind
<1>7. Counts(r)'
  BY <1>1, <1>3, <1>5, <1>6 DEF Counts, Kind, Docs!None, Standing
<1> QED BY <1>3, <1>5, <1>6, <1>7, RequestMoves

LEMMA CompleteKeeps ==
    ASSUME DocsInv, NEW r \in Requests, NEW d \in Documents, request[r].doc = d, Docs!Complete(r)
    PROVE  DocsInv'
<1> DEFINE w == [doc[d] EXCEPT !.state = "quarantined"]
<1>1. /\ doc[d] \in RowType /\ landed[d]
      /\ InGrant(d) \/ Standing(d)
  BY DEF Docs!Complete, Docs!At, DocsInv, DocsTyped, ServingType, Counts, Kind, Docs!None
<1>2. /\ request' \in [Requests -> ServingType]
      /\ request'[r].op = "validate" /\ request'[r].step = "claim" /\ Moves(r)
  BY RequestValidates DEF Docs!Complete, DocsInv, Moves
<1>3. /\ w \in RowType /\ w.state = "quarantined" /\ w.grant = doc[d].grant
      /\ w.artifact = doc[d].artifact
  BY <1>1 DEF RowType, States
<1>4. \/ doc' = doc
      \/ doc' = [doc EXCEPT ![d] = w] /\ doc[d].state = "pending"
  BY DEF Docs!Complete
<1> HIDE DEF w
<1>5. /\ doc' \in [Documents -> RowType] /\ \A e \in Documents \ {d} : doc'[e] = doc[e]
      /\ \/ doc'[d] = doc[d]
         \/ doc'[d] = w /\ doc[d].state = "pending"
  BY <1>1, <1>3, <1>4, RowBecomes DEF DocsInv, DocsTyped
<1>6. UNCHANGED <<object, landed>>
  BY DEF Docs!Complete
<1>7. RowIsWhole(d)' /\ Lasts(d)
  BY <1>1, <1>3, <1>5, <1>6 DEF DocsInv, RowIsWhole, Lasts, Standing, InGrant
<1>8. Counts(r)'
  BY <1>2 DEF Counts, Kind, Docs!None
<1> QED BY <1>1, <1>2, <1>5, <1>6, <1>7, <1>8, RowMoves

LEMMA ClaimToValidateKeeps ==
    ASSUME DocsInv, NEW r \in Requests, NEW d \in Documents, request[r].doc = d,
           Docs!ClaimToValidate(r)
    PROVE  DocsInv'
<1>1. Counts(r) /\ RowIsWhole(d)
  BY DEF Docs!ClaimToValidate, Docs!At, DocsInv, DocsTyped, ServingType, Kind, Docs!None
<1>2. UNCHANGED <<object, landed>>
  BY DEF Docs!ClaimToValidate
<1>3. /\ doc' \in [Documents -> RowType] /\ doc[d].state = "quarantined"
      /\ doc'[d].state = doc[d].state /\ doc'[d].grant = doc[d].grant
      /\ doc'[d].artifact = doc[d].artifact
      /\ \A e \in Documents \ {d} : doc'[e] = doc[e]
  BY <1>1, RowIsClaimed DEF Docs!ClaimToValidate, DocsInv
<1>4. /\ request' \in [Requests -> ServingType] /\ Moves(r) /\ request'[r].doc = d
      /\ request'[r].op = "validate" /\ request'[r].step = "read"
  BY RequestGoes DEF Docs!ClaimToValidate, Docs!At, DocsInv, Steps, Moves
<1>5. RowIsWhole(d)' /\ Lasts(d) /\ Counts(r)'
  BY <1>1, <1>2, <1>3, <1>4 DEF RowIsWhole, Lasts, Standing, InGrant, Counts, Kind, Docs!None
<1> QED BY <1>1, <1>2, <1>3, <1>4, <1>5, RowMoves

LEMMA ReceivedKeeps ==
    ASSUME DocsInv, NEW r \in Requests, NEW d \in Documents, request[r].doc = d, Docs!Received(r)
    PROVE  DocsInv'
<1>1. Counts(r) /\ RowIsWhole(d)
  BY DEF Docs!Received, Docs!At, DocsInv, DocsTyped, ServingType, Kind, Docs!None
<1>2. UNCHANGED <<object, landed>>
  BY DEF Docs!Received
<1>0. request[r].op = "receive" /\ request[r].step = "settle"
  BY DEF Docs!Received, Docs!At
<1>3. /\ doc' \in [Documents -> RowType]
      /\ doc'[d].state \in {doc[d].state, "quarantined"} /\ doc'[d].grant = doc[d].grant
      /\ doc'[d].artifact = doc[d].artifact
      /\ \A e \in Documents \ {d} : doc'[e] = doc[e]
  BY <1>1, RowIsSettled DEF Docs!Received, DocsInv, States
<1>4. /\ request' \in [Requests -> ServingType] /\ Moves(r) /\ request'[r].doc = d
      /\ \/ request'[r].op = "validate" /\ request'[r].step = "claim"
         \/ request'[r].op = "receive" /\ request'[r].step = "release"
  <2>1. CASE doc[d].lease = r
    BY <2>1, RequestValidates DEF Docs!Received, DocsInv, Moves
  <2>2. CASE doc[d].lease # r
    BY <1>0, <2>2, RequestGoes DEF Docs!Received, DocsInv, Steps, Moves
  <2> QED BY <2>1, <2>2
<1>5. RowIsWhole(d)' /\ Lasts(d) /\ Counts(r)'
  BY <1>0, <1>1, <1>2, <1>3, <1>4 DEF RowIsWhole, Lasts, Standing, InGrant, Counts, Kind,
     Docs!None, Docs!Contents
<1> QED BY <1>1, <1>2, <1>3, <1>4, <1>5, RowMoves

LEMMA ReleaseKeeps ==
    ASSUME DocsInv, NEW r \in Requests, NEW d \in Documents, request[r].doc = d, Docs!Release(r)
    PROVE  DocsInv'
<1>1. Counts(r) /\ RowIsWhole(d)
  BY DEF Docs!Release, Docs!At, DocsInv, DocsTyped, ServingType, Kind, Docs!None, Counts
<1>2. UNCHANGED <<object, landed>>
  BY DEF Docs!Release
<1>3. /\ doc' \in [Documents -> RowType]
      /\ doc'[d].state = doc[d].state /\ doc'[d].grant = doc[d].grant
      /\ doc'[d].artifact = doc[d].artifact
      /\ \A e \in Documents \ {d} : doc'[e] = doc[e]
  <2>1. doc[d].state \in States
    BY <1>1 DEF DocsInv, DocsTyped, RowType
  <2> QED BY <1>1, <2>1, RowIsSettled DEF Docs!Release, DocsInv
<1>4. /\ request' \in [Requests -> ServingType] /\ Moves(r)
      /\ request'[r].op = Docs!None /\ request'[r].step = Docs!None
  BY RequestEnds DEF Docs!Release, DocsInv, Moves
<1>5. RowIsWhole(d)' /\ Lasts(d) /\ Counts(r)'
  BY <1>1, <1>2, <1>3, <1>4 DEF RowIsWhole, Lasts, Standing, InGrant, Counts, Kind, Docs!None
<1> QED BY <1>1, <1>2, <1>3, <1>4, <1>5, RowMoves DEF Docs!None

LEMMA ValidatedKeeps ==
    ASSUME DocsInv, NEW r \in Requests, NEW d \in Documents, request[r].doc = d, Docs!Validated(r)
    PROVE  DocsInv'
<1>1. Counts(r) /\ RowIsWhole(d)
  BY DEF Docs!Validated, Docs!At, DocsInv, DocsTyped, ServingType, Kind, Docs!None
<1>2. UNCHANGED <<object, landed>>
  BY DEF Docs!Validated
<1>0. request[r].op = "validate" /\ request[r].step = "settle" /\ request[r].read \in Bytes
  BY DEF Docs!Validated, Docs!At, DocsInv, DocsTyped, ServingType
<1>3. /\ doc' \in [Documents -> RowType]
      /\ \/ doc'[d].state = doc[d].state
         \/ doc'[d].state \in {Docs!Verdict(request[r].read), "quarantined"}
      /\ doc'[d].grant = doc[d].grant /\ doc'[d].artifact = doc[d].artifact
      /\ \A e \in Documents \ {d} : doc'[e] = doc[e]
  <2>1. PICK verdict \in {Docs!Verdict(request[r].read), "quarantined"} :
           IF doc[d].state = "quarantined" THEN Docs!Settled(r, d, verdict) ELSE UNCHANGED doc
    BY DEF Docs!Validated
  <2>2. verdict \in States
    BY DEF Docs!Verdict, States
  <2>3. CASE doc[d].state = "quarantined"
    BY <1>1, <2>1, <2>2, <2>3, RowIsSettled DEF DocsInv
  <2>4. CASE doc[d].state # "quarantined"
    BY <2>1, <2>4 DEF DocsInv, DocsTyped
  <2> QED BY <2>3, <2>4
<1>4. /\ request' \in [Requests -> ServingType] /\ Moves(r)
      /\ request'[r].op = Docs!None /\ request'[r].step = Docs!None
  BY RequestEnds DEF Docs!Validated, DocsInv, Moves
<1>5. Standing(d) /\ request[r].read \in {Docs!None, object[d]}
  BY <1>0, <1>1 DEF Counts, Kind
<1>6. RowIsWhole(d)' /\ Lasts(d)
  BY <1>0, <1>1, <1>2, <1>3, <1>5 DEF RowIsWhole, Lasts, Standing, InGrant, Docs!Verdict,
     Docs!None, Docs!Contents
<1>7. Counts(r)'
  BY <1>4 DEF Counts, Kind, Docs!None
<1> QED BY <1>1, <1>2, <1>3, <1>4, <1>6, <1>7, RowMoves DEF Docs!None

LEMMA ClaimToCleanUpKeeps ==
    ASSUME DocsInv, NEW r \in Requests, NEW d \in Documents, request[r].doc = d,
           Docs!ClaimToCleanUp(r)
    PROVE  DocsInv'
<1>1. Counts(r) /\ RowIsWhole(d)
  BY DEF Docs!ClaimToCleanUp, Docs!At, DocsInv, DocsTyped, ServingType, Kind, Docs!None
<1>2. UNCHANGED <<object, landed>>
  BY DEF Docs!ClaimToCleanUp
<1>0. request[r].op = "cleanup" /\ doc[d].grant = "old" /\ doc[d].state \in {"pending", "expired"}
  BY <1>1 DEF Docs!ClaimToCleanUp, Docs!At, Counts, Kind
<1>3. /\ doc' \in [Documents -> RowType]
      /\ doc'[d].state = doc[d].state /\ doc'[d].grant = doc[d].grant
      /\ doc'[d].artifact = doc[d].artifact
      /\ \A e \in Documents \ {d} : doc'[e] = doc[e]
  BY <1>1, RowIsClaimed DEF Docs!ClaimToCleanUp, DocsInv, DocsTyped
<1>4. /\ request' \in [Requests -> ServingType] /\ Moves(r)
      /\ \/ request'[r].op = Docs!None /\ request'[r].step = Docs!None
         \/ request'[r].doc = d /\ request'[r].op = "cleanup" /\ request'[r].step = "delete"
  BY <1>0, RequestGoes, RequestEnds DEF Docs!ClaimToCleanUp, DocsInv, Steps, Moves
<1>5. RowIsWhole(d)' /\ Lasts(d)
  BY <1>1, <1>2, <1>3 DEF RowIsWhole, Lasts, Standing, InGrant
<1>6. Counts(r)' /\ request'[r].step # "write"
  BY <1>0, <1>3, <1>4 DEF Counts, Kind, Docs!None
<1> QED BY <1>1, <1>2, <1>3, <1>4, <1>5, <1>6, RowMoves

LEMMA CleanedUpKeeps ==
    ASSUME DocsInv, NEW r \in Requests, NEW d \in Documents, request[r].doc = d, Docs!CleanedUp(r)
    PROVE  DocsInv'
<1>1. Counts(r) /\ RowIsWhole(d)
  BY DEF Docs!CleanedUp, Docs!At, DocsInv, DocsTyped, ServingType, Kind, Docs!None
<1>2. UNCHANGED <<object, landed>>
  BY DEF Docs!CleanedUp
<1>0. doc[d].grant = "old" /\ doc[d].state \in {"pending", "expired"} /\ object[d] = Docs!None
  BY <1>1 DEF Docs!CleanedUp, Docs!At, Counts, Kind
<1>3. /\ doc' \in [Documents -> RowType]
      /\ doc'[d].state \in {doc[d].state, "expired"} /\ doc'[d].grant = doc[d].grant
      /\ doc'[d].artifact = doc[d].artifact
      /\ \A e \in Documents \ {d} : doc'[e] = doc[e]
  BY <1>1, RowIsSettled DEF Docs!CleanedUp, DocsInv, States
<1>4. /\ request' \in [Requests -> ServingType] /\ Moves(r)
      /\ request'[r].op = Docs!None /\ request'[r].step = Docs!None
  BY RequestEnds DEF Docs!CleanedUp, DocsInv, Moves
<1>5. RowIsWhole(d)' /\ Lasts(d)
  BY <1>0, <1>1, <1>2, <1>3 DEF RowIsWhole, Lasts, Standing, InGrant, Docs!None
<1>6. Counts(r)'
  BY <1>4 DEF Counts, Kind, Docs!None
<1> QED BY <1>1, <1>2, <1>3, <1>4, <1>5, <1>6, RowMoves DEF Docs!None

LEMMA ArtifactSettlesKeeps ==
    ASSUME DocsInv, NEW r \in Requests, NEW d \in Documents, request[r].doc = d,
           Docs!ArtifactSettles(r)
    PROVE  DocsInv'
<1>1. Counts(r) /\ RowIsWhole(d)
  BY DEF Docs!ArtifactSettles, Docs!At, DocsInv, DocsTyped, ServingType, Kind, Docs!None
<1>2. UNCHANGED <<object, landed>>
  BY DEF Docs!ArtifactSettles
<1>0. /\ object[d] \in Docs!Contents /\ doc[d].artifact /\ doc[d].state # "absent"
      /\ doc[d] \in RowType
  BY <1>1 DEF Docs!ArtifactSettles, Docs!At, Counts, Kind, DocsInv, DocsTyped
<1>3. /\ doc' \in [Documents -> RowType]
      /\ \/ doc'[d].state = doc[d].state
         \/ doc'[d].state \in {Docs!Verdict(object[d]), "quarantined"} /\
              doc[d].state # "available"
      /\ doc'[d].grant = doc[d].grant /\ doc'[d].artifact = doc[d].artifact
      /\ \A e \in Documents \ {d} : doc'[e] = doc[e]
  <2>1. PICK state \in {Docs!Verdict(object[d]), "quarantined"} :
           doc' \in {doc, IF doc[d].state = "available" THEN doc
                          ELSE [doc EXCEPT ![d].state = state, ![d].lease = Docs!None,
                                           ![d].over = FALSE]}
    BY DEF Docs!ArtifactSettles
  <2> DEFINE w == [doc[d] EXCEPT !.state = state, !.lease = Docs!None, !.over = FALSE]
  <2>2. state \in States
    BY DEF Docs!Verdict, States
  <2>3. /\ w \in RowType /\ w.state = state /\ w.grant = doc[d].grant
        /\ w.artifact = doc[d].artifact
    BY <1>0, <2>2 DEF RowType
  <2>4. \/ doc' = doc
        \/ doc' = [doc EXCEPT ![d] = w] /\ doc[d].state # "available"
    BY <2>1
  <2> HIDE DEF w
  <2>5. CASE doc' = doc
    BY <2>5 DEF DocsInv, DocsTyped
  <2>6. CASE doc' = [doc EXCEPT ![d] = w] /\ doc[d].state # "available"
    BY <1>1, <2>1, <2>3, <2>6, RowBecomes DEF DocsInv
  <2> QED BY <2>4, <2>5, <2>6
<1>4. /\ request' \in [Requests -> ServingType] /\ Moves(r)
      /\ request'[r].op = Docs!None /\ request'[r].step = Docs!None
  BY RequestEnds DEF Docs!ArtifactSettles, DocsInv, Moves
<1>5. RowIsWhole(d)' /\ Lasts(d)
  BY <1>0, <1>1, <1>2, <1>3 DEF RowIsWhole, Lasts, Standing, InGrant, Docs!Verdict, Docs!None,
     Docs!Contents
<1>6. Counts(r)'
  BY <1>4 DEF Counts, Kind, Docs!None
<1> QED BY <1>1, <1>2, <1>3, <1>4, <1>5, <1>6, RowMoves DEF Docs!None

LEMMA StartReceiveKeeps ==
    ASSUME DocsInv, NEW r \in Requests, NEW d \in Documents, Docs!StartReceive(r, d)
    PROVE  DocsInv'
<1>1. RowIsWhole(d) /\ doc[d].grant = "live" /\ UNCHANGED <<object, landed>>
  BY DEF DocsInv, Docs!StartReceive
<1>2. /\ doc' \in [Documents -> RowType] /\ doc[d].state = "pending"
      /\ doc'[d].state = doc[d].state /\ doc'[d].grant = doc[d].grant
      /\ doc'[d].artifact = doc[d].artifact
      /\ \A e \in Documents \ {d} : doc'[e] = doc[e]
  BY RowIsClaimed DEF Docs!StartReceive, DocsInv
<1>3. /\ request' \in [Requests -> ServingType] /\ Moves(r)
      /\ request'[r].op = "receive" /\ request'[r].doc = d /\ request'[r].step = "open"
  BY RequestBegins DEF Docs!StartReceive, Docs!Begins, DocsInv, Ops, Steps, Moves
<1>4. RowIsWhole(d)' /\ Lasts(d) /\ Counts(r)'
  BY <1>1, <1>2, <1>3 DEF RowIsWhole, Lasts, Standing, InGrant, Counts, Kind, Docs!None
<1> QED BY <1>1, <1>2, <1>3, <1>4, RowMoves

\* Bytes that change alone with one request.
LEMMA BytesMoveFor ==
    ASSUME DocsInv, object' \in [Documents -> Bytes], UNCHANGED <<doc, landed>>,
           request' \in [Requests -> ServingType],
           NEW r \in Requests, Moves(r), Counts(r)', OneWrites',
           NEW d \in Documents, RowIsWhole(d)',
           \A e \in Documents \ {d} : object'[e] = object[e],
           \A s \in Requests \ {r} :
              request[s].doc = d =>
                 /\ request[s].step # "write"
                 /\ request[s].step = "settle" =>
                       IF Kind(s, "cleanup") THEN object'[d] = Docs!None
                       ELSE object'[d] = object[d] \/ Kind(s, "complete")
    PROVE  DocsInv'
<1>1. {r} \in SUBSET Requests /\ \A q \in {r} : Counts(q)'
  OBVIOUS
<1>2. landed' \in [Documents -> BOOLEAN] /\ doc' = doc /\
      \A e \in Documents : landed'[e] = landed[e]
  BY DEF DocsInv, DocsTyped
<1> QED BY <1>1, <1>2, BytesMove DEF Moves

LEMMA OpenFileKeeps ==
    ASSUME DocsInv, NEW r \in Requests, NEW d \in Documents, request[r].doc = d, Docs!OpenFile(r)
    PROVE  DocsInv'
<1>1. /\ request[r].op \in {"receive", "artifact"} /\ object[d] = Docs!None
      /\ object' = [object EXCEPT ![d] = "torn"]
      /\ UNCHANGED <<doc, landed>> /\ Counts(r) /\ RowIsWhole(d)
  BY DEF Docs!OpenFile, Docs!At, DocsInv
<1>2. /\ object' \in [Documents -> Bytes] /\ object'[d] = "torn"
      /\ \A e \in Documents \ {d} : object'[e] = object[e]
  BY <1>1 DEF DocsInv, DocsTyped, Bytes
<1>3. /\ request' \in [Requests -> ServingType] /\ Moves(r)
      /\ request'[r].doc = d /\ request'[r].op = request[r].op /\ request'[r].step = "write"
  BY RequestGoes DEF Docs!OpenFile, DocsInv, Steps, Moves
<1>4. RowIsWhole(d)'
  BY <1>1, <1>2 DEF RowIsWhole, Docs!Contents, Docs!None, Counts, Kind, InGrant
<1>5. Counts(r)'
  BY <1>1, <1>2, <1>3 DEF Counts, Kind, Docs!None, InGrant
<1>6. \A s \in Requests : request[s].doc = d =>
         /\ request[s].step # "write"
         /\ request[s].step = "settle" => Kind(s, "cleanup") \/ Kind(s, "complete")
  <2> SUFFICES ASSUME NEW s \in Requests, request[s].doc = d
               PROVE  /\ request[s].step # "write"
                      /\ request[s].step = "settle" => Kind(s, "cleanup") \/ Kind(s, "complete")
    OBVIOUS
  <2>1. Counts(s) /\ ~Standing(d) /\ request[s].op \in Ops
    BY <1>1 DEF DocsInv, DocsTyped, ServingType, RowIsWhole, Standing, Docs!Contents, Docs!None
  <2> QED BY <1>1, <2>1 DEF Counts, Kind, Docs!None, Docs!Contents, Ops
<1>7. \A s \in Requests : Kind(s, "cleanup") => request[s].doc # d
  BY <1>1 DEF DocsInv, Counts, Kind, InGrant, RowIsWhole, Docs!None
<1>8. OneWrites'
  BY <1>3, <1>6 DEF OneWrites, DocsInv, Moves
<1> QED BY <1>1, <1>2, <1>3, <1>4, <1>5, <1>6, <1>7, <1>8, BytesMoveFor

\* Where bytes are torn, only the request that writes them counts on them.
LEMMA WritesAlone ==
    ASSUME DocsInv, NEW r \in Requests, NEW d \in Documents, request[r].doc = d,
           request[r].step = "write"
    PROVE  /\ object[d] = "torn" /\ ~Standing(d)
           /\ \A s \in Requests \ {r} : request[s].doc = d =>
                 /\ request[s].step # "write"
                 /\ request[s].step = "settle" => Kind(s, "complete")
<1>1. object[d] = "torn" /\ ~Standing(d)
  BY DEF DocsInv, Counts, RowIsWhole, Standing, Docs!Contents
<1>2. ASSUME NEW s \in Requests \ {r}, request[s].doc = d
      PROVE  /\ request[s].step # "write"
             /\ request[s].step = "settle" => Kind(s, "complete")
  <2>1. Counts(s) /\ request[s].op \in Ops
    BY DEF DocsInv, DocsTyped, ServingType
  <2>2. request[s].step # "write"
    BY <1>2 DEF DocsInv, OneWrites
  <2> QED BY <1>1, <1>2, <2>1, <2>2 DEF Counts, Kind, Docs!None, Docs!Contents, Ops
<1> QED BY <1>1, <1>2

LEMMA WriteFileKeeps ==
    ASSUME DocsInv, NEW r \in Requests, NEW d \in Documents, request[r].doc = d, Docs!WriteFile(r)
    PROVE  DocsInv'
<1>1. /\ request[r].step = "write" /\ Counts(r) /\ RowIsWhole(d)
      /\ UNCHANGED <<doc, landed>>
  BY DEF Docs!WriteFile, DocsInv
<1>2. PICK bytes \in Docs!Contents \cup {Docs!None} :
         /\ object' = [object EXCEPT ![d] = bytes]
         /\ IF bytes = Docs!None THEN Docs!Goes(r, "release") ELSE Docs!Goes(r, "settle")
  BY DEF Docs!WriteFile, Docs!Contents, Docs!None
<1>3. /\ object' \in [Documents -> Bytes] /\ object'[d] = bytes
      /\ \A e \in Documents \ {d} : object'[e] = object[e]
  BY <1>2 DEF DocsInv, DocsTyped, Bytes
<1>4. /\ request' \in [Requests -> ServingType] /\ Moves(r)
      /\ request'[r].doc = d /\ request'[r].op = request[r].op
      /\ request'[r].step = IF bytes = Docs!None THEN "release" ELSE "settle"
  BY <1>2, RequestGoes DEF DocsInv, Steps, Moves
<1>5. ~Standing(d) /\ object[d] = "torn"
  BY <1>1, WritesAlone
<1>6. RowIsWhole(d)'
  BY <1>1, <1>3, <1>5 DEF RowIsWhole, Standing, Docs!Contents, Docs!None
<1>7. Counts(r)'
  BY <1>1, <1>2, <1>3, <1>4 DEF Counts, Kind, Docs!None, InGrant, Docs!Contents
<1>8. OneWrites'
  BY <1>4 DEF OneWrites, DocsInv, Moves
<1>9. \A s \in Requests \ {r} : request[s].doc = d =>
         /\ request[s].step # "write"
         /\ request[s].step = "settle" => Kind(s, "complete")
  BY <1>1, WritesAlone
<1>10. \A s \in Requests : Kind(s, "complete") => ~Kind(s, "cleanup")
  BY DEF Kind
<1> QED BY <1>1, <1>3, <1>4, <1>6, <1>7, <1>8, <1>9, <1>10, BytesMoveFor

LEMMA DeleteKeeps ==
    ASSUME DocsInv, NEW r \in Requests, NEW d \in Documents, request[r].doc = d, Docs!Delete(r)
    PROVE  DocsInv'
<1>1. /\ Kind(r, "cleanup") /\ Counts(r) /\ RowIsWhole(d) /\ UNCHANGED <<doc, landed>>
      /\ doc[d].grant = "old" /\ doc[d].state \in {"pending", "expired"}
  BY DEF Docs!Delete, Docs!At, Kind, DocsInv, Counts
<1>2. /\ \/ object' = [object EXCEPT ![d] = Docs!None] /\
           (Docs!Goes(r, "settle") \/ Docs!Goes(r, "release"))
         \/ object' = object /\ Docs!Goes(r, "release")
  BY DEF Docs!Delete
<1>3. /\ object' \in [Documents -> Bytes] /\ object'[d] \in {Docs!None, object[d]}
      /\ \A e \in Documents \ {d} : object'[e] = object[e]
      /\ object'[d] = Docs!None \/ request'[r].step # "settle"
      /\ request' \in [Requests -> ServingType] /\ Moves(r)
      /\ request'[r].doc = d /\ request'[r].op = request[r].op /\
           request'[r].step \in {"settle", "release"}
  <2>1. object \in [Documents -> Bytes] /\ Docs!None \in Bytes
    BY DEF DocsInv, DocsTyped, Bytes
  <2>2. CASE Docs!Goes(r, "settle") /\ object' = [object EXCEPT ![d] = Docs!None]
    BY <2>1, <2>2, RequestGoes DEF DocsInv, Steps, Moves
  <2>3. CASE Docs!Goes(r, "release") /\ object' \in {object, [object EXCEPT ![d] = Docs!None]}
    BY <2>1, <2>3, RequestGoes DEF DocsInv, Steps, Moves
  <2> QED BY <1>2, <2>2, <2>3
<1>4. RowIsWhole(d)' /\ Counts(r)'
  BY <1>1, <1>3 DEF RowIsWhole, Counts, Kind, Docs!None, Docs!Contents
<1>5. \A s \in Requests : request[s].doc = d =>
         /\ request[s].step # "write"
         /\ request[s].step = "settle" =>
               IF Kind(s, "cleanup") THEN object[d] = Docs!None
               ELSE Kind(s, "complete")
  <2> SUFFICES ASSUME NEW s \in Requests, request[s].doc = d
               PROVE  /\ request[s].step # "write"
                      /\ request[s].step = "settle" =>
                            IF Kind(s, "cleanup") THEN object[d] = Docs!None ELSE Kind(s, "complete")
    OBVIOUS
  <2>1. Counts(s) /\ request[s].op \in Ops
    BY DEF DocsInv, DocsTyped, ServingType
  <2>2. ~Standing(d) /\ ~InGrant(d) /\ ~doc[d].artifact
    BY <1>1 DEF RowIsWhole, Standing, InGrant, Docs!None
  <2> QED BY <2>1, <2>2 DEF Counts, Kind, Docs!None, Ops
<1>6. OneWrites'
  BY <1>3 DEF OneWrites, DocsInv, Moves
<1>7. \A s \in Requests : request[s].doc = d =>
         /\ request[s].step # "write"
         /\ request[s].step = "settle" =>
               IF Kind(s, "cleanup") THEN object'[d] = Docs!None
               ELSE object'[d] = object[d] \/ Kind(s, "complete")
  BY <1>3, <1>5
<1> QED BY <1>1, <1>3, <1>4, <1>6, <1>7, BytesMoveFor

LEMMA PutArtifactKeeps ==
    ASSUME DocsInv, NEW r \in Requests, NEW d \in Documents, request[r].doc = d,
           Docs!PutArtifact(r)
    PROVE  DocsInv'
<1>1. /\ Kind(r, "artifact") /\ Counts(r) /\ RowIsWhole(d) /\ UNCHANGED <<doc, landed>>
      /\ doc[d].artifact /\ doc[d].state # "absent"
  BY DEF Docs!PutArtifact, Docs!At, Kind, DocsInv, Counts
<1>2. /\ request' \in [Requests -> ServingType] /\ Moves(r)
      /\ request'[r].doc = d /\ request'[r].op = request[r].op /\ request'[r].step = "settle"
  BY RequestGoes DEF Docs!PutArtifact, DocsInv, Steps, Moves
<1>3. CASE object[d] \in Docs!Contents /\ UNCHANGED object
  <2>1. Counts(r)'
    BY <1>1, <1>2, <1>3 DEF Counts, Kind, Docs!None
  <2> QED BY <1>1, <1>2, <1>3, <2>1, RequestMoves
<1>4. CASE object[d] = Docs!None /\
           \E content \in Docs!Contents : object' = [object EXCEPT ![d] = content]
  <2>1. /\ object' \in [Documents -> Bytes] /\ object'[d] \in Docs!Contents
        /\ \A e \in Documents \ {d} : object'[e] = object[e]
    BY <1>4 DEF DocsInv, DocsTyped, Bytes
  <2>2. RowIsWhole(d)' /\ Counts(r)' /\ ~Standing(d) /\ ~InGrant(d) /\ doc[d].grant = Docs!None
    BY <1>1, <1>2, <1>4, <2>1 DEF RowIsWhole, Counts, Kind, Docs!None, Docs!Contents, Standing,
       InGrant
  <2>3. \A s \in Requests : request[s].doc = d =>
           /\ request[s].step # "write"
           /\ request[s].step = "settle" => Kind(s, "complete") /\ ~Kind(s, "cleanup")
    <3> SUFFICES ASSUME NEW s \in Requests, request[s].doc = d
                 PROVE  /\ request[s].step # "write"
                        /\ request[s].step = "settle" => Kind(s, "complete") /\
                             ~Kind(s, "cleanup")
      OBVIOUS
    <3>1. Counts(s) /\ request[s].op \in Ops
      BY DEF DocsInv, DocsTyped, ServingType
    <3> QED BY <1>4, <2>2, <3>1 DEF Counts, Kind, Docs!None, Docs!Contents, Ops
  <2>4. OneWrites'
    BY <1>2 DEF OneWrites, DocsInv, Moves
  <2> QED BY <1>1, <1>2, <2>1, <2>2, <2>3, <2>4, BytesMoveFor
<1> QED BY <1>3, <1>4 DEF Docs!PutArtifact

LEMMA PutKeeps ==
    ASSUME DocsInv, NEW d \in Documents, Docs!Put(d)
    PROVE  DocsInv'
<1>1. /\ doc[d].state = "pending" /\ doc[d].grant = "live" /\ object[d] = Docs!None
      /\ UNCHANGED <<doc, request>> /\ RowIsWhole(d)
  BY DEF Docs!Put, DocsInv
<1>2. /\ object' \in [Documents -> Bytes] /\ object'[d] \in Docs!Contents
      /\ landed' \in [Documents -> BOOLEAN] /\ landed'[d]
      /\ \A e \in Documents \ {d} : object'[e] = object[e] /\ landed'[e] = landed[e]
  BY DEF Docs!Put, DocsInv, DocsTyped, Bytes
<1>3. RowIsWhole(d)' /\ ~Standing(d) /\ ~doc[d].artifact
  BY <1>1, <1>2 DEF RowIsWhole, Standing, Docs!None
<1>4. \A s \in Requests : request[s].doc = d =>
         /\ request[s].step # "write"
         /\ request[s].step = "settle" => Kind(s, "complete") /\ ~Kind(s, "cleanup")
  <2> SUFFICES ASSUME NEW s \in Requests, request[s].doc = d
               PROVE  /\ request[s].step # "write"
                      /\ request[s].step = "settle" => Kind(s, "complete") /\ ~Kind(s, "cleanup")
    OBVIOUS
  <2>1. Counts(s) /\ request[s].op \in Ops
    BY DEF DocsInv, DocsTyped, ServingType
  <2> QED BY <1>1, <1>3, <2>1 DEF Counts, Kind, Docs!None, Docs!Contents, Ops
<1>5. {} \in SUBSET Requests /\ \A s \in Requests : request'[s] = request[s]
  BY <1>1
<1>6. OneWrites' /\ request' \in [Requests -> ServingType]
  BY <1>1 DEF OneWrites, DocsInv, DocsTyped, ServingType
<1> QED BY <1>1, <1>2, <1>3, <1>4, <1>5, <1>6, BytesMove

-----------------------------------------------------------------------------
LEMMA GrantsKeep ==
    ASSUME DocsInv, NEW d \in Documents,
           Docs!Create(d) \/ Docs!CreateArtifact(d) \/ Docs!Late(d) \/ Docs!Old(d) \/
             Docs!LeaseEnds(d)
    PROVE  DocsInv'
<1>1. UNCHANGED <<object, landed, request>> /\ doc[d] \in RowType /\ RowIsWhole(d)
  BY DEF Docs!Create, Docs!CreateArtifact, Docs!Late, Docs!Old, Docs!LeaseEnds, DocsInv,
     DocsTyped
<1>2. CASE Docs!Create(d)
  <2> DEFINE w == [doc[d] EXCEPT !.state = "pending", !.grant = "live"]
  <2>1. /\ w \in RowType /\ w.state = "pending" /\ w.grant = "live" /\
             w.artifact = doc[d].artifact
        /\ doc[d].state = "absent" /\ doc' = [doc EXCEPT ![d] = w]
    BY <1>1, <1>2 DEF RowType, States, Docs!Create
  <2> HIDE DEF w
  <2>2. /\ doc' \in [Documents -> RowType] /\ doc'[d] = w
        /\ \A e \in Documents \ {d} : doc'[e] = doc[e]
    BY <2>1, RowBecomes DEF DocsInv
  <2>3. RowIsWhole(d)' /\ Lasts(d)
    BY <1>1, <2>1, <2>2 DEF RowIsWhole, Lasts, Standing, InGrant, Docs!None
  <2> QED BY <1>1, <2>2, <2>3, GrantMoves
<1>3. CASE Docs!CreateArtifact(d)
  <2> DEFINE w == [doc[d] EXCEPT !.state = "pending", !.artifact = TRUE]
  <2>1. /\ w \in RowType /\ w.state = "pending" /\ w.grant = doc[d].grant /\ w.artifact
        /\ doc[d].state = "absent" /\ doc' = [doc EXCEPT ![d] = w]
    BY <1>1, <1>3 DEF RowType, States, Docs!CreateArtifact
  <2> HIDE DEF w
  <2>2. /\ doc' \in [Documents -> RowType] /\ doc'[d] = w
        /\ \A e \in Documents \ {d} : doc'[e] = doc[e]
    BY <2>1, RowBecomes DEF DocsInv
  <2>3. RowIsWhole(d)' /\ Lasts(d)
    BY <1>1, <2>1, <2>2 DEF RowIsWhole, Lasts, Standing, InGrant, Docs!None
  <2> QED BY <1>1, <2>2, <2>3, GrantMoves
<1>4. ASSUME NEW to \in {"late", "old"}, doc' = [doc EXCEPT ![d].grant = to],
             (doc[d].grant = "live" /\ to = "late") \/ (Docs!Old(d) /\ to = "old")
      PROVE  DocsInv'
  <2> DEFINE w == [doc[d] EXCEPT !.grant = to]
  <2>1. /\ w \in RowType /\ w.state = doc[d].state /\ w.grant = to
        /\ w.artifact = doc[d].artifact /\ doc' = [doc EXCEPT ![d] = w]
    BY <1>1, <1>4 DEF RowType
  <2> HIDE DEF w
  <2>2. /\ doc' \in [Documents -> RowType] /\ doc'[d] = w
        /\ \A e \in Documents \ {d} : doc'[e] = doc[e]
    BY <2>1, RowBecomes DEF DocsInv
  <2>3. doc[d].grant \in {"live", "late"}
    BY <1>4 DEF Docs!Old
  <2>4. RowIsWhole(d)' /\ Lasts(d)
    BY <1>1, <1>4, <2>1, <2>2, <2>3 DEF RowIsWhole, Lasts, Standing, InGrant, Docs!None,
       Docs!Old, Kind
  <2> QED BY <1>1, <2>2, <2>4, GrantMoves
<1>5. CASE Docs!LeaseEnds(d)
  <2> DEFINE w == [doc[d] EXCEPT !.over = TRUE]
  <2>1. /\ w \in RowType /\ w.state = doc[d].state /\ w.grant = doc[d].grant
        /\ w.artifact = doc[d].artifact /\ doc' = [doc EXCEPT ![d] = w]
    BY <1>1, <1>5 DEF RowType, Docs!LeaseEnds
  <2> HIDE DEF w
  <2>2. /\ doc' \in [Documents -> RowType] /\ doc'[d] = w
        /\ \A e \in Documents \ {d} : doc'[e] = doc[e]
    BY <2>1, RowBecomes DEF DocsInv
  <2>3. RowIsWhole(d)' /\ Lasts(d)
    BY <1>1, <2>1, <2>2 DEF RowIsWhole, Lasts, Standing, InGrant
  <2> QED BY <1>1, <2>2, <2>3, GrantMoves
<1> QED BY <1>2, <1>3, <1>4, <1>5 DEF Docs!Late, Docs!Old

LEMMA DocsBegin ==
    ASSUME Docs!Init
    PROVE  DocsInv
<1>1. Docs!NoDocument \in RowType /\ Docs!Idle \in ServingType
  BY DEF Docs!NoDocument, Docs!Idle, RowType, ServingType, States, Ops, Steps, Bytes
<1>2. DocsTyped
  BY <1>1 DEF Docs!Init, DocsTyped, Bytes
<1>3. /\ \A d \in Documents : doc[d].state = "absent" /\ ~doc[d].artifact /\
           doc[d].grant = Docs!None /\ ~landed[d]
      /\ \A r \in Requests : request[r].op = Docs!None /\ request[r].step = Docs!None
  BY DEF Docs!Init, Docs!NoDocument, Docs!Idle
<1> QED BY <1>2, <1>3 DEF DocsInv, OneWrites, RowIsWhole, Counts, Kind, Docs!None

LEMMA DocsStepKeeps ==
    ASSUME DocsInv, [Docs!Next]_Docs!vars
    PROVE  DocsInv'
<1>1. ASSUME NEW r \in Requests, Docs!Step(r)
      PROVE  DocsInv'
  <2>1. CASE Docs!Exists(r) \/ Docs!NotClaimed(r) \/ Docs!Read(r) \/ Docs!ArtifactFails(r) \/
             Docs!Dies(r)
    BY <2>1, ExistsKeeps, NotClaimedKeeps, ReadKeeps, ArtifactFailsKeeps, DiesKeeps
  <2>2. CASE ~(Docs!Exists(r) \/ Docs!NotClaimed(r) \/ Docs!Read(r) \/ Docs!ArtifactFails(r)
               \/ Docs!Dies(r))
    <3>1. request[r].op # Docs!None
      BY <1>1, <2>2 DEF Docs!Step, Docs!OpenFile, Docs!WriteFile, Docs!Received, Docs!Release,
         Docs!Complete, Docs!ClaimToValidate,
         Docs!Validated, Docs!ClaimToCleanUp, Docs!Delete, Docs!CleanedUp, Docs!PutArtifact,
         Docs!ArtifactSettles, Docs!At, Docs!None, DocsInv, Counts, Kind
    <3>2. request[r].doc \in Documents
      BY <3>1 DEF DocsInv, DocsTyped, ServingType
    <3> QED
      BY <1>1, <2>2, <3>2, OpenFileKeeps, WriteFileKeeps, ReceivedKeeps, ReleaseKeeps,
         CompleteKeeps,
         ClaimToValidateKeeps, ValidatedKeeps, ClaimToCleanUpKeeps, DeleteKeeps, CleanedUpKeeps,
         PutArtifactKeeps, ArtifactSettlesKeeps DEF Docs!Step
  <2> QED BY <2>1, <2>2
<1>2. ASSUME NEW r \in Requests, NEW d \in Documents, Docs!Start(r, d)
      PROVE  DocsInv'
  BY <1>2, StartReceiveKeeps, StartCompleteKeeps, RevalidateKeeps, StartCleanupKeeps,
     StartArtifactKeeps DEF Docs!Start
<1>3. CASE UNCHANGED Docs!vars
  BY <1>3 DEF Docs!vars, DocsInv, DocsTyped, RowType, ServingType, OneWrites, RowIsWhole,
     Counts, Kind, Standing, InGrant
<1> QED BY <1>1, <1>2, <1>3, PutKeeps, GrantsKeep DEF Docs!Next

\* What the rows say of the bytes is always so, over any number of uploads,
\* validations, cleanups and deaths between two of a request's steps.
THEOREM RowsAlwaysMatch == Docs!Spec => [](Docs!TypeOK /\ Docs!RowsMatchBytes)
<1>1. Docs!Init => DocsInv
  BY DocsBegin
<1>2. DocsInv /\ [Docs!Next]_Docs!vars => DocsInv'
  BY DocsStepKeeps
<1>3. DocsInv => Docs!TypeOK /\ Docs!RowsMatchBytes
  BY DEF DocsInv, DocsTyped, RowType, States, Bytes, RowIsWhole, Docs!TypeOK,
     Docs!RowsMatchBytes, Docs!None
<1> QED BY <1>1, <1>2, <1>3, PTL DEF Docs!Spec

-----------------------------------------------------------------------------
(* ProviderBudget. *)

\* Costs and limits are numbers, and a reservation lasts a while.
BudgetAssumption ==
    /\ IsFiniteSet(Runs) /\ Budget!Free \notin Requests
    /\ Costs \subseteq Nat /\ PerRun \in Nat /\ PerDay \in Nat /\ Ttl \in Nat /\ Ttl > 0

Phases == {"idle", "reserving", "ready", "sent", "settle", "settling", "over", "lost"}
Reservations == [id : Requests, run : Runs, cost : Nat, expires : Nat]
Ledgers == [day : 0..2, spent : [Runs -> Nat], reserved : SUBSET Reservations]

RequestType == [phase : Phases, run : Runs \cup {0}, cost : Nat, charge : Nat, tries : Int,
                seen : Ledgers]

BudgetTyped ==
    /\ clock \in Nat /\ day \in 1..2 /\ crashes \in Nat
    /\ ledger \in Ledgers /\ ledger.day \in 1..2
    /\ requests \in [Requests -> RequestType]
    /\ billed \subseteq [id : Requests, cost : Nat, day : 1..2] /\ IsFiniteSet(billed)

\* Between taking the lock and giving it up, a request has it.
HasLock(q) == Budget!Is(q, "reserving") \/ Budget!Is(q, "settling")
Active(q) == requests[q].phase \in {"ready", "sent", "settle", "settling"}
OneWriter ==
    /\ lock \in Requests \cup {Budget!Free}
    /\ \A q \in Requests : HasLock(q) <=> lock = q

\* A ledger, the file's or the one that was read, is within the limits and holds
\* what is true of the requests.
Sound(l) ==
    /\ IsFiniteSet(l.reserved)
    /\ Budget!Spent(l) + Budget!Cost(l.reserved) <= PerDay
    /\ \A run \in Runs : l.spent[run] + Budget!Cost({x \in l.reserved : x.run = run}) <= PerRun
Tells(l, rs) ==
    \A x \in l.reserved :
        rs[x.id].phase # "idle" /\ x.run = rs[x.id].run /\ x.cost = rs[x.id].cost
Good(l) == Sound(l) /\ Tells(l, requests)

LedgersAreGood ==
    /\ Good(ledger)
    /\ \A q \in Requests : HasLock(q) => Good(requests[q].seen) /\ requests[q].seen.day \in 1..2

\* On the first day, what was read is the file until it is written.
ReadIsCurrent ==
    day = 1 =>
        /\ ledger.day = 1
        /\ \A q \in Requests : HasLock(q) => requests[q].seen = ledger

\* A request under way is reserved and does not expire.
ActiveIsHeld ==
    day = 1 => \A q \in Requests : Active(q) =>
        \E x \in ledger.reserved : x.id = q /\ x.expires > clock

BilledOnce ==
    /\ \A b \in billed :
          /\ b.cost <= requests[b.id].cost /\ b.cost = requests[b.id].charge
          /\ requests[b.id].phase \in {"sent", "settle", "settling", "over", "lost"}
    /\ \A b, c \in billed : b.id = c.id => b = c

RequestsAreWhole ==
    \A q \in Requests :
        /\ requests[q].charge <= requests[q].cost
        /\ ~Budget!Is(q, "idle") => requests[q].run \in Runs

\* What is over was settled at no less than it was charged.
OverIsSpent ==
    day = 1 /\ crashes = 0 =>
      Budget!Cost({b \in billed : Budget!Is(b.id, "over")}) <= Budget!Spent(ledger)

BudgetInv ==
    /\ BudgetTyped /\ OneWriter /\ LedgersAreGood /\ ReadIsCurrent /\ ActiveIsHeld /\ BilledOnce
    /\ RequestsAreWhole /\ OverIsSpent

-----------------------------------------------------------------------------
\* Sums. A sum is a natural number; it grows and shrinks by what is added and
\* taken away; it is no more than another that has, for each of its values, one
\* that is no less.
LEMMA SameCardinality == \A S : Budget!Cardinality(S) = Cardinality(S)
BY Zenon DEF Budget!Cardinality, Cardinality, Budget!IsFiniteSet, IsFiniteSet

LEMMA SameFinite == \A S : Budget!IsFiniteSet(S) = IsFiniteSet(S)
BY Zenon DEF Budget!IsFiniteSet, IsFiniteSet

LEMMA TotalIs == \A f : Budget!Total(f) = Cardinality(Budget!Units(f))
BY SameCardinality DEF Budget!Total

LEMMA UnitsFinite ==
    ASSUME NEW S, IsFiniteSet(S), NEW f \in [S -> Nat]
    PROVE  IsFiniteSet(Budget!Units(f)) /\ Budget!Total(f) \in Nat
<1> DEFINE k == [x \in S |-> {x} \X (1..f[x])]
           Z == {{x} \X (1..f[x]) : x \in S}
<1>1. k \in Surjection(S, Z)
  BY DEF Surjection
<1>2. IsFiniteSet(Z)
  BY <1>1, FS_Surjection
<1>3. ASSUME NEW x \in S
      PROVE  IsFiniteSet({x} \X (1..f[x]))
  <2>1. IsFiniteSet(1..f[x])
    BY FS_Interval
  <2>2. IsFiniteSet({x})
    BY FS_Singleton
  <2> QED BY <2>1, <2>2, FS_Product
<1>4. \A T \in Z : IsFiniteSet(T)
  BY <1>3
<1>5. Budget!Units(f) = UNION Z
  BY DEF Budget!Units
<1> HIDE DEF Z
<1>6. IsFiniteSet(Budget!Units(f))
  BY <1>2, <1>4, <1>5, FS_UNION
<1> QED BY <1>6, FS_CardinalityType, TotalIs

LEMMA TotalOfEmpty ==
    ASSUME NEW f, DOMAIN f = {}
    PROVE  Budget!Total(f) = 0
BY FS_EmptySet, TotalIs DEF Budget!Units

LEMMA TotalAtMost ==
    ASSUME NEW S, NEW T, IsFiniteSet(T), NEW f \in [S -> Nat], NEW g \in [T -> Nat],
           NEW h \in [S -> T], \A x, y \in S : h[x] = h[y] => x = y,
           \A x \in S : f[x] <= g[h[x]]
    PROVE  Budget!Total(f) <= Budget!Total(g)
<1> DEFINE k == [u \in Budget!Units(f) |-> <<h[u[1]], u[2]>>]
<1>1. \A u \in Budget!Units(f) : u = <<u[1], u[2]>> /\ u[1] \in S /\ u[2] \in 1..f[u[1]]
  BY DEF Budget!Units
<1>2. \A u \in Budget!Units(f) : k[u] \in Budget!Units(g)
  BY <1>1 DEF Budget!Units
<1>3. k \in Injection(Budget!Units(f), Budget!Units(g))
  BY <1>1, <1>2 DEF Injection, IsInjective
<1>4. IsFiniteSet(Budget!Units(g))
  BY UnitsFinite
<1> HIDE DEF k
<1> QED BY <1>3, <1>4, FS_Injection, TotalIs

LEMMA TotalWithout ==
    ASSUME NEW S, IsFiniteSet(S), NEW f \in [S -> Nat], NEW x \in S
    PROVE  Budget!Total(f) = Budget!Total([y \in S \ {x} |-> f[y]]) + f[x]
<1> DEFINE g == [y \in S \ {x} |-> f[y]]
           U == {x} \X (1..f[x])
<1>1. IsFiniteSet(S \ {x}) /\ g \in [S \ {x} -> Nat]
  BY FS_RemoveElement
<1>2. IsFiniteSet(Budget!Units(g)) /\ Budget!Total(g) \in Nat
  BY <1>1, UnitsFinite
<1>3. IsFiniteSet(U) /\ Cardinality(U) = f[x]
  <2>1. IsFiniteSet(1..f[x]) /\ Cardinality(1..f[x]) = f[x]
    BY FS_Interval
  <2>2. IsFiniteSet({x}) /\ Cardinality({x}) = 1
    BY FS_Singleton
  <2>3. IsFiniteSet(U) /\ Cardinality(U) = Cardinality({x}) * Cardinality(1..f[x])
    BY <2>1, <2>2, FS_Product
  <2> HIDE DEF U
  <2> QED BY <2>1, <2>2, <2>3
<1>4. Budget!Units(f) = Budget!Units(g) \cup U
  BY DEF Budget!Units
<1>5. Budget!Units(g) \cap U = {}
  BY DEF Budget!Units
<1> HIDE DEF g, U
<1>6. Cardinality(Budget!Units(f)) = Cardinality(Budget!Units(g)) + Cardinality(U) - 0
  BY <1>2, <1>3, <1>4, <1>5, FS_Union, FS_EmptySet
<1> QED BY <1>2, <1>3, <1>6, TotalIs DEF g

-----------------------------------------------------------------------------
\* What a set of reservations, or of bills, costs.
LEMMA CostFinite ==
    ASSUME NEW S, IsFiniteSet(S), \A x \in S : x.cost \in Nat
    PROVE  Budget!Cost(S) \in Nat
BY UnitsFinite DEF Budget!Cost

LEMMA CostAtMost ==
    ASSUME NEW S, NEW T, IsFiniteSet(T), NEW h \in [S -> T],
           \A x \in S : x.cost \in Nat, \A x \in T : x.cost \in Nat,
           \A x, y \in S : h[x] = h[y] => x = y, \A x \in S : x.cost <= h[x].cost
    PROVE  Budget!Cost(S) <= Budget!Cost(T)
<1> DEFINE f == [x \in S |-> x.cost]
           g == [x \in T |-> x.cost]
<1>1. f \in [S -> Nat] /\ g \in [T -> Nat] /\ \A x \in S : f[x] <= g[h[x]]
  OBVIOUS
<1> HIDE DEF f, g
<1>2. Budget!Total(f) <= Budget!Total(g)
  BY <1>1, TotalAtMost
<1> QED BY <1>2 DEF Budget!Cost, f, g

LEMMA CostOfPart ==
    ASSUME NEW T, IsFiniteSet(T), \A x \in T : x.cost \in Nat, NEW S \in SUBSET T
    PROVE  Budget!Cost(S) <= Budget!Cost(T)
<1> DEFINE h == [x \in S |-> x]
<1>1. h \in [S -> T] /\ \A x \in S : h[x] = x
  OBVIOUS
<1> HIDE DEF h
<1> QED BY <1>1, CostAtMost

LEMMA CostWithout ==
    ASSUME NEW S, IsFiniteSet(S), \A x \in S : x.cost \in Nat, NEW y \in S
    PROVE  Budget!Cost(S) = Budget!Cost(S \ {y}) + y.cost
<1> DEFINE f == [x \in S |-> x.cost]
<1>1. f \in [S -> Nat] /\ f[y] = y.cost
  OBVIOUS
<1>2. [x \in S \ {y} |-> f[x]] = [x \in S \ {y} |-> x.cost]
  OBVIOUS
<1> HIDE DEF f
<1>3. Budget!Total(f) = Budget!Total([x \in S \ {y} |-> f[x]]) + f[y]
  BY <1>1, TotalWithout
<1> QED BY <1>1, <1>2, <1>3 DEF Budget!Cost, f

LEMMA CostWith ==
    ASSUME NEW S, IsFiniteSet(S), \A x \in S : x.cost \in Nat, NEW y, y.cost \in Nat
    PROVE  Budget!Cost(S \cup {y}) <= Budget!Cost(S) + y.cost
<1> DEFINE T == S \cup {y}
<1>1. IsFiniteSet(T) /\ (\A x \in T : x.cost \in Nat) /\ y \in T
  BY FS_AddElement
<1>2. T \ {y} \in SUBSET S
  OBVIOUS
<1> HIDE DEF T
<1>3. Budget!Cost(T) = Budget!Cost(T \ {y}) + y.cost
  BY <1>1, CostWithout
<1>4. Budget!Cost(T \ {y}) <= Budget!Cost(S)
  BY <1>2, CostOfPart
<1>5. Budget!Cost(S) \in Nat /\ Budget!Cost(T \ {y}) \in Nat
  BY <1>1, FS_RemoveElement, CostFinite
<1> QED BY <1>3, <1>4, <1>5 DEF T

LEMMA CostOfBoth ==
    ASSUME NEW S, NEW T, IsFiniteSet(S), IsFiniteSet(T),
           \A x \in S : x.cost \in Nat, \A x \in T : x.cost \in Nat
    PROVE  Budget!Cost(S \cup T) <= Budget!Cost(S) + Budget!Cost(T)
<1> DEFINE f == [x \in S |-> x.cost]
           g == [x \in T |-> x.cost]
           h == [x \in S \cup T |-> x.cost]
<1>1. f \in [S -> Nat] /\ g \in [T -> Nat]
  OBVIOUS
<1>2. Budget!Units(h) = Budget!Units(f) \cup Budget!Units(g)
  BY DEF Budget!Units
<1> HIDE DEF f, g, h
<1>3. IsFiniteSet(Budget!Units(f)) /\ IsFiniteSet(Budget!Units(g))
  BY <1>1, UnitsFinite
<1>4. Cardinality(Budget!Units(h)) =
        Cardinality(Budget!Units(f)) + Cardinality(Budget!Units(g))
          - Cardinality(Budget!Units(f) \cap Budget!Units(g))
  BY <1>2, <1>3, FS_Union
<1>5. Budget!Units(f) \cap Budget!Units(g) \in SUBSET Budget!Units(f)
  OBVIOUS
<1>6. /\ Cardinality(Budget!Units(f)) \in Nat /\ Cardinality(Budget!Units(g)) \in Nat
      /\ Cardinality(Budget!Units(f) \cap Budget!Units(g)) \in Nat
  BY <1>3, <1>5, FS_Subset, FS_CardinalityType
<1>7. Budget!Total(h) <= Budget!Total(f) + Budget!Total(g)
  BY <1>4, <1>6, TotalIs
<1> QED BY <1>7 DEF Budget!Cost, f, g, h

\* What was spent.
LEMMA SpentOfEmpty ==
    ASSUME IsFiniteSet(Runs), NEW d
    PROVE  Budget!Spent(Budget!EmptyLedger(d)) = 0
<1>1. Budget!Units([r \in Runs |-> 0]) = {}
  BY DEF Budget!Units
<1> QED BY <1>1, FS_EmptySet, TotalIs DEF Budget!Spent, Budget!EmptyLedger

LEMMA SpentIsNat ==
    ASSUME BudgetAssumption, NEW l \in Ledgers
    PROVE  Budget!Spent(l) \in Nat
BY UnitsFinite DEF Budget!Spent, Ledgers, BudgetAssumption

LEMMA SpentMore ==
    ASSUME IsFiniteSet(Runs), NEW f \in [Runs -> Nat], NEW r \in Runs, NEW c \in Nat,
           NEW g \in [Runs -> Nat], g[r] = f[r] + c, \A s \in Runs \ {r} : g[s] = f[s]
    PROVE  Budget!Total(g) = Budget!Total(f) + c /\ Budget!Total(f) \in Nat
<1>1. /\ Budget!Total(f) = Budget!Total([s \in Runs \ {r} |-> f[s]]) + f[r]
      /\ Budget!Total(g) = Budget!Total([s \in Runs \ {r} |-> g[s]]) + g[r]
  BY TotalWithout
<1>2. [s \in Runs \ {r} |-> f[s]] = [s \in Runs \ {r} |-> g[s]]
  OBVIOUS
<1>3. Budget!Total([s \in Runs \ {r} |-> f[s]]) \in Nat
  BY FS_RemoveElement, UnitsFinite
<1> QED BY <1>1, <1>2, <1>3

-----------------------------------------------------------------------------
\* The ledger that is read.
LEMMA CurrentIsGood ==
    ASSUME BudgetAssumption, BudgetInv
    PROVE  /\ Budget!Current \in Ledgers /\ Budget!Current.day = day /\ Good(Budget!Current)
           /\ day = 1 => Budget!Current = ledger
<1>1. CASE ledger.day = day
  BY <1>1 DEF BudgetInv, BudgetTyped, LedgersAreGood, ReadIsCurrent, Budget!Current
<1>2. CASE ledger.day # day
  <2> DEFINE e == Budget!EmptyLedger(day)
  <2>1. e \in Ledgers /\ e.day = day /\ e.reserved = {} /\ e.spent = [r \in Runs |-> 0]
    BY DEF BudgetInv, BudgetTyped, Budget!EmptyLedger, Ledgers
  <2>2. Budget!Spent(e) = 0
    BY SpentOfEmpty DEF BudgetAssumption
  <2> HIDE DEF e
  <2>3. Budget!Cost({}) = 0
    BY TotalOfEmpty DEF Budget!Cost
  <2>4. Sound(e)
    <3>1. ASSUME NEW run \in Runs
          PROVE  e.spent[run] + Budget!Cost({x \in e.reserved : x.run = run}) <= PerRun
      <4>1. {x \in e.reserved : x.run = run} = {} /\ e.spent[run] = 0
        BY <2>1
      <4> QED BY <4>1, <2>3 DEF BudgetAssumption
    <3> QED BY <2>1, <2>2, <2>3, <3>1, FS_EmptySet DEF Sound, BudgetAssumption
  <2>5. Good(e)
    BY <2>1, <2>4 DEF Good, Tells
  <2> QED BY <1>2, <2>1, <2>5 DEF Budget!Current, e, BudgetInv, ReadIsCurrent
<1> QED BY <1>1, <1>2

\* No more is over than was, and no less is spent.
LEMMA OverStays ==
    ASSUME BudgetAssumption, BudgetInv, day' = 1 => day = 1, crashes' = 0 => crashes = 0,
           ledger' \in Ledgers, day = 1 => ledger'.spent = ledger.spent,
           {b \in billed : Budget!Is(b.id, "over")}'
             \subseteq {b \in billed : Budget!Is(b.id, "over")}
    PROVE  OverIsSpent'
<1> DEFINE over == {b \in billed : Budget!Is(b.id, "over")}
<1>1. IsFiniteSet(over) /\ \A b \in over : b.cost \in Nat
  BY FS_Subset DEF BudgetInv, BudgetTyped
<1>2. over' \in SUBSET over
  OBVIOUS
<1> HIDE DEF over
<1>3. IsFiniteSet(over') /\ Budget!Cost(over') <= Budget!Cost(over) /\
      Budget!Cost(over) \in Nat /\ Budget!Cost(over') \in Nat
  BY <1>1, <1>2, FS_Subset, CostOfPart, CostFinite
<1>4. Budget!Spent(ledger) \in Nat /\ Budget!Spent(ledger') \in Nat
  BY SpentIsNat DEF BudgetInv, BudgetTyped
<1>5. day = 1 /\ crashes = 0 => Budget!Cost(over) <= Budget!Spent(ledger)
  BY DEF over, BudgetInv, OverIsSpent
<1>6. day' = 1 /\ crashes' = 0 => Budget!Cost(over') <= Budget!Spent(ledger')
  BY <1>3, <1>4, <1>5 DEF Budget!Spent
<1>7. Budget!Spent(ledger)' = Budget!Spent(ledger')
  BY DEF Budget!Spent
<1> QED BY <1>6, <1>7 DEF OverIsSpent, over

\* A ledger tells the truth so long as its requests keep their runs and costs.
LEMMA TellsStays ==
    ASSUME NEW rs, NEW l \in Ledgers, Tells(l, requests),
           \A p \in Requests : ~Budget!Is(p, "idle") =>
               rs[p].phase # "idle" /\ rs[p].run = requests[p].run /\
                 rs[p].cost = requests[p].cost
    PROVE  Tells(l, rs)
BY DEF Tells, Ledgers, Reservations, Budget!Is

\* A step of a request that leaves the file and the provider alone.
LEMMA MoveKeeps ==
    ASSUME BudgetAssumption, BudgetInv, NEW q \in Requests,
           UNCHANGED <<clock, day, ledger, billed, crashes>>,
           requests' \in [Requests -> RequestType],
           \A p \in Requests \ {q} : requests'[p] = requests[p],
           ~Budget!Is(q, "idle")',
           IF Budget!Is(q, "idle") THEN requests'[q].charge = 0 /\ requests'[q].run \in Runs
           ELSE /\ requests'[q].run = requests[q].run
                /\ requests'[q].cost = requests[q].cost
                /\ requests'[q].charge = requests[q].charge,
           OneWriter', HasLock(q)' => requests'[q].seen = Budget!Current,
           day = 1 /\ Active(q)' => Active(q),
           \A b \in billed : b.id = q =>
               requests'[q].phase \in {"sent", "settle", "settling", "lost"}
    PROVE  BudgetInv'
<1>1. BudgetTyped'
  BY DEF BudgetInv, BudgetTyped
<1>2. ASSUME NEW l \in Ledgers, Tells(l, requests)
      PROVE  Tells(l, requests')
  BY <1>2 DEF Tells, Ledgers, Reservations, Budget!Is
<1>3. LedgersAreGood'
  <2>1. Good(ledger)'
    BY <1>2 DEF BudgetInv, BudgetTyped, LedgersAreGood, Good
  <2>2. ASSUME NEW p \in Requests, HasLock(p)'
        PROVE  Good(requests[p].seen)' /\ (requests[p].seen.day \in 1..2)'
    <3>1. requests'[p].seen \in Ledgers /\ Good(requests'[p].seen) /\
          requests'[p].seen.day \in 1..2
      BY <2>2, CurrentIsGood DEF BudgetInv, BudgetTyped, LedgersAreGood, HasLock, Budget!Is,
         RequestType
    <3> QED BY <1>2, <3>1 DEF Good
  <2> QED BY <2>1, <2>2 DEF LedgersAreGood
<1>4. ReadIsCurrent'
  BY CurrentIsGood DEF BudgetInv, ReadIsCurrent, HasLock, Budget!Is
<1>5. ActiveIsHeld'
  BY DEF BudgetInv, ActiveIsHeld, Active
<1>6. BilledOnce'
  BY DEF BudgetInv, BudgetTyped, BilledOnce, Budget!Is
<1>7. RequestsAreWhole'
  BY DEF BudgetInv, BudgetTyped, RequestsAreWhole, RequestType, Budget!Is
<1>8. OverIsSpent'
  <2>1. {b \in billed : Budget!Is(b.id, "over")}'
          \subseteq {b \in billed : Budget!Is(b.id, "over")}
    BY DEF Budget!Is, BudgetInv, BudgetTyped
  <2> QED BY <2>1, OverStays DEF BudgetInv, BudgetTyped
<1> QED BY <1>1, <1>3, <1>4, <1>5, <1>6, <1>7, <1>8 DEF BudgetInv

LEMMA RequestBecomes ==
    ASSUME BudgetInv, NEW q \in Requests, NEW w \in RequestType,
           requests' = [requests EXCEPT ![q] = w]
    PROVE  /\ requests' \in [Requests -> RequestType] /\ requests'[q] = w
           /\ \A p \in Requests \ {q} : requests'[p] = requests[p]
BY DEF BudgetInv, BudgetTyped

LEMMA NoRequestTyped ==
    /\ Budget!NoRequest \in RequestType /\ Budget!NoRequest.phase = "idle"
    /\ Budget!NoRequest.charge = 0 /\ Budget!NoRequest.cost = 0
<1>1. Budget!EmptyLedger(0) \in Ledgers
  BY DEF Budget!EmptyLedger, Ledgers
<1> QED BY <1>1 DEF Budget!NoRequest, RequestType, Phases

LEMMA ReserveKeeps ==
    ASSUME BudgetAssumption, BudgetInv, NEW q \in Requests, NEW run \in Runs, NEW cost \in Costs,
           Budget!Reserve(q, run, cost)
    PROVE  BudgetInv'
<1> DEFINE w == [Budget!NoRequest EXCEPT !.phase = "reserving", !.run = run, !.cost = cost,
                                  !.seen = Budget!Current]
<1>1. /\ w \in RequestType /\ w.phase = "reserving" /\ w.charge = 0 /\ w.seen = Budget!Current
      /\ w.run = run
  <2>1. Budget!Current \in Ledgers
    BY CurrentIsGood
  <2>2. Budget!NoRequest \in RequestType /\ Budget!NoRequest.charge = 0
    BY NoRequestTyped
  <2> QED BY <2>1, <2>2 DEF RequestType, Phases, BudgetAssumption
<1>2. requests' = [requests EXCEPT ![q] = w]
  BY DEF Budget!Reserve
<1> HIDE DEF w
<1>3. /\ requests' \in [Requests -> RequestType] /\ requests'[q] = w
      /\ \A p \in Requests \ {q} : requests'[p] = requests[p]
  BY <1>1, <1>2, RequestBecomes
<1>4. Budget!Is(q, "idle") /\ lock = Budget!Free /\ lock' = q
  BY DEF Budget!Reserve, Budget!Takes
<1>5. OneWriter'
  BY <1>1, <1>3, <1>4 DEF BudgetInv, OneWriter, HasLock, Budget!Is, BudgetAssumption
<1>6. \A b \in billed : b.id # q
  BY <1>4 DEF BudgetInv, BilledOnce, Budget!Is
<1> QED BY <1>1, <1>3, <1>4, <1>5, <1>6, MoveKeeps DEF Budget!Reserve, Budget!Is, Active

LEMMA AnswerKeeps ==
    ASSUME BudgetAssumption, BudgetInv, NEW q \in Requests, NEW readable \in BOOLEAN,
           Budget!Answer(q, readable)
    PROVE  BudgetInv'
<1> DEFINE n == IF readable THEN 2 ELSE 1
<1>0. n \in Int
  OBVIOUS
<1> HIDE DEF n
<1> DEFINE w == [requests[q] EXCEPT !.phase = "settle", !.tries = n]
<1>1. /\ w \in RequestType /\ w.phase = "settle" /\ w.charge = requests[q].charge
      /\ w.run = requests[q].run /\ w.cost = requests[q].cost
  BY <1>0 DEF BudgetInv, BudgetTyped, RequestType, Phases
<1>2. requests' = [requests EXCEPT ![q] = w]
  BY DEF Budget!Answer, n
<1> HIDE DEF w
<1>3. /\ requests' \in [Requests -> RequestType] /\ requests'[q] = w
      /\ \A p \in Requests \ {q} : requests'[p] = requests[p]
  BY <1>1, <1>2, RequestBecomes
<1>4. OneWriter'
  BY <1>1, <1>3 DEF BudgetInv, OneWriter, HasLock, Budget!Is, Budget!Answer
<1> QED BY <1>1, <1>3, <1>4, MoveKeeps DEF Budget!Answer, Budget!Is, Active, HasLock

LEMMA SettleKeeps ==
    ASSUME BudgetAssumption, BudgetInv, NEW q \in Requests, Budget!Settle(q)
    PROVE  BudgetInv'
<1> DEFINE w == [requests[q] EXCEPT !.phase = "settling", !.seen = Budget!Current]
<1>1. /\ w \in RequestType /\ w.phase = "settling" /\ w.charge = requests[q].charge
      /\ w.run = requests[q].run /\ w.cost = requests[q].cost /\ w.seen = Budget!Current
  <2>1. Budget!Current \in Ledgers
    BY CurrentIsGood
  <2> QED BY <2>1 DEF BudgetInv, BudgetTyped, RequestType, Phases
<1>2. requests' = [requests EXCEPT ![q] = w]
  BY DEF Budget!Settle
<1> HIDE DEF w
<1>3. /\ requests' \in [Requests -> RequestType] /\ requests'[q] = w
      /\ \A p \in Requests \ {q} : requests'[p] = requests[p]
  BY <1>1, <1>2, RequestBecomes
<1>4. lock = Budget!Free /\ lock' = q
  BY DEF Budget!Settle, Budget!Takes
<1>5. OneWriter'
  BY <1>1, <1>3, <1>4 DEF BudgetInv, OneWriter, HasLock, Budget!Is, BudgetAssumption
<1> QED BY <1>1, <1>3, <1>5, MoveKeeps DEF Budget!Settle, Budget!Is, Active, HasLock

\* What a settlement that failed leaves of a request.
LEMMA FailsTo ==
    ASSUME BudgetAssumption, BudgetInv, NEW q \in Requests, Budget!FailsToSettle(q)
    PROVE  /\ requests' \in [Requests -> RequestType]
           /\ requests'[q].phase \in {"lost", "settle"} /\
                requests'[q].charge = requests[q].charge
           /\ requests'[q].run = requests[q].run /\ requests'[q].cost = requests[q].cost
           /\ \A p \in Requests \ {q} : requests'[p] = requests[p]
<1> DEFINE n == requests[q].tries - 1
           to == IF requests[q].tries = 1 THEN "lost" ELSE "settle"
<1>0. n \in Int /\ to \in {"lost", "settle"}
  BY DEF BudgetInv, BudgetTyped, RequestType
<1> HIDE DEF n, to
<1> DEFINE w == [requests[q] EXCEPT !.tries = n, !.phase = to]
<1>1. /\ w \in RequestType /\ w.phase \in {"lost", "settle"} /\ w.charge = requests[q].charge
      /\ w.run = requests[q].run /\ w.cost = requests[q].cost
  BY <1>0 DEF BudgetInv, BudgetTyped, RequestType, Phases
<1>2. requests' = [requests EXCEPT ![q] = w]
  BY DEF Budget!FailsToSettle, n, to
<1> HIDE DEF w
<1> QED BY <1>1, <1>2, RequestBecomes

LEMMA SettleLockedKeeps ==
    ASSUME BudgetAssumption, BudgetInv, NEW q \in Requests, Budget!SettleLocked(q)
    PROVE  BudgetInv'
<1>1. /\ requests' \in [Requests -> RequestType]
      /\ requests'[q].phase \in {"lost", "settle"} /\ requests'[q].charge = requests[q].charge
      /\ requests'[q].run = requests[q].run /\ requests'[q].cost = requests[q].cost
      /\ \A p \in Requests \ {q} : requests'[p] = requests[p]
  BY FailsTo DEF Budget!SettleLocked
<1>2. OneWriter'
  BY <1>1 DEF BudgetInv, OneWriter, HasLock, Budget!Is, Budget!SettleLocked
<1> QED BY <1>1, <1>2, MoveKeeps DEF Budget!SettleLocked, Budget!Is, Active, HasLock

LEMMA SendKeeps ==
    ASSUME BudgetAssumption, BudgetInv, NEW q \in Requests, NEW charge \in Costs,
           Budget!Send(q, charge)
    PROVE  BudgetInv'
<1> DEFINE w == [requests[q] EXCEPT !.phase = "sent", !.charge = charge]
           bill == [id |-> q, cost |-> charge, day |-> day]
<1>1. /\ w \in RequestType /\ w.phase = "sent" /\ w.charge = charge
      /\ w.run = requests[q].run /\ w.cost = requests[q].cost
  BY DEF BudgetInv, BudgetTyped, RequestType, Phases, BudgetAssumption
<1>2. requests' = [requests EXCEPT ![q] = w]
  BY DEF Budget!Send
<1>3. /\ billed' = billed \cup {bill} /\ bill \in [id : Requests, cost : Nat, day : 1..2]
      /\ bill.id = q /\ bill.cost = charge
  BY DEF Budget!Send, BudgetInv, BudgetTyped, BudgetAssumption
<1> HIDE DEF w, bill
<1>4. /\ requests' \in [Requests -> RequestType] /\ requests'[q] = w
      /\ \A p \in Requests \ {q} : requests'[p] = requests[p]
  BY <1>1, <1>2, RequestBecomes
<1>5. charge <= requests[q].cost /\ Budget!Is(q, "ready")
  BY DEF Budget!Send
<1>6. BudgetTyped'
  BY <1>3, <1>4, FS_AddElement DEF BudgetInv, BudgetTyped, Budget!Send
<1>7. OneWriter'
  BY <1>1, <1>4, <1>5 DEF BudgetInv, OneWriter, HasLock, Budget!Is, Budget!Send
<1>8. ASSUME NEW l \in Ledgers, Tells(l, requests)
      PROVE  Tells(l, requests')
  BY <1>8, <1>1, <1>4, TellsStays DEF Budget!Is
<1>9. LedgersAreGood'
  <2>1. Good(ledger)'
    BY <1>8 DEF BudgetInv, BudgetTyped, LedgersAreGood, Good, Budget!Send
  <2>2. ASSUME NEW p \in Requests, HasLock(p)'
        PROVE  Good(requests[p].seen)' /\ (requests[p].seen.day \in 1..2)'
    <3>1. requests'[p] = requests[p] /\ HasLock(p)
      BY <2>2, <1>1, <1>4 DEF HasLock, Budget!Is
    <3>2. requests'[p].seen \in Ledgers /\ Good(requests'[p].seen) /\
          requests'[p].seen.day \in 1..2
      BY <3>1 DEF BudgetInv, BudgetTyped, LedgersAreGood, RequestType
    <3> QED BY <1>8, <3>2 DEF Good
  <2> QED BY <2>1, <2>2 DEF LedgersAreGood
<1>10. ReadIsCurrent'
  BY <1>1, <1>4 DEF BudgetInv, ReadIsCurrent, HasLock, Budget!Is, Budget!Send
<1>11. ActiveIsHeld'
  BY <1>4, <1>5 DEF BudgetInv, ActiveIsHeld, Active, Budget!Send, Budget!Is
<1>12. BilledOnce'
  <2>1. \A b \in billed : b.id # q /\ b.id \in Requests
    BY <1>5 DEF BudgetInv, BudgetTyped, BilledOnce, Budget!Is
  <2> QED BY <1>1, <1>3, <1>4, <1>5, <2>1 DEF BudgetInv, BilledOnce
<1>13. RequestsAreWhole'
  BY <1>1, <1>4, <1>5 DEF BudgetInv, RequestsAreWhole, Budget!Is
<1>14. OverIsSpent'
  <2>1. {b \in billed : Budget!Is(b.id, "over")}' \subseteq {b \in billed : Budget!Is(b.id, "over")}
    BY <1>1, <1>3, <1>4 DEF Budget!Is, BudgetInv, BudgetTyped
  <2> QED BY <2>1, OverStays DEF BudgetInv, BudgetTyped, Budget!Send
<1> QED BY <1>6, <1>7, <1>9, <1>10, <1>11, <1>12, <1>13, <1>14 DEF BudgetInv

LEMMA CrashKeeps ==
    ASSUME BudgetAssumption, BudgetInv, Budget!Crash
    PROVE  BudgetInv'
<1>1. ASSUME NEW q \in Requests
      PROVE  /\ requests'[q] \in RequestType
             /\ requests'[q].run = requests[q].run /\ requests'[q].cost = requests[q].cost
             /\ requests'[q].charge = requests[q].charge
             /\ IF Budget!Is(q, "idle") THEN requests'[q].phase = "idle"
                ELSE requests'[q].phase = "over"
  <2> DEFINE w == [requests[q] EXCEPT !.phase = "over"]
  <2>1. /\ w \in RequestType /\ w.phase = "over" /\ w.charge = requests[q].charge
        /\ w.run = requests[q].run /\ w.cost = requests[q].cost
    BY DEF BudgetInv, BudgetTyped, RequestType, Phases
  <2>2. requests'[q] = IF Budget!Is(q, "idle") THEN requests[q] ELSE w
    BY DEF Budget!Crash
  <2> HIDE DEF w
  <2> QED BY <2>1, <2>2 DEF BudgetInv, BudgetTyped, Budget!Is
<1>2. requests' \in [Requests -> RequestType]
  <2>1. requests' = [q \in Requests |-> requests'[q]]
    BY DEF Budget!Crash
  <2> QED BY <1>1, <2>1
<1>3. BudgetTyped'
  BY <1>2 DEF BudgetInv, BudgetTyped, Budget!Crash
<1>4. \A q \in Requests : ~HasLock(q)' /\ ~Active(q)'
  BY <1>1 DEF HasLock, Active, Budget!Is
<1>5. OneWriter'
  BY <1>4 DEF OneWriter, Budget!Crash, BudgetAssumption
<1>6. Good(ledger)'
  <2>1. Tells(ledger, requests')
    BY <1>1, TellsStays DEF BudgetInv, BudgetTyped, LedgersAreGood, Good, Budget!Is
  <2> QED BY <2>1 DEF BudgetInv, LedgersAreGood, Good, Budget!Crash
<1>7. LedgersAreGood' /\ ReadIsCurrent' /\ ActiveIsHeld'
  BY <1>4, <1>6 DEF BudgetInv, LedgersAreGood, ReadIsCurrent, ActiveIsHeld, Budget!Crash
<1>8. BilledOnce' /\ RequestsAreWhole'
  BY <1>1 DEF BudgetInv, BudgetTyped, BilledOnce, RequestsAreWhole, Budget!Crash, Budget!Is
<1>9. OverIsSpent'
  BY DEF OverIsSpent, Budget!Crash, BudgetInv, BudgetTyped
<1> QED BY <1>3, <1>5, <1>7, <1>8, <1>9 DEF BudgetInv

LEMMA TimeKeeps ==
    ASSUME BudgetAssumption, BudgetInv, Budget!Tick \/ Budget!NextDay
    PROVE  BudgetInv'
<1>1. /\ UNCHANGED <<ledger, lock, requests, billed, crashes>>
      /\ day' \in 1..2 /\ clock' \in Nat /\ (day' = 1 => day = 1)
      /\ clock' # clock => \A q \in Requests : ~Active(q)
  BY DEF Budget!Tick, Budget!NextDay, BudgetInv, BudgetTyped, Active
<1>2. BudgetTyped' /\ OneWriter' /\ LedgersAreGood' /\ ReadIsCurrent' /\ BilledOnce' /\
      RequestsAreWhole'
  BY <1>1 DEF BudgetInv, BudgetTyped, OneWriter, LedgersAreGood, ReadIsCurrent, BilledOnce,
     RequestsAreWhole,
     HasLock, Budget!Is, Good
<1>3. ActiveIsHeld'
  BY <1>1 DEF BudgetInv, ActiveIsHeld, Active
<1>4. OverIsSpent'
  BY <1>1 DEF BudgetInv, OverIsSpent, Budget!Is
<1> QED BY <1>2, <1>3, <1>4 DEF BudgetInv

LEMMA BudgetBegins ==
    ASSUME BudgetAssumption, Budget!Init
    PROVE  BudgetInv
<1>1. /\ clock = 0 /\ day = 1 /\ crashes = 0 /\ billed = {} /\ lock = Budget!Free
      /\ \A q \in Requests : requests[q] = Budget!NoRequest
      /\ requests \in [Requests -> RequestType]
  BY NoRequestTyped DEF Budget!Init
<1>2. /\ ledger \in Ledgers /\ ledger.day = 1 /\ ledger.reserved = {}
      /\ \A run \in Runs : ledger.spent[run] = 0
  BY DEF Budget!Init, Budget!EmptyLedger, Ledgers
<1>3. Budget!Spent(ledger) = 0 /\ Budget!Cost({}) = 0
  BY SpentOfEmpty, TotalOfEmpty DEF Budget!Init, BudgetAssumption, Budget!Cost
<1>4. \A q \in Requests : ~HasLock(q) /\ ~Active(q)
  BY <1>1, NoRequestTyped DEF HasLock, Active, Budget!Is
<1>5. BudgetTyped
  BY <1>1, <1>2, FS_EmptySet DEF BudgetTyped
<1>6. OneWriter
  BY <1>1, <1>4 DEF OneWriter, BudgetAssumption
<1>7. Good(ledger)
  <2>1. ASSUME NEW run \in Runs
        PROVE  ledger.spent[run] + Budget!Cost({x \in ledger.reserved : x.run = run}) <= PerRun
    <3>1. {x \in ledger.reserved : x.run = run} = {}
      BY <1>2
    <3> QED BY <3>1, <1>2, <1>3 DEF BudgetAssumption
  <2> QED BY <1>2, <1>3, <2>1, FS_EmptySet DEF Good, Sound, Tells, BudgetAssumption
<1>8. LedgersAreGood /\ ReadIsCurrent /\ ActiveIsHeld /\ BilledOnce
  BY <1>1, <1>2, <1>4, <1>7 DEF LedgersAreGood, ReadIsCurrent, ActiveIsHeld, BilledOnce
<1>9. RequestsAreWhole
  BY <1>1, NoRequestTyped DEF RequestsAreWhole, Budget!Is
<1>10. OverIsSpent
  <2>1. {b \in billed : Budget!Is(b.id, "over")} = {}
    BY <1>1
  <2> QED BY <2>1, <1>3 DEF OverIsSpent
<1> QED BY <1>5, <1>6, <1>8, <1>9, <1>10 DEF BudgetInv

-----------------------------------------------------------------------------
\* A ledger that is less one reservation or more is as sound; one that has a
\* reservation more is when it is within the limits; one that is settled is.
LEMMA PartIsSound ==
    ASSUME BudgetAssumption, NEW l \in Ledgers, Sound(l),
           NEW k \in Ledgers, k.spent = l.spent, k.reserved \subseteq l.reserved
    PROVE  Sound(k)
<1>1. IsFiniteSet(l.reserved) /\ \A x \in l.reserved : x.cost \in Nat
  BY DEF Sound, Ledgers, Reservations
<1>2. IsFiniteSet(k.reserved)
  BY <1>1, FS_Subset
<1>3. Budget!Cost(k.reserved) <= Budget!Cost(l.reserved) /\ Budget!Cost(k.reserved) \in Nat /\
      Budget!Cost(l.reserved) \in Nat
  BY <1>1, <1>2, CostOfPart, CostFinite
<1>4. Budget!Spent(k) = Budget!Spent(l) /\ Budget!Spent(l) \in Nat
  BY SpentIsNat DEF Budget!Spent
<1>5. ASSUME NEW run \in Runs
      PROVE  k.spent[run] + Budget!Cost({x \in k.reserved : x.run = run}) <= PerRun
  <2> DEFINE A == {x \in k.reserved : x.run = run}
             B == {x \in l.reserved : x.run = run}
  <2>1. A \in SUBSET B /\ A \in SUBSET k.reserved /\ B \in SUBSET l.reserved
    OBVIOUS
  <2>2. l.spent[run] \in Nat /\ k.spent[run] = l.spent[run] /\
        l.spent[run] + Budget!Cost(B) <= PerRun
    BY DEF Ledgers, Sound
  <2> HIDE DEF A, B
  <2>3. IsFiniteSet(B) /\ (\A x \in B : x.cost \in Nat)
    BY <1>1, <2>1, FS_Subset
  <2>4. IsFiniteSet(A) /\ (\A x \in A : x.cost \in Nat)
    BY <2>1, <2>3, FS_Subset
  <2>5. Budget!Cost(A) <= Budget!Cost(B) /\ Budget!Cost(A) \in Nat /\ Budget!Cost(B) \in Nat
    BY <2>1, <2>3, <2>4, CostOfPart, CostFinite
  <2>6. k.spent[run] + Budget!Cost(A) <= PerRun
    BY <2>2, <2>5 DEF BudgetAssumption
  <2> QED BY <2>6 DEF A
<1>6. Budget!Spent(l) + Budget!Cost(l.reserved) <= PerDay
  BY DEF Sound
<1> QED BY <1>2, <1>3, <1>4, <1>5, <1>6 DEF Sound, BudgetAssumption

LEMMA WithIsSound ==
    ASSUME BudgetAssumption, NEW k \in Ledgers, Sound(k), NEW y \in Reservations,
           Budget!Within(k, y.run, y.cost),
           NEW l \in Ledgers, l.spent = k.spent, l.reserved = k.reserved \cup {y}
    PROVE  Sound(l)
<1>1. IsFiniteSet(k.reserved) /\ (\A x \in k.reserved : x.cost \in Nat) /\ y.cost \in Nat
  BY DEF Sound, Ledgers, Reservations
<1>2. IsFiniteSet(l.reserved) /\ (\A x \in l.reserved : x.cost \in Nat)
  BY <1>1, FS_AddElement
<1>3. /\ Budget!Cost(l.reserved) <= Budget!Cost(k.reserved) + y.cost
      /\ Budget!Cost(k.reserved) \in Nat /\ Budget!Cost(l.reserved) \in Nat
  BY <1>1, <1>2, CostWith, CostFinite
<1>4. Budget!Spent(l) = Budget!Spent(k) /\ Budget!Spent(k) \in Nat
  BY SpentIsNat DEF Budget!Spent
<1>5. Budget!Spent(k) + Budget!Cost(k.reserved) + y.cost <= PerDay
  BY DEF Budget!Within
<1>6. ASSUME NEW run \in Runs
      PROVE  l.spent[run] + Budget!Cost({x \in l.reserved : x.run = run}) <= PerRun
  <2> DEFINE A == {x \in l.reserved : x.run = run}
             B == {x \in k.reserved : x.run = run}
  <2>1. l.spent[run] = k.spent[run] /\ k.spent[run] \in Nat
    BY DEF Ledgers
  <2>2. k.spent[run] + Budget!Cost(B) <= PerRun
    BY DEF Sound
  <2>3. y.run = run => k.spent[run] + Budget!Cost(B) + y.cost <= PerRun
    BY DEF Budget!Within
  <2>4. A = IF y.run = run THEN B \cup {y} ELSE B
    OBVIOUS
  <2>5. B \in SUBSET k.reserved
    OBVIOUS
  <2> HIDE DEF A, B
  <2>6. IsFiniteSet(B) /\ (\A x \in B : x.cost \in Nat)
    BY <1>1, <2>5, FS_Subset
  <2>7. IsFiniteSet(B \cup {y}) /\ (\A x \in B \cup {y} : x.cost \in Nat)
    BY <1>1, <2>6, FS_AddElement
  <2>8. Budget!Cost(B \cup {y}) <= Budget!Cost(B) + y.cost /\ Budget!Cost(B) \in Nat /\
        Budget!Cost(B \cup {y}) \in Nat
    BY <1>1, <2>6, <2>7, CostWith, CostFinite
  <2>9. l.spent[run] + Budget!Cost(A) <= PerRun
    BY <1>1, <2>1, <2>2, <2>3, <2>4, <2>8 DEF BudgetAssumption
  <2> QED BY <2>9 DEF A
<1>7. Budget!Spent(l) + Budget!Cost(l.reserved) <= PerDay
  BY <1>1, <1>3, <1>4, <1>5 DEF BudgetAssumption
<1> QED BY <1>2, <1>6, <1>7 DEF Sound

LEMMA SettledIsSound ==
    ASSUME BudgetAssumption, NEW l \in Ledgers, Sound(l), NEW x \in l.reserved,
           NEW k \in Ledgers, k.reserved = l.reserved \ {x},
           k.spent[x.run] = l.spent[x.run] + x.cost,
           \A run \in Runs \ {x.run} : k.spent[run] = l.spent[run]
    PROVE  Sound(k) /\ Budget!Spent(k) = Budget!Spent(l) + x.cost
<1>1. /\ IsFiniteSet(l.reserved) /\ (\A y \in l.reserved : y.cost \in Nat)
      /\ x.cost \in Nat /\ x.run \in Runs
  BY DEF Sound, Ledgers, Reservations
<1>2. IsFiniteSet(k.reserved) /\ (\A y \in k.reserved : y.cost \in Nat)
  BY <1>1, FS_RemoveElement
<1>3. Budget!Cost(l.reserved) = Budget!Cost(k.reserved) + x.cost /\
      Budget!Cost(k.reserved) \in Nat
  BY <1>1, <1>2, CostWithout, CostFinite
<1>4. Budget!Spent(k) = Budget!Spent(l) + x.cost /\ Budget!Spent(l) \in Nat
  <2> DEFINE f == l.spent
             g == k.spent
             r == x.run
             c == x.cost
  <2>1. f \in [Runs -> Nat] /\ g \in [Runs -> Nat]
    BY DEF Ledgers
  <2>2. r \in Runs /\ c \in Nat /\ g[r] = f[r] + c /\ \A s \in Runs \ {r} : g[s] = f[s]
    BY <1>1
  <2>3. IsFiniteSet(Runs)
    BY DEF BudgetAssumption
  <2> HIDE DEF f, g, r, c
  <2>4. Budget!Total(g) = Budget!Total(f) + c /\ Budget!Total(f) \in Nat
    BY <2>1, <2>2, <2>3, SpentMore
  <2> QED BY <2>4 DEF Budget!Spent, f, g, c
<1>5. Budget!Spent(k) + Budget!Cost(k.reserved) <= PerDay
  BY <1>1, <1>3, <1>4 DEF Sound
<1>6. ASSUME NEW run \in Runs
      PROVE  k.spent[run] + Budget!Cost({y \in k.reserved : y.run = run}) <= PerRun
  <2> DEFINE A == {y \in k.reserved : y.run = run}
             B == {y \in l.reserved : y.run = run}
  <2>1. l.spent[run] \in Nat /\ k.spent[run] \in Nat
    BY DEF Ledgers
  <2>2. l.spent[run] + Budget!Cost(B) <= PerRun
    BY DEF Sound
  <2>3. A = IF x.run = run THEN B \ {x} ELSE B
    OBVIOUS
  <2>4. B \in SUBSET l.reserved /\ (x.run = run => x \in B)
    OBVIOUS
  <2> HIDE DEF A, B
  <2>5. IsFiniteSet(B) /\ (\A y \in B : y.cost \in Nat)
    BY <1>1, <2>4, FS_Subset
  <2>6. IsFiniteSet(B \ {x}) /\ (\A y \in B \ {x} : y.cost \in Nat)
    BY <2>5, FS_RemoveElement
  <2>7. Budget!Cost(B) \in Nat /\ Budget!Cost(B \ {x}) \in Nat
    BY <2>5, <2>6, CostFinite
  <2>8. x.run = run => Budget!Cost(B) = Budget!Cost(B \ {x}) + x.cost
    BY <2>4, <2>5, CostWithout
  <2>9. k.spent[run] + Budget!Cost(A) <= PerRun
    BY <1>1, <2>1, <2>2, <2>3, <2>7, <2>8
  <2> QED BY <2>9 DEF A
<1> QED BY <1>2, <1>4, <1>5, <1>6 DEF Sound

LEMMA ReservedKeeps ==
    ASSUME BudgetAssumption, BudgetInv, NEW q \in Requests, Budget!Reserved(q)
    PROVE  BudgetInv'
<1> DEFINE r == requests[q]
           s == r.seen
           kept == [s EXCEPT !.reserved = {x \in @ : ~Budget!Expired(x)}]
           y == [id |-> q, run |-> r.run, cost |-> r.cost, expires |-> clock + Ttl]
<1>1. /\ Budget!Is(q, "reserving") /\ lock = q /\ lock' = Budget!Free
      /\ r \in RequestType /\ s \in Ledgers /\ Good(s) /\ s.day \in 1..2
      /\ day = 1 => s = ledger
      /\ UNCHANGED <<clock, day, billed, crashes>>
  BY DEF Budget!Reserved, BudgetInv, BudgetTyped, OneWriter, HasLock, LedgersAreGood,
     ReadIsCurrent, RequestType
<1>2. \A b \in billed : b.id # q
  BY <1>1 DEF BudgetInv, BilledOnce, Budget!Is
<1>3. ASSUME NEW to \in {"ready", "over"}, requests' = [requests EXCEPT ![q].phase = to]
      PROVE  /\ requests' \in [Requests -> RequestType] /\ requests'[q].phase = to
             /\ requests'[q].run = r.run /\ requests'[q].cost = r.cost
             /\ requests'[q].charge = r.charge
             /\ \A p \in Requests \ {q} : requests'[p] = requests[p]
             /\ OneWriter'
  <2> DEFINE w == [requests[q] EXCEPT !.phase = to]
  <2>1. w \in RequestType /\ w.phase = to /\ w.run = r.run /\ w.cost = r.cost /\
        w.charge = r.charge
    BY DEF BudgetInv, BudgetTyped, RequestType, Phases
  <2>2. requests' = [requests EXCEPT ![q] = w]
    BY <1>3
  <2> HIDE DEF w, r
  <2>3. /\ requests' \in [Requests -> RequestType] /\ requests'[q] = w
        /\ \A p \in Requests \ {q} : requests'[p] = requests[p]
    BY <2>1, <2>2, RequestBecomes
  <2>4. OneWriter'
    BY <1>1, <2>1, <2>3 DEF BudgetInv, OneWriter, HasLock, Budget!Is, BudgetAssumption
  <2> QED BY <2>1, <2>3, <2>4
<1>4. CASE UNCHANGED ledger /\ requests' = [requests EXCEPT ![q].phase = "over"]
  <2> HIDE DEF s, kept, y
  <2> QED BY <1>1, <1>2, <1>3, <1>4, MoveKeeps DEF Budget!Is, HasLock, Active
<1>5. CASE /\ Budget!Within(kept, r.run, r.cost)
           /\ ledger' = [kept EXCEPT !.reserved = @ \cup {y}]
           /\ requests' = [requests EXCEPT ![q].phase = "ready"]
  <2>1. /\ kept \in Ledgers /\ kept.day = s.day /\ kept.spent = s.spent
        /\ kept.reserved = {x \in s.reserved : ~Budget!Expired(x)}
    BY <1>1 DEF Ledgers
  <2>2. r.run \in Runs
    BY <1>1 DEF BudgetInv, RequestsAreWhole, Budget!Is
  <2>3. y \in Reservations /\ y.id = q /\ y.run = r.run /\ y.cost = r.cost /\ y.expires > clock
    BY <1>1, <2>2 DEF Reservations, RequestType, BudgetAssumption, BudgetInv, BudgetTyped
  <2> HIDE DEF kept, y
  <2>4. /\ ledger' \in Ledgers /\ ledger'.day = s.day /\ ledger'.spent = s.spent
        /\ ledger'.reserved = kept.reserved \cup {y}
    BY <1>5, <2>1, <2>3 DEF Ledgers
  <2>5. /\ requests' \in [Requests -> RequestType] /\ requests'[q].phase = "ready"
        /\ requests'[q].run = r.run /\ requests'[q].cost = r.cost
        /\ requests'[q].charge = r.charge
        /\ \A p \in Requests \ {q} : requests'[p] = requests[p]
        /\ OneWriter'
    BY <1>3, <1>5
  <2>6. Sound(ledger')
    <3>1. Sound(kept)
      BY <1>1, <2>1, PartIsSound DEF Good
    <3> QED BY <1>5, <2>1, <2>3, <2>4, <3>1, WithIsSound
  <2>7. Tells(ledger', requests')
    <3>1. Tells(kept, requests)
      BY <1>1, <2>1 DEF Good, Tells
    <3>2. Tells(kept, requests')
      BY <2>1, <2>5, <3>1, TellsStays DEF Budget!Is
    <3> QED BY <2>3, <2>4, <2>5, <3>2 DEF Tells
  <2>8. \A p \in Requests : ~HasLock(p)'
    BY <1>1, <2>5 DEF BudgetInv, OneWriter, HasLock, Budget!Is, BudgetAssumption
  <2>9. BudgetTyped'
    BY <1>1, <2>4, <2>5 DEF BudgetInv, BudgetTyped
  <2>10. LedgersAreGood'
    BY <2>6, <2>7, <2>8 DEF LedgersAreGood, Good
  <2>11. ReadIsCurrent'
    BY <1>1, <2>4, <2>8 DEF ReadIsCurrent, BudgetInv
  <2>12. ActiveIsHeld'
    <3> SUFFICES ASSUME day' = 1, NEW p \in Requests, Active(p)'
                 PROVE  \E x \in ledger'.reserved : x.id = p /\ x.expires > clock'
      BY DEF ActiveIsHeld
    <3>1. CASE p = q
      BY <3>1, <1>1, <2>3, <2>4
    <3>2. CASE p # q
      <4>1. Active(p) /\ day = 1
        BY <1>1, <2>5, <3>2 DEF Active
      <4>2. PICK x \in ledger.reserved : x.id = p /\ x.expires > clock
        BY <4>1 DEF BudgetInv, ActiveIsHeld
      <4>3. x \in kept.reserved
        BY <1>1, <2>1, <4>1, <4>2 DEF Budget!Expired, BudgetInv, BudgetTyped, Ledgers,
           Reservations
      <4> QED BY <1>1, <2>4, <4>2, <4>3
    <3> QED BY <3>1, <3>2
  <2>13. BilledOnce' /\ RequestsAreWhole'
    BY <1>1, <1>2, <2>2, <2>5 DEF BudgetInv, BudgetTyped, BilledOnce, RequestsAreWhole,
       Budget!Is
  <2>14. OverIsSpent'
    <3>1. {b \in billed : Budget!Is(b.id, "over")}' \subseteq {b \in billed : Budget!Is(b.id, "over")}
      BY <1>1, <2>5 DEF Budget!Is, BudgetInv, BudgetTyped
    <3> QED BY <1>1, <2>4, <3>1, OverStays
  <2> QED BY <2>5, <2>9, <2>10, <2>11, <2>12, <2>13, <2>14 DEF BudgetInv
<1> QED BY <1>4, <1>5 DEF Budget!Reserved

\* What is settled is what was reserved.
LEMMA ChargedIsCost ==
    ASSUME BudgetAssumption, BudgetInv, NEW q \in Requests, NEW x, x.cost = requests[q].cost
    PROVE  Budget!Charged(x, q) = x.cost
<1>1. requests[q].charge <= x.cost /\ x.cost \in Nat /\ requests[q].charge \in Nat
  BY DEF BudgetInv, BudgetTyped, RequestsAreWhole, RequestType
<1>2. \E y \in {x.cost, requests[q].charge} : \A z \in {x.cost, requests[q].charge} : y >= z
  BY <1>1
<1> QED BY <1>1, <1>2 DEF Budget!Charged, Budget!Max

LEMMA SettledKeeps ==
    ASSUME BudgetAssumption, BudgetInv, NEW q \in Requests, Budget!Settled(q)
    PROVE  BudgetInv'
<1> DEFINE s == requests[q].seen
<1>1. /\ Budget!Is(q, "settling") /\ lock = q /\ lock' = Budget!Free
      /\ s \in Ledgers /\ Good(s) /\ s.day \in 1..2
      /\ day = 1 => s = ledger
      /\ UNCHANGED <<clock, day, billed, crashes>>
  BY DEF Budget!Settled, BudgetInv, BudgetTyped, OneWriter, HasLock, LedgersAreGood,
     ReadIsCurrent, RequestType
<1> HIDE DEF s
<1>2. CASE Budget!FailsToSettle(q) /\ UNCHANGED ledger
  <2>1. /\ requests' \in [Requests -> RequestType]
        /\ requests'[q].phase \in {"lost", "settle"} /\ requests'[q].charge = requests[q].charge
        /\ requests'[q].run = requests[q].run /\ requests'[q].cost = requests[q].cost
        /\ \A p \in Requests \ {q} : requests'[p] = requests[p]
    BY <1>2, FailsTo
  <2>2. OneWriter'
    BY <1>1, <2>1 DEF BudgetInv, OneWriter, HasLock, Budget!Is, BudgetAssumption
  <2> QED BY <1>1, <1>2, <2>1, <2>2, MoveKeeps DEF Budget!Is, Active, HasLock
<1>3. ASSUME NEW x \in Budget!Of(q, s.reserved),
             ledger' = [s EXCEPT !.reserved = @ \ {x}, !.spent[x.run] = @ + Budget!Charged(x, q)],
             requests' = [requests EXCEPT ![q].phase = "over"]
      PROVE  BudgetInv'
  <2>1. /\ x \in s.reserved /\ x.id = q /\ x.cost = requests[q].cost /\ x.run \in Runs
        /\ x.cost \in Nat
    BY <1>1 DEF Budget!Of, Good, Tells, Ledgers, Reservations
  <2>2. Budget!Charged(x, q) = x.cost
    BY <2>1, ChargedIsCost
  <2>3. /\ ledger' \in Ledgers /\ ledger'.day = s.day /\ ledger'.reserved = s.reserved \ {x}
        /\ ledger'.spent[x.run] = s.spent[x.run] + x.cost
        /\ \A run \in Runs \ {x.run} : ledger'.spent[run] = s.spent[run]
    <3> DEFINE n == s.spent[x.run] + x.cost
               f == [s.spent EXCEPT ![x.run] = n]
    <3>1. f \in [Runs -> Nat] /\ f[x.run] = n /\ \A run \in Runs \ {x.run} : f[run] = s.spent[run]
      BY <1>1, <2>1 DEF Ledgers
    <3>2. ledger' = [s EXCEPT !.reserved = s.reserved \ {x}, !.spent = f]
      BY <1>3, <2>2
    <3> HIDE DEF f
    <3> QED BY <1>1, <3>1, <3>2 DEF Ledgers
  <2>4. /\ requests' \in [Requests -> RequestType] /\ requests'[q].phase = "over"
        /\ requests'[q].run = requests[q].run /\ requests'[q].cost = requests[q].cost
        /\ requests'[q].charge = requests[q].charge
        /\ \A p \in Requests \ {q} : requests'[p] = requests[p]
    <3> DEFINE w == [requests[q] EXCEPT !.phase = "over"]
    <3>1. /\ w \in RequestType /\ w.phase = "over" /\ w.run = requests[q].run
          /\ w.cost = requests[q].cost /\ w.charge = requests[q].charge
      BY DEF BudgetInv, BudgetTyped, RequestType, Phases
    <3>2. requests' = [requests EXCEPT ![q] = w]
      BY <1>3
    <3> HIDE DEF w
    <3> QED BY <3>1, <3>2, RequestBecomes
  <2>5. OneWriter' /\ \A p \in Requests : ~HasLock(p)'
    BY <1>1, <2>4 DEF BudgetInv, OneWriter, HasLock, Budget!Is, BudgetAssumption
  <2>6. Sound(ledger') /\ Budget!Spent(ledger') = Budget!Spent(s) + x.cost
    BY <1>1, <2>1, <2>3, SettledIsSound DEF Good
  <2>7. Tells(ledger', requests')
    <3>1. Tells(s, requests')
      BY <1>1, <2>4, TellsStays DEF Budget!Is, Good
    <3> QED BY <2>3, <3>1 DEF Tells
  <2>8. BudgetTyped'
    BY <1>1, <2>3, <2>4 DEF BudgetInv, BudgetTyped
  <2>9. LedgersAreGood'
    BY <2>5, <2>6, <2>7 DEF LedgersAreGood, Good
  <2>10. ReadIsCurrent'
    BY <1>1, <2>3, <2>5 DEF ReadIsCurrent, BudgetInv
  <2>11. ActiveIsHeld'
    <3> SUFFICES ASSUME day' = 1, NEW p \in Requests, Active(p)'
                 PROVE  \E y \in ledger'.reserved : y.id = p /\ y.expires > clock'
      BY DEF ActiveIsHeld
    <3>1. p # q /\ Active(p) /\ day = 1
      BY <1>1, <2>4 DEF Active
    <3>2. PICK y \in ledger.reserved : y.id = p /\ y.expires > clock
      BY <3>1 DEF BudgetInv, ActiveIsHeld
    <3> QED BY <1>1, <2>1, <2>3, <3>1, <3>2
  <2>12. BilledOnce' /\ RequestsAreWhole'
    BY <1>1, <2>4 DEF BudgetInv, BudgetTyped, BilledOnce, RequestsAreWhole, Budget!Is
  <2>13. OverIsSpent'
    <3> DEFINE over == {b \in billed : Budget!Is(b.id, "over")}
    <3> SUFFICES ASSUME day' = 1, crashes' = 0
                 PROVE  Budget!Cost(over') <= Budget!Spent(ledger')
      BY DEF OverIsSpent, Budget!Spent
    <3>1. Budget!Cost(over) <= Budget!Spent(ledger) /\ s = ledger
      BY <1>1 DEF BudgetInv, OverIsSpent
    <3>2. IsFiniteSet(over) /\ (\A b \in over : b.cost \in Nat)
      BY FS_Subset DEF BudgetInv, BudgetTyped
    <3>3. \/ over' = over
          \/ \E b \in billed : b.cost \in Nat /\ b.cost <= x.cost /\ over' = over \cup {b}
      <4>1. \A p \in Requests : Budget!Is(p, "over")' <=> Budget!Is(p, "over") \/ p = q
        BY <2>4 DEF Budget!Is
      <4>2. over' = {b \in billed : Budget!Is(b.id, "over")'}
        BY <1>1
      <4>3. \A b \in billed : b.id \in Requests /\ b.cost \in Nat
        BY DEF BudgetInv, BudgetTyped
      <4>4. \A b \in billed : b.id = q => b.cost <= x.cost
        BY <2>1 DEF BudgetInv, BilledOnce
      <4>5. over' = {b \in billed : Budget!Is(b.id, "over") \/ b.id = q}
        BY <4>1, <4>2, <4>3
      <4>6. CASE \E b \in billed : b.id = q
        <5>1. PICK b \in billed : b.id = q
          BY <4>6
        <5>2. \A c \in billed : c.id = q => c = b
          BY <5>1 DEF BudgetInv, BilledOnce
        <5>3. over' = over \cup {b}
          BY <4>5, <5>1, <5>2
        <5> QED BY <4>3, <4>4, <5>1, <5>3
      <4>7. CASE \A b \in billed : b.id # q
        BY <4>5, <4>7
      <4> QED BY <4>6, <4>7
    <3>4. Budget!Spent(s) \in Nat
      BY <1>1, SpentIsNat
    <3> HIDE DEF over
    <3>5. ASSUME NEW b \in billed, b.cost \in Nat, b.cost <= x.cost, over' = over \cup {b}
          PROVE  Budget!Cost(over') <= Budget!Spent(ledger')
      <4>1. IsFiniteSet(over') /\ (\A c \in over' : c.cost \in Nat)
        BY <3>2, <3>5, FS_AddElement
      <4>2. Budget!Cost(over') <= Budget!Cost(over) + b.cost /\ Budget!Cost(over') \in Nat /\
            Budget!Cost(over) \in Nat
        BY <3>2, <3>5, <4>1, CostWith, CostFinite
      <4> QED BY <2>1, <2>6, <3>1, <3>4, <3>5, <4>2
    <3>6. Budget!Cost(over) \in Nat
      BY <3>2, CostFinite
    <3> QED BY <2>1, <2>6, <3>1, <3>3, <3>4, <3>5, <3>6
  <2> QED BY <2>5, <2>8, <2>9, <2>10, <2>11, <2>12, <2>13 DEF BudgetInv
<1> QED BY <1>2, <1>3 DEF Budget!Settled, s

-----------------------------------------------------------------------------
\* What is over was settled; what is under way is, for each bill, in a
\* reservation of its own.
LEMMA ChargesKept ==
    ASSUME BudgetAssumption, BudgetInv
    PROVE  Budget!ChargesAreKept
<1> SUFFICES ASSUME day = 1, crashes = 0
             PROVE  Budget!Cost({b \in billed : ~Budget!Is(b.id, "lost")})
                      <= Budget!Spent(ledger) + Budget!Cost(ledger.reserved)
  BY DEF Budget!ChargesAreKept
<1> DEFINE over == {b \in billed : Budget!Is(b.id, "over")}
           act == {b \in billed : Active(b.id)}
           h == [b \in act |-> CHOOSE x \in ledger.reserved : x.id = b.id]
<1>1. {b \in billed : ~Budget!Is(b.id, "lost")} = over \cup act
  BY DEF BudgetInv, BilledOnce, Budget!Is, Active
<1>2. /\ IsFiniteSet(over) /\ (\A b \in over : b.cost \in Nat)
      /\ IsFiniteSet(act) /\ (\A b \in act : b.cost \in Nat)
  BY FS_Subset DEF BudgetInv, BudgetTyped
<1>3. /\ IsFiniteSet(ledger.reserved) /\ (\A x \in ledger.reserved : x.cost \in Nat)
      /\ \A x \in ledger.reserved : x.cost = requests[x.id].cost
  BY DEF BudgetInv, BudgetTyped, LedgersAreGood, Good, Sound, Tells, Ledgers, Reservations
<1>4. \A b \in act : \E x \in ledger.reserved : x.id = b.id
  BY DEF BudgetInv, BudgetTyped, ActiveIsHeld
<1>5. \A b \in act : h[b] \in ledger.reserved /\ h[b].id = b.id
  BY <1>4
<1>6. h \in [act -> ledger.reserved]
  BY <1>5
<1>7. \A b, c \in act : b.id = c.id => b = c
  BY DEF BudgetInv, BilledOnce
<1>8. \A b \in act : b.cost <= requests[b.id].cost
  BY DEF BudgetInv, BilledOnce
<1>9. Budget!Cost(over) <= Budget!Spent(ledger)
  BY DEF BudgetInv, OverIsSpent
<1> HIDE DEF over, act, h
<1>10. /\ \A b, c \in act : h[b] = h[c] => b = c
       /\ \A b \in act : b.cost <= h[b].cost
  BY <1>3, <1>5, <1>7, <1>8
<1>11. Budget!Cost(act) <= Budget!Cost(ledger.reserved)
  BY <1>2, <1>3, <1>6, <1>10, CostAtMost
<1>12. Budget!Cost(over \cup act) <= Budget!Cost(over) + Budget!Cost(act)
  BY <1>2, CostOfBoth
<1>13. IsFiniteSet(over \cup act) /\ \A b \in over \cup act : b.cost \in Nat
  BY <1>2, FS_Union
<1>14. /\ Budget!Cost(over) \in Nat /\ Budget!Cost(act) \in Nat /\
            Budget!Cost(over \cup act) \in Nat
       /\ Budget!Cost(ledger.reserved) \in Nat
  BY <1>2, <1>3, <1>13, CostFinite
<1>15. Budget!Spent(ledger) \in Nat
  BY SpentIsNat DEF BudgetInv, BudgetTyped
<1>16. Budget!Cost(over \cup act) <= Budget!Spent(ledger) + Budget!Cost(ledger.reserved)
  BY <1>9, <1>11, <1>12, <1>14, <1>15
<1> QED BY <1>1, <1>16

\* Always, the ledger is within the limits, what is sent is reserved, and what
\* was charged is in the ledger: for any requests, runs, costs and limits.
THEOREM BudgetAlwaysKept ==
    ASSUME BudgetAssumption
    PROVE  Budget!Spec => [](Budget!TypeOK /\ Budget!BudgetKept)
<1>1. Budget!Init => BudgetInv
  BY BudgetBegins
<1>2. BudgetInv /\ [Budget!Next]_Budget!vars => BudgetInv'
  <2> SUFFICES ASSUME BudgetInv, [Budget!Next]_Budget!vars
               PROVE  BudgetInv'
    OBVIOUS
  <2>1. ASSUME NEW q \in Requests, NEW run \in Runs, NEW cost \in Costs,
                   Budget!Reserve(q, run, cost)
        PROVE  BudgetInv'
    BY <2>1, ReserveKeeps
  <2>2. ASSUME NEW q \in Requests, NEW charge \in Costs, Budget!Send(q, charge)
        PROVE  BudgetInv'
    BY <2>2, SendKeeps
  <2>3. ASSUME NEW q \in Requests, NEW readable \in BOOLEAN, Budget!Answer(q, readable)
        PROVE  BudgetInv'
    BY <2>3, AnswerKeeps
  <2>4. ASSUME NEW q \in Requests, Budget!Reserved(q) \/ Budget!Settle(q) \/
                   Budget!SettleLocked(q) \/ Budget!Settled(q)
        PROVE  BudgetInv'
    BY <2>4, ReservedKeeps, SettleKeeps, SettleLockedKeeps, SettledKeeps
  <2>5. CASE Budget!Crash \/ Budget!Tick \/ Budget!NextDay
    BY <2>5, CrashKeeps, TimeKeeps
  <2>6. CASE UNCHANGED Budget!vars
    BY <2>6 DEF Budget!vars, BudgetInv, BudgetTyped, OneWriter, LedgersAreGood, ReadIsCurrent,
       ActiveIsHeld,
       BilledOnce, RequestsAreWhole, OverIsSpent, HasLock, Budget!Is, Active, Good
  <2> QED BY <2>1, <2>2, <2>3, <2>4, <2>5, <2>6 DEF Budget!Next
<1>3. BudgetInv => Budget!TypeOK /\ Budget!BudgetKept
  <2> SUFFICES ASSUME BudgetInv
               PROVE  Budget!TypeOK /\ Budget!BudgetKept
    OBVIOUS
  <2>1. Budget!TypeOK
    BY SameFinite DEF BudgetInv, BudgetTyped, OneWriter, HasLock, LedgersAreGood, Good, Sound,
       Budget!TypeOK, Budget!Is
  <2>2. Budget!LedgerWithin
    BY DEF BudgetInv, LedgersAreGood, Good, Sound, Budget!LedgerWithin
  <2>3. Budget!SendsAreHeld
    BY DEF BudgetInv, ActiveIsHeld, Active, Budget!Is, Budget!SendsAreHeld, Budget!Of
  <2> QED BY <2>1, <2>2, <2>3, ChargesKept DEF Budget!BudgetKept
<1> QED BY <1>1, <1>2, <1>3, PTL DEF Budget!Spec

-----------------------------------------------------------------------------
(* Pairing. *)

\* Some grants are those of another installation.
PairingAssumption == Pairs!NoGrant \notin Grants /\ Foreign \subseteq Grants

GrantStates == {"unborn", "open", "used", "expired", "revoked"}
GrantType == [state : GrantStates, binding : Int]
WorkerType == [token : Nat, grant : Grants \cup {Pairs!NoGrant}, binding : Int, live : BOOLEAN]
VaultType == [token : Nat, grant : Grants \cup {Pairs!NoGrant}]
ProcType == [at : {"off", "prompt", "ready", "asked", "half"},
             answer : {"none", "paired", "refused"}]
NetType == [sent : Nat, grant : Grants, token : Nat]
SpentType == [sends : Nat, changes : Nat, faults : Nat]

PairsTyped ==
    /\ grant \in [Grants -> GrantType] /\ worker \in WorkerType /\ binding \in Int
    /\ meta \in {"none", "pending", "paired"} /\ vault \in VaultType /\ proc \in ProcType
    /\ net \in SUBSET NetType /\ made \in Nat /\ spent \in SpentType

\* A grant that will not register a worker any more.
Closed(g) ==
    \/ g \in Foreign \/ grant[g].state \notin {"unborn", "open"} \/ worker.grant \in Grants

\* The registration: of one grant, the one that is used.
WorkerIsWhole ==
    /\ worker.grant \notin Foreign /\ worker.token <= made
    /\ worker.grant \in Grants \/ worker = Pairs!NoWorker
    /\ worker.grant \in Grants => worker.token # 0
    /\ worker.live => worker.grant \in Grants /\ grant[worker.grant].state = "used"
    /\ \A g \in Grants : grant[g].state = "used" => worker.grant = g

\* The bundle: of a grant that was made, until the program says paired.
BundleIsWhole ==
    /\ vault.token <= made
    /\ vault.token = 0 => vault = Pairs!NoBundle
    /\ vault.grant # Pairs!NoGrant => vault.token # 0 /\ grant[vault.grant].state # "unborn"
    /\ meta = "pending" /\ vault.token # 0 => vault.grant # Pairs!NoGrant
    /\ meta = "paired" => vault.token # 0 /\ vault.token = worker.token
    /\ meta = "none" => vault.token = 0
    /\ worker.live => vault.token = worker.token
    /\ vault.token = worker.token /\ worker.grant \in Grants /\ vault.grant # Pairs!NoGrant
       => worker.grant = vault.grant

\* A request that may yet register a worker is of the bundle that is kept.
LateIsHarmless ==
    \A r \in net :
        /\ r.token # 0 /\ r.token <= made /\ r.sent <= spent.sends
        /\ grant[r.grant].state # "unborn"
        /\ r.token = vault.token /\ vault.grant # Pairs!NoGrant => r.grant = vault.grant
        /\ r.token = worker.token /\ worker.grant \in Grants => r.grant = worker.grant
        /\ r.token = vault.token \/ Closed(r.grant)

CommandIsWhole ==
    /\ proc.at \in {"prompt", "ready", "asked"} => meta = "pending"
    /\ proc.at = "half" => meta = "paired"
    /\ proc.at = "prompt" => vault.token = 0
    /\ proc.at \in {"ready", "asked"} => vault.token # 0
    /\ proc.at \in {"off", "prompt", "ready"} => proc.answer = "none"
    /\ proc.at = "asked" =>
          /\ \A r \in net : r.sent = spent.sends => r.token = vault.token
          /\ proc.answer = "paired" => worker.token = vault.token
          /\ proc.answer = "refused" => ~worker.live /\ Closed(vault.grant)

PairsInv == PairsTyped /\ WorkerIsWhole /\ BundleIsWhole /\ LateIsHarmless /\ CommandIsWhole

-----------------------------------------------------------------------------
\* What a step of the server does to the registration and the grants, when it
\* registers none.
Withdraws ==
    /\ grant' \in [Grants -> GrantType] /\ worker' \in WorkerType
    /\ worker'.token = worker.token /\ worker'.grant = worker.grant
    /\ worker'.live => worker.live
    /\ worker = Pairs!NoWorker => worker' = Pairs!NoWorker
    /\ worker'.live => grant'[worker.grant].state = grant[worker.grant].state
    /\ \A g \in Grants :
          \/ grant'[g].state = grant[g].state
          \/ grant'[g].state \in {"expired", "revoked"}
          \/ grant[g].state = "unborn" /\ grant'[g].state = "open"

LEMMA WithdrawsKeeps ==
    ASSUME PairingAssumption, PairsInv, Withdraws
    PROVE  /\ WorkerIsWhole' \/ made' # made
           /\ \A g \in Grants : Closed(g) => Closed(g)'
<1>1. \A g \in Grants : Closed(g) => Closed(g)'
  BY DEF Withdraws, Closed
<1>2. WorkerIsWhole' \/ made' # made
  BY DEF PairsInv, PairsTyped, Withdraws, WorkerIsWhole
<1> QED BY <1>1, <1>2

LEMMA ServerKeeps ==
    ASSUME PairingAssumption, PairsInv, Withdraws, binding' \in Int, spent' \in SpentType,
           spent'.sends = spent.sends, UNCHANGED Pairs!program
    PROVE  PairsInv'
<1>1. PairsTyped' /\ WorkerIsWhole'
  BY WithdrawsKeeps DEF PairsInv, PairsTyped, Withdraws, Pairs!program
<1>2. \A g \in Grants : Closed(g) => Closed(g)'
  BY WithdrawsKeeps
<1>3. BundleIsWhole'
  BY DEF PairsInv, PairsTyped, BundleIsWhole, Withdraws, Pairs!program, VaultType, GrantType,
     PairingAssumption
<1>4. LateIsHarmless'
  BY <1>2 DEF PairsInv, PairsTyped, LateIsHarmless, Withdraws, Pairs!program, NetType,
     GrantType, GrantStates
<1>5. CommandIsWhole'
  <2>1. vault.token # 0 /\ vault.token = vault'.token /\ proc.at = "asked" =>
        vault.grant \in Grants
    BY DEF PairsInv, CommandIsWhole, BundleIsWhole, PairsTyped, VaultType
  <2> QED BY <1>2, <2>1 DEF PairsInv, PairsTyped, CommandIsWhole, Withdraws, Pairs!program
<1> QED BY <1>1, <1>3, <1>4, <1>5 DEF PairsInv

LEMMA GrantBecomes ==
    ASSUME PairsInv, NEW g \in Grants, NEW state \in GrantStates, NEW w \in GrantType,
           w.state = state,
           grant' = [grant EXCEPT ![g] = w]
    PROVE  /\ grant' \in [Grants -> GrantType] /\ grant'[g].state = state
           /\ \A h \in Grants \ {g} : grant'[h] = grant[h]
BY DEF PairsInv, PairsTyped

LEMMA GrantIsInvalid ==
    ASSUME PairsInv, NEW g \in Grants, grant' = Pairs!Invalid(g)
    PROVE  /\ grant' \in [Grants -> GrantType] /\ grant'[g].state = "revoked"
           /\ \A h \in Grants \ {g} : grant'[h] = grant[h]
<1> DEFINE w == [grant[g] EXCEPT !.state = "revoked"]
<1>1. w \in GrantType /\ w.state = "revoked"
  BY DEF PairsInv, PairsTyped, GrantType, GrantStates
<1>2. grant' = [grant EXCEPT ![g] = w]
  BY DEF Pairs!Invalid
<1> HIDE DEF w
<1> QED BY <1>1, <1>2, GrantBecomes DEF GrantStates

LEMMA WorkerDies ==
    ASSUME PairsInv
    PROVE  LET w == Pairs!Dead(worker)
           IN /\ w \in WorkerType /\ w.token = worker.token /\ w.grant = worker.grant
              /\ ~w.live
<1>1. worker \in WorkerType
  BY DEF PairsInv, PairsTyped
<1> QED BY <1>1 DEF Pairs!Dead, WorkerType

LEMMA CreatePairingKeeps ==
    ASSUME PairingAssumption, PairsInv, NEW g \in Grants, Pairs!CreatePairing(g)
    PROVE  PairsInv'
<1> DEFINE w == [state |-> "open", binding |-> binding]
<1>1. w \in GrantType /\ w.state = "open" /\ grant' = [grant EXCEPT ![g] = w]
  BY DEF PairsInv, PairsTyped, GrantType, GrantStates, Pairs!CreatePairing
<1> HIDE DEF w
<1>2. /\ grant' \in [Grants -> GrantType] /\ grant'[g].state = "open"
      /\ \A h \in Grants \ {g} : grant'[h] = grant[h]
  BY <1>1, GrantBecomes DEF GrantStates
<1>3. Withdraws
  BY <1>2 DEF Withdraws, Pairs!CreatePairing, PairsInv, PairsTyped, WorkerIsWhole
<1> QED BY <1>3, ServerKeeps DEF Pairs!CreatePairing, PairsInv, PairsTyped

LEMMA ExpireKeeps ==
    ASSUME PairingAssumption, PairsInv, NEW g \in Grants, Pairs!Expire(g)
    PROVE  PairsInv'
<1> DEFINE w == [grant[g] EXCEPT !.state = "expired"]
<1>1. w \in GrantType /\ w.state = "expired" /\ grant' = [grant EXCEPT ![g] = w]
  BY DEF PairsInv, PairsTyped, GrantType, GrantStates, Pairs!Expire
<1> HIDE DEF w
<1>2. /\ grant' \in [Grants -> GrantType] /\ grant'[g].state = "expired"
      /\ \A h \in Grants \ {g} : grant'[h] = grant[h]
  BY <1>1, GrantBecomes DEF GrantStates
<1>3. Withdraws
  BY <1>2 DEF Withdraws, Pairs!Expire, PairsInv, PairsTyped, WorkerIsWhole
<1> QED BY <1>3, ServerKeeps DEF Pairs!Expire, PairsInv, PairsTyped

\* A grant that is revoked takes its registration with it.
LEMMA InvalidWithdraws ==
    ASSUME PairingAssumption, PairsInv, NEW g \in Grants, grant' = Pairs!Invalid(g),
           worker' = IF worker.grant = g THEN Pairs!Dead(worker) ELSE worker
    PROVE  Withdraws
<1>1. /\ grant' \in [Grants -> GrantType] /\ grant'[g].state = "revoked"
      /\ \A h \in Grants \ {g} : grant'[h] = grant[h]
  BY GrantIsInvalid
<1>2. worker \in WorkerType /\ (worker.live => worker.grant \in Grants)
  BY DEF PairsInv, PairsTyped, WorkerIsWhole
<1>3. CASE worker.grant = g
  <2>1. worker # Pairs!NoWorker
    BY <1>3 DEF Pairs!NoWorker, PairingAssumption
  <2> QED BY <1>1, <1>2, <1>3, <2>1, WorkerDies DEF Withdraws
<1>4. CASE worker.grant # g
  BY <1>1, <1>2, <1>4 DEF Withdraws
<1> QED BY <1>3, <1>4

LEMMA SweepKeeps ==
    ASSUME PairingAssumption, PairsInv, Pairs!Sweep
    PROVE  PairsInv'
<1>1. CASE worker.live /\ grant' = Pairs!Invalid(worker.grant) /\ worker' = Pairs!Dead(worker)
  BY <1>1, InvalidWithdraws, ServerKeeps DEF Pairs!Sweep, PairsInv, PairsTyped, WorkerIsWhole
<1>2. ASSUME NEW g \in Grants, grant[g].state \in {"open", "expired"}, grant' = Pairs!Invalid(g),
             UNCHANGED worker
      PROVE  PairsInv'
  <2>1. worker.grant = g => ~worker.live
    BY <1>2 DEF PairsInv, WorkerIsWhole
  <2>2. Withdraws
    BY <1>2, <2>1, GrantIsInvalid DEF Withdraws, PairsInv, PairsTyped, WorkerIsWhole
  <2> QED BY <2>2, ServerKeeps DEF Pairs!Sweep, PairsInv, PairsTyped
<1> QED BY <1>1, <1>2 DEF Pairs!Sweep

LEMMA ServerStepKeeps ==
    ASSUME PairingAssumption, PairsInv,
           Pairs!ChangeBinding \/ \E g \in Grants : Pairs!RevokePairing(g)
    PROVE  PairsInv'
<1>1. CASE Pairs!ChangeBinding
  <2>1. spent' \in SpentType /\ spent'.sends = spent.sends /\ binding' \in Int
    BY <1>1 DEF Pairs!ChangeBinding, PairsInv, PairsTyped, SpentType
  <2>2. Withdraws
    BY <1>1 DEF Pairs!ChangeBinding, Withdraws, PairsInv, PairsTyped
  <2> QED BY <1>1, <2>1, <2>2, ServerKeeps DEF Pairs!ChangeBinding
<1>2. ASSUME NEW g \in Grants, Pairs!RevokePairing(g)
      PROVE  PairsInv'
  BY <1>2, InvalidWithdraws, ServerKeeps DEF Pairs!RevokePairing, PairsInv, PairsTyped
<1> QED BY <1>1, <1>2

\* A registration: of the bundle that is kept, for a grant that is good.
LEMMA RegistersKeeps ==
    ASSUME PairingAssumption, PairsInv, NEW r \in net, ~Closed(r.grant),
           grant' = [grant EXCEPT ![r.grant].state = "used"],
           worker' = [token |-> r.token, grant |-> r.grant, binding |-> binding, live |-> TRUE],
           net' = net \ {r}, UNCHANGED <<binding, meta, vault, made, told, spent>>,
           \/ proc' = proc
           \/ /\ proc.at = "asked" /\ proc.answer = "none" /\ r.sent = spent.sends
              /\ proc' = [proc EXCEPT !.answer = "paired"]
    PROVE  PairsInv'
<1> DEFINE g == r.grant
           w == [grant[g] EXCEPT !.state = "used"]
<1>1. /\ g \in Grants /\ r \in NetType /\ r.token = vault.token /\ r.token # 0 /\ r.token <= made
      /\ vault.grant = g
  <2>1. vault.grant # Pairs!NoGrant
    BY DEF PairsInv, PairsTyped, BundleIsWhole, WorkerIsWhole, LateIsHarmless, Closed,
       Pairs!NoWorker
  <2> QED BY <2>1 DEF PairsInv, PairsTyped, NetType, LateIsHarmless
<1>2. w \in GrantType /\ w.state = "used"
  BY <1>1 DEF PairsInv, PairsTyped, GrantType, GrantStates
<1>3. grant' = [grant EXCEPT ![g] = w]
  OBVIOUS
<1> HIDE DEF w
<1>4. /\ grant' \in [Grants -> GrantType] /\ grant'[g].state = "used"
      /\ \A h \in Grants \ {g} : grant'[h] = grant[h]
  BY <1>1, <1>2, <1>3, GrantBecomes DEF GrantStates
<1>5. /\ worker' \in WorkerType /\ worker'.token = r.token /\ worker'.grant = g /\ worker'.live
  BY <1>1 DEF WorkerType, NetType, PairsInv, PairsTyped
<1>6. /\ proc' \in ProcType /\ proc'.at = proc.at
      /\ \/ proc'.answer = proc.answer
         \/ proc'.answer = "paired" /\ proc.at = "asked" /\ proc.answer = "none"
  BY DEF PairsInv, PairsTyped, ProcType
<1>7. PairsTyped'
  BY <1>4, <1>5, <1>6 DEF PairsInv, PairsTyped
<1>8. g \notin Foreign /\ worker.grant \notin Grants
  BY DEF Closed
<1>9. WorkerIsWhole'
  BY <1>1, <1>4, <1>5, <1>8 DEF PairsInv, PairsTyped, WorkerIsWhole
<1>10. \A h \in Grants : Closed(h)'
  BY <1>1, <1>5 DEF Closed
<1>11. BundleIsWhole'
  BY <1>1, <1>4, <1>5 DEF PairsInv, BundleIsWhole, PairsTyped, VaultType
<1>12. LateIsHarmless'
  <2>1. vault.grant # Pairs!NoGrant
    BY <1>1 DEF PairingAssumption
  <2>2. \A q \in net : q.token = r.token => q.grant = g
    BY <1>1, <2>1 DEF PairsInv, LateIsHarmless
  <2> QED BY <1>1, <1>4, <1>5, <1>10, <2>2 DEF PairsInv, LateIsHarmless, PairsTyped, NetType
<1>13. CommandIsWhole'
  <2>1. ~(proc.at = "asked" /\ proc.answer = "refused")
    <3> SUFFICES ASSUME proc.at = "asked", proc.answer = "refused" PROVE FALSE
      OBVIOUS
    <3>1. Closed(vault.grant) /\ vault.grant # Pairs!NoGrant
      BY DEF PairsInv, CommandIsWhole, BundleIsWhole
    <3> QED BY <1>1, <3>1
  <2> QED BY <1>1, <1>4, <1>5, <1>6, <2>1 DEF PairsInv, CommandIsWhole, LateIsHarmless
<1> QED BY <1>7, <1>9, <1>11, <1>12, <1>13 DEF PairsInv

\* A refusal: its grant registers no worker from then on, and no worker lives
\* that has the token.
LEMMA RefusesKeeps ==
    ASSUME PairingAssumption, PairsInv, NEW r \in net, Withdraws, Closed(r.grant)',
           worker'.live => worker.token # r.token,
           net' = net \ {r}, UNCHANGED <<binding, meta, vault, made, told, spent>>,
           \/ proc' = proc
           \/ /\ proc.at = "asked" /\ proc.answer = "none" /\ r.sent = spent.sends
              /\ proc' = [proc EXCEPT !.answer = "refused"]
    PROVE  PairsInv'
<1>1. WorkerIsWhole' /\ \A h \in Grants : Closed(h) => Closed(h)'
  BY WithdrawsKeeps
<1>2. /\ proc' \in ProcType /\ proc'.at = proc.at
      /\ \/ proc'.answer = proc.answer
         \/ proc'.answer = "refused" /\ proc.at = "asked" /\ proc.answer = "none" /\
              r.sent = spent.sends
  BY DEF PairsInv, PairsTyped, ProcType
<1>3. PairsTyped'
  BY <1>2 DEF PairsInv, PairsTyped, Withdraws
<1>4. BundleIsWhole'
  BY DEF PairsInv, PairsTyped, BundleIsWhole, Withdraws, VaultType, GrantType, PairingAssumption
<1>5. LateIsHarmless'
  BY <1>1 DEF PairsInv, PairsTyped, LateIsHarmless, Withdraws, NetType, GrantType, GrantStates
<1>6. CommandIsWhole'
  <2>1. proc.at = "asked" => /\ vault.grant \in Grants /\ vault.grant # Pairs!NoGrant
                             /\ \A q \in net : q.sent = spent.sends => q.token = vault.token
    BY DEF PairsInv, CommandIsWhole, BundleIsWhole, PairsTyped, VaultType
  <2>2. proc.at = "asked" /\ r.sent = spent.sends => r.token = vault.token /\
        r.grant = vault.grant
    BY <2>1 DEF PairsInv, LateIsHarmless
  <2>3. CASE proc'.answer = proc.answer
    BY <1>1, <1>2, <2>1, <2>3 DEF PairsInv, CommandIsWhole, Withdraws
  <2>4. CASE proc'.answer = "refused" /\ proc.at = "asked" /\ proc.answer = "none" /\
             r.sent = spent.sends
    <3>1. r.token = vault.token /\ r.grant = vault.grant
      BY <2>2, <2>4
    <3>2. Closed(vault.grant)'
      BY <3>1 DEF Closed
    <3>3. ~worker'.live
      BY <3>1 DEF PairsInv, BundleIsWhole, Withdraws
    <3> QED BY <1>2, <2>1, <2>4, <3>2, <3>3 DEF PairsInv, CommandIsWhole, Withdraws
  <2> QED BY <1>2, <2>3, <2>4
<1> QED BY <1>1, <1>3, <1>4, <1>5, <1>6 DEF PairsInv

\* An answer "paired" to a request whose registration was made before.
LEMMA PairedAgainKeeps ==
    ASSUME PairingAssumption, PairsInv, NEW r \in net, UNCHANGED <<grant, worker>>,
           worker.token = r.token,
           net' = net \ {r}, UNCHANGED <<binding, meta, vault, made, told, spent>>,
           \/ proc' = proc
           \/ /\ proc.at = "asked" /\ proc.answer = "none" /\ r.sent = spent.sends
              /\ proc' = [proc EXCEPT !.answer = "paired"]
    PROVE  PairsInv'
<1>1. /\ proc' \in ProcType /\ proc'.at = proc.at
      /\ \/ proc'.answer = proc.answer
         \/ proc'.answer = "paired" /\ proc.at = "asked" /\ proc.answer = "none" /\
              r.sent = spent.sends
  BY DEF PairsInv, PairsTyped, ProcType
<1>2. PairsTyped'
  BY <1>1 DEF PairsInv, PairsTyped, GrantType, WorkerType
<1>3. WorkerIsWhole' /\ BundleIsWhole' /\ LateIsHarmless'
  BY DEF PairsInv, WorkerIsWhole, BundleIsWhole, LateIsHarmless, Closed
<1>4. CommandIsWhole'
  BY <1>1 DEF PairsInv, CommandIsWhole, Closed
<1> QED BY <1>2, <1>3, <1>4 DEF PairsInv

LEMMA ArriveKeeps ==
    ASSUME PairingAssumption, PairsInv, NEW r \in net, Pairs!Arrive(r)
    PROVE  PairsInv'
<1>1. PICK answer \in {"paired", "refused"} :
         /\ Pairs!Judged(r, answer)
         /\ \/ /\ proc.at = "asked" /\ proc.answer = "none" /\ r.sent = spent.sends
               /\ proc' = [proc EXCEPT !.answer = answer]
            \/ proc' = proc
  BY DEF Pairs!Arrive
<1>2. net' = net \ {r} /\ UNCHANGED <<binding, meta, vault, made, told, spent>>
  BY DEF Pairs!Arrive
<1>3. /\ r.grant \in Grants /\ r.token # 0 /\ grant[r.grant].state \in GrantStates \ {"unborn"}
      /\ (r.token = worker.token /\ worker.grant \in Grants => r.grant = worker.grant)
      /\ r.token = vault.token \/ Closed(r.grant)
  BY DEF PairsInv, PairsTyped, NetType, GrantType, LateIsHarmless
<1>4. /\ worker.live => worker.grant \in Grants /\ grant[worker.grant].state = "used"
      /\ worker.grant \notin Foreign /\ (worker.grant \in Grants \/ worker = Pairs!NoWorker)
  BY DEF PairsInv, WorkerIsWhole
<1>5. CASE /\ r.grant \in Foreign \/ grant[r.grant].state = "revoked"
           /\ answer = "refused" /\ UNCHANGED <<grant, worker>>
  <2>1. Withdraws
    BY <1>5 DEF Withdraws, PairsInv, PairsTyped
  <2>2. Closed(r.grant)'
    BY <1>5 DEF Closed
  <2>3. worker'.live => worker.token # r.token
    BY <1>3, <1>4, <1>5
  <2> QED BY <1>1, <1>2, <1>5, <2>1, <2>2, <2>3, RefusesKeeps
<1>6. CASE answer = "refused" /\ Pairs!Refuses(r.grant)
  <2>1. Withdraws
    BY <1>3, <1>6, InvalidWithdraws DEF Pairs!Refuses
  <2>2. grant'[r.grant].state = "revoked" /\ (worker.grant = r.grant => ~worker'.live)
    BY <1>3, <1>6, GrantIsInvalid, WorkerDies DEF Pairs!Refuses
  <2>3. Closed(r.grant)'
    BY <2>2 DEF Closed
  <2>4. worker'.live => worker.token # r.token
    BY <1>3, <1>4, <2>1, <2>2 DEF Withdraws
  <2> QED BY <1>1, <1>2, <1>6, <2>1, <2>3, <2>4, RefusesKeeps
<1>7. CASE Pairs!Registered(r) /\ UNCHANGED <<grant, worker>>
           /\ answer = IF worker.token = r.token THEN "paired" ELSE "refused"
  <2>1. CASE worker.token = r.token
    BY <1>1, <1>2, <1>7, <2>1, PairedAgainKeeps
  <2>2. CASE worker.token # r.token
    <3>1. Withdraws
      BY <1>7 DEF Withdraws, PairsInv, PairsTyped
    <3>2. Closed(r.grant)'
      BY <1>3, <1>7 DEF Closed, Pairs!Registered
    <3> QED BY <1>1, <1>2, <1>7, <2>2, <3>1, <3>2, RefusesKeeps
  <2> QED BY <2>1, <2>2
<1>8. CASE /\ ~Pairs!Registered(r) /\ (~Pairs!Free(r) \/ worker # Pairs!NoWorker)
           /\ answer = "refused" /\ UNCHANGED <<grant, worker>>
  <2>1. Withdraws
    BY <1>8 DEF Withdraws, PairsInv, PairsTyped
  <2>2. Closed(r.grant)'
    BY <1>3, <1>4, <1>8 DEF Closed, Pairs!Free
  <2>3. worker'.live => worker.token # r.token
    BY <1>3, <1>4, <1>8 DEF Pairs!Registered
  <2> QED BY <1>1, <1>2, <1>8, <2>1, <2>2, <2>3, RefusesKeeps
<1>9. CASE /\ r.grant \notin Foreign /\ Pairs!Free(r) /\ worker = Pairs!NoWorker
           /\ answer = "paired"
           /\ grant' = [grant EXCEPT ![r.grant].state = "used"]
           /\ worker' = [token |-> r.token, grant |-> r.grant, binding |-> binding, live |-> TRUE]
  <2>1. ~Closed(r.grant)
    BY <1>9 DEF Closed, Pairs!Free, Pairs!NoWorker, PairingAssumption
  <2> QED BY <1>1, <1>2, <1>9, <2>1, RegistersKeeps
<1> QED BY <1>1, <1>5, <1>6, <1>7, <1>8, <1>9 DEF Pairs!Judged

-----------------------------------------------------------------------------
LEMMA BeginKeeps ==
    ASSUME PairingAssumption, PairsInv, Pairs!Begin
    PROVE  PairsInv'
<1>0. proc = Pairs!Off /\ UNCHANGED <<grant, worker, binding, net, made, told, spent>>
  BY DEF Pairs!Begin
<1>1. CASE meta = "paired"
  <2>1. /\ vault \in VaultType /\ vault' = [vault EXCEPT !.grant = Pairs!NoGrant] /\
             UNCHANGED <<meta, proc>>
    BY <1>1 DEF Pairs!Begin, PairsInv, PairsTyped
  <2>2. vault' \in VaultType /\ vault'.token = vault.token /\ vault'.grant = Pairs!NoGrant
    BY <2>1 DEF VaultType
  <2>3. PairsTyped' /\ WorkerIsWhole' /\ CommandIsWhole'
    BY <1>0, <2>1, <2>2 DEF PairsInv, PairsTyped, WorkerIsWhole, CommandIsWhole, GrantType,
       Pairs!Off
  <2>4. BundleIsWhole' /\ LateIsHarmless'
    BY <1>0, <1>1, <2>1, <2>2 DEF PairsInv, BundleIsWhole, LateIsHarmless, Closed
  <2> QED BY <2>3, <2>4 DEF PairsInv
<1>2. CASE meta # "paired"
  <2>1. /\ meta' = "pending" /\ UNCHANGED vault
        /\ proc' = [Pairs!Off EXCEPT !.at = IF vault = Pairs!NoBundle THEN "prompt" ELSE "ready"]
    BY <1>2 DEF Pairs!Begin
  <2>2. proc' \in ProcType /\
        proc'.at = (IF vault = Pairs!NoBundle THEN "prompt" ELSE "ready") /\
          proc'.answer = "none"
    BY <2>1 DEF Pairs!Off, ProcType
  <2>3. Pairs!NoBundle.token = 0
    BY DEF Pairs!NoBundle
  <2>4. PairsTyped' /\ WorkerIsWhole'
    BY <1>0, <2>1, <2>2 DEF PairsInv, PairsTyped, WorkerIsWhole, GrantType
  <2>5. BundleIsWhole' /\ LateIsHarmless'
    BY <1>0, <1>2, <2>1 DEF PairsInv, PairsTyped, BundleIsWhole, LateIsHarmless, Closed
  <2>6. CommandIsWhole'
    BY <1>0, <2>1, <2>2, <2>3 DEF PairsInv, CommandIsWhole, BundleIsWhole
  <2> QED BY <2>4, <2>5, <2>6 DEF PairsInv
<1> QED BY <1>1, <1>2

LEMMA TypeKeeps ==
    ASSUME PairingAssumption, PairsInv, NEW g \in Grants, Pairs!Type(g)
    PROVE  PairsInv'
<1>1. /\ proc.at = "prompt" /\ grant[g].state # "unborn" /\ made' = made + 1
      /\ vault' = [token |-> made + 1, grant |-> g] /\ proc' = [proc EXCEPT !.at = "ready"]
      /\ UNCHANGED <<grant, worker, binding, meta, net, told, spent>>
  BY DEF Pairs!Type
<1>2. /\ vault.token = 0 /\ meta = "pending" /\ proc.answer = "none" /\ made \in Nat
      /\ worker.token \in Nat /\ worker.token <= made
  BY <1>1 DEF PairsInv, PairsTyped, CommandIsWhole, WorkerIsWhole, WorkerType
<1>3. vault' \in VaultType /\ vault'.token = made + 1 /\ vault'.grant = g /\ g # Pairs!NoGrant
  BY <1>1, <1>2 DEF VaultType, PairingAssumption
<1>4. proc' \in ProcType /\ proc'.at = "ready" /\ proc'.answer = "none"
  BY <1>1, <1>2 DEF PairsInv, PairsTyped, ProcType
<1>5. PairsTyped' /\ WorkerIsWhole'
  BY <1>1, <1>2, <1>3, <1>4 DEF PairsInv, PairsTyped, WorkerIsWhole, GrantType
<1>6. BundleIsWhole'
  BY <1>1, <1>2, <1>3 DEF PairsInv, BundleIsWhole, WorkerIsWhole
<1>7. LateIsHarmless'
  BY <1>1, <1>2, <1>3 DEF PairsInv, PairsTyped, NetType, LateIsHarmless, Closed
<1>8. CommandIsWhole'
  BY <1>1, <1>2, <1>3, <1>4 DEF PairsInv, CommandIsWhole
<1> QED BY <1>5, <1>6, <1>7, <1>8 DEF PairsInv

LEMMA ClaimSendKeeps ==
    ASSUME PairingAssumption, PairsInv, Pairs!Send
    PROVE  PairsInv'
<1> DEFINE q == [sent |-> spent.sends + 1, grant |-> vault.grant, token |-> vault.token]
<1>1. /\ proc.at = "ready" /\ vault.grant # Pairs!NoGrant /\
           spent' = [spent EXCEPT !.sends = @ + 1]
      /\ net' = net \cup {q} /\ proc' = [proc EXCEPT !.at = "asked"]
      /\ UNCHANGED <<grant, worker, binding, meta, vault, made, told>>
  BY DEF Pairs!Send
<1>2. spent' \in SpentType /\ spent'.sends = spent.sends + 1 /\ spent.sends \in Nat
  BY <1>1 DEF PairsInv, PairsTyped, SpentType
<1>3. /\ q \in NetType /\ q.sent = spent.sends + 1 /\ q.grant = vault.grant /\
           q.token = vault.token
      /\ vault.grant \in Grants
  BY <1>1, <1>2 DEF PairsInv, PairsTyped, NetType, VaultType
<1>4. proc' \in ProcType /\ proc'.at = "asked" /\ proc'.answer = "none"
  BY <1>1 DEF PairsInv, PairsTyped, ProcType, CommandIsWhole
<1> HIDE DEF q
<1>5. PairsTyped' /\ WorkerIsWhole' /\ BundleIsWhole'
  BY <1>1, <1>2, <1>3, <1>4 DEF PairsInv, PairsTyped, WorkerIsWhole, BundleIsWhole, GrantType
<1>6. \A r \in net' : r \in net \/ r = q
  BY <1>1
<1>7. LateIsHarmless'
  BY <1>1, <1>2, <1>3, <1>6 DEF PairsInv, PairsTyped, NetType, LateIsHarmless, BundleIsWhole,
     Closed
<1>8. CommandIsWhole'
  BY <1>1, <1>2, <1>3, <1>4, <1>6 DEF PairsInv, PairsTyped, NetType, CommandIsWhole,
     LateIsHarmless
<1> QED BY <1>5, <1>7, <1>8 DEF PairsInv

LEMMA RefusedKeeps ==
    ASSUME PairingAssumption, PairsInv, Pairs!Refused
    PROVE  PairsInv'
<1>1. /\ proc.at = "asked" /\ proc.answer = "refused" /\ vault' = Pairs!NoBundle /\
           proc' = Pairs!Off
      /\ UNCHANGED <<grant, worker, binding, meta, net, made, spent>>
  BY DEF Pairs!Refused
<1>2. /\ vault' \in VaultType /\ vault'.token = 0 /\ vault'.grant = Pairs!NoGrant
      /\ proc' \in ProcType /\ proc'.at = "off" /\ proc'.answer = "none"
  BY <1>1 DEF Pairs!NoBundle, VaultType, Pairs!Off, ProcType
<1>3. meta = "pending" /\ ~worker.live /\ Closed(vault.grant) /\ vault.grant # Pairs!NoGrant
  BY <1>1 DEF PairsInv, CommandIsWhole, BundleIsWhole
<1>4. PairsTyped' /\ WorkerIsWhole' /\ CommandIsWhole'
  BY <1>1, <1>2 DEF PairsInv, PairsTyped, WorkerIsWhole, CommandIsWhole, GrantType
<1>5. BundleIsWhole'
  BY <1>1, <1>2, <1>3 DEF PairsInv, BundleIsWhole, PairsTyped
<1>6. LateIsHarmless'
  BY <1>1, <1>2, <1>3 DEF PairsInv, LateIsHarmless, Closed
<1> QED BY <1>4, <1>5, <1>6 DEF PairsInv

LEMMA PairedKeeps ==
    ASSUME PairingAssumption, PairsInv, Pairs!Paired
    PROVE  PairsInv'
<1>0. UNCHANGED <<grant, worker, binding, net, made, told, spent>>
  BY DEF Pairs!Paired
<1>1. CASE proc.at = "asked"
  <2>1. /\ proc.answer = "paired" /\ meta' = "paired" /\ UNCHANGED vault
        /\ proc' = [proc EXCEPT !.at = "half"]
    BY <1>1 DEF Pairs!Paired, Pairs!FirstOf
  <2>2. proc' \in ProcType /\ proc'.at = "half"
    BY <2>1 DEF PairsInv, PairsTyped, ProcType
  <2>3. vault.token # 0 /\ worker.token = vault.token
    BY <1>1, <2>1 DEF PairsInv, CommandIsWhole
  <2>4. PairsTyped' /\ WorkerIsWhole' /\ CommandIsWhole'
    BY <1>0, <2>1, <2>2 DEF PairsInv, PairsTyped, WorkerIsWhole, CommandIsWhole, GrantType
  <2>5. BundleIsWhole' /\ LateIsHarmless'
    BY <1>0, <2>1, <2>3 DEF PairsInv, BundleIsWhole, LateIsHarmless, Closed
  <2> QED BY <2>4, <2>5 DEF PairsInv
<1>2. CASE proc.at # "asked"
  <2>1. /\ proc.at = "half" /\ vault' = [vault EXCEPT !.grant = Pairs!NoGrant] /\
             UNCHANGED meta /\ proc' = Pairs!Off
    BY <1>2 DEF Pairs!Paired, Pairs!FirstOf
  <2>2. /\ vault' \in VaultType /\ vault'.token = vault.token /\ vault'.grant = Pairs!NoGrant
        /\ proc' \in ProcType /\ proc'.at = "off" /\ proc'.answer = "none" /\ meta = "paired"
    BY <2>1 DEF PairsInv, PairsTyped, VaultType, ProcType, Pairs!Off, CommandIsWhole
  <2>3. PairsTyped' /\ WorkerIsWhole' /\ CommandIsWhole'
    BY <1>0, <2>1, <2>2 DEF PairsInv, PairsTyped, WorkerIsWhole, CommandIsWhole, GrantType
  <2>4. BundleIsWhole' /\ LateIsHarmless'
    BY <1>0, <2>1, <2>2 DEF PairsInv, BundleIsWhole, LateIsHarmless, Closed
  <2> QED BY <2>3, <2>4 DEF PairsInv
<1> QED BY <1>1, <1>2

LEMMA FailsKeeps ==
    ASSUME PairingAssumption, PairsInv, Pairs!Fails
    PROVE  PairsInv'
<1>1. /\ proc' \in ProcType /\ proc'.at = "off" /\ proc'.answer = "none"
      /\ spent' \in SpentType /\ spent'.sends = spent.sends
      /\ UNCHANGED <<grant, worker, binding, meta, vault, net, made, told>>
  BY DEF Pairs!Fails, Pairs!Off, ProcType, PairsInv, PairsTyped, SpentType
<1> QED
  BY <1>1 DEF PairsInv, PairsTyped, WorkerIsWhole, BundleIsWhole, LateIsHarmless,
     CommandIsWhole, Closed, GrantType

LEMMA PairingBegins ==
    ASSUME PairingAssumption, Pairs!Init
    PROVE  PairsInv
<1>1. /\ Pairs!NoWorker \in WorkerType /\ Pairs!NoWorker.token = 0 /\
           Pairs!NoWorker.grant = Pairs!NoGrant /\ ~Pairs!NoWorker.live
      /\ Pairs!NoBundle \in VaultType /\ Pairs!NoBundle.token = 0 /\
           Pairs!NoBundle.grant = Pairs!NoGrant
      /\ Pairs!Off \in ProcType /\ Pairs!Off.at = "off" /\ Pairs!Off.answer = "none"
  BY DEF Pairs!NoWorker, WorkerType, Pairs!NoBundle, VaultType, Pairs!Off, ProcType
<1>2. PairsTyped /\ \A g \in Grants : grant[g].state = "unborn"
  BY <1>1 DEF Pairs!Init, PairsTyped, GrantType, GrantStates, SpentType
<1> QED
  BY <1>1, <1>2 DEF Pairs!Init, PairsInv, PairingAssumption, WorkerIsWhole, BundleIsWhole,
     LateIsHarmless, CommandIsWhole

LEMMA PairingStepKeeps ==
    ASSUME PairingAssumption, PairsInv, [Pairs!Next]_Pairs!vars
    PROVE  PairsInv'
<1>1. CASE UNCHANGED Pairs!vars
  BY <1>1 DEF Pairs!vars, Pairs!program, PairsInv, PairsTyped, WorkerIsWhole, BundleIsWhole,
     LateIsHarmless, CommandIsWhole, Closed, GrantType
<1>2. CASE Pairs!Next
  BY <1>2, CreatePairingKeeps, ExpireKeeps, ServerStepKeeps, TypeKeeps, SweepKeeps, BeginKeeps,
     ClaimSendKeeps, RefusedKeeps, PairedKeeps, FailsKeeps, ArriveKeeps DEF Pairs!Next
<1> QED BY <1>1, <1>2

\* What a registration says of a machine's credentials is always so, over lost
\* and repeated claims, restarts, faults of the vault and any number of grants.
THEOREM PairingAlwaysSound ==
    ASSUME PairingAssumption
    PROVE  Pairs!Spec => [](Pairs!TypeOK /\ Pairs!PairingIsSound)
<1>1. Pairs!Init => PairsInv
  BY PairingBegins
<1>2. PairsInv /\ [Pairs!Next]_Pairs!vars => PairsInv'
  BY PairingStepKeeps
<1>3. PairsInv => Pairs!TypeOK /\ Pairs!PairingIsSound
  <2>1. PairsInv => Pairs!TypeOK
    BY DEF PairsInv, PairsTyped, GrantType, GrantStates, VaultType, ProcType, BundleIsWhole,
       Pairs!TypeOK
  <2>2. Pairs!NoBundle.token = 0
    BY DEF Pairs!NoBundle
  <2>3. PairsInv => Pairs!PairingIsSound
    BY <2>2 DEF PairsInv, PairsTyped, WorkerIsWhole, BundleIsWhole, Pairs!PairingIsSound,
       Pairs!NoOrphan, Pairs!PairedCanWork, Pairs!GrantIsUsedOnce
  <2> QED BY <2>1, <2>3
<1> QED BY <1>1, <1>2, <1>3, PTL DEF Pairs!Spec

-----------------------------------------------------------------------------
(* ClaimCaps. *)

(* A poll counts the rows of its own day and of the span that ends with it.  *)
(* The invariant says the same of every day and every span, and that a row   *)
(* that was sent is not one screening ruled out, so that no later step of a  *)
(* row adds to what a poll has counted.                                      *)
CapsAssumption ==
    /\ IsFiniteSet(Rows)
    /\ DailyCap \in Nat /\ EmployerCap \in Nat /\ Limit \in Nat /\ Span \in Nat

RowsAreWhole ==
    \A r \in Rows :
        /\ row[r].state = "queued" => row[r].at = Caps!Never /\ ~row[r].sent
        /\ row[r].sent => row[r].state \in {"submitting", "submitted", "failed"}
AllDays ==
    \A d : /\ Cardinality(Caps!Starts(d)) <= DailyCap
           /\ \A l : Cardinality(Caps!Labelled(d, l)) <= EmployerCap
           /\ \A b : Cardinality(Caps!OnBoard(d, b)) <= EmployerCap
AllSpans == \A t \in Int, b \in Limited : Cardinality(Caps!LiveIn(t, b)) <= Limit

CapsInv == Caps!TypeOK /\ RowsAreWhole /\ IsFiniteSet(marks) /\ AllDays /\ AllSpans

LEMMA SameCount == \A S : Caps!Cardinality(S) = Cardinality(S)
BY Zenon DEF Caps!Cardinality, Cardinality, Caps!IsFiniteSet, IsFiniteSet

LEMMA Shrinks ==
    ASSUME NEW S, IsFiniteSet(S), NEW T \in SUBSET S, NEW n \in Nat, Cardinality(S) <= n
    PROVE  Cardinality(T) <= n
BY FS_Subset, FS_CardinalityType

LEMMA GrowsByOne ==
    ASSUME NEW S, IsFiniteSet(S), NEW x, NEW T \in SUBSET (S \cup {x}),
           NEW n \in Nat, Cardinality(S) < n
    PROVE  Cardinality(T) <= n
<1>1. IsFiniteSet(S \cup {x}) /\ Cardinality(S \cup {x}) <= Cardinality(S) + 1
  <2>1. Cardinality(S) \in Nat
    BY FS_CardinalityType
  <2>2. CASE x \in S
    <3>1. S \cup {x} = S
      BY <2>2
    <3>2. IsFiniteSet(S \cup {x}) /\ Cardinality(S \cup {x}) = Cardinality(S)
      BY <3>1, Zenon
    <3> QED BY <3>2, <2>1
  <2>3. CASE x \notin S
    <3>1. IsFiniteSet(S \cup {x}) /\ Cardinality(S \cup {x}) = Cardinality(S) + 1
      BY <2>3, FS_AddElement
    <3> QED BY <3>1, <2>1
  <2> QED BY <2>2, <2>3
<1>2. Cardinality(T) <= Cardinality(S \cup {x})
  BY <1>1, FS_Subset
<1> QED BY <1>1, <1>2, FS_Subset, FS_CardinalityType

\* Every set the caps are about is a set of rows, and so finite.
LEMMA SetsAreFinite ==
    ASSUME CapsAssumption
    PROVE  /\ \A d : IsFiniteSet(Caps!Starts(d)) /\ IsFiniteSet(Caps!Open(d))
           /\ \A d, x : IsFiniteSet(Caps!Labelled(d, x)) /\ IsFiniteSet(Caps!OnBoard(d, x))
           /\ \A t, b : IsFiniteSet(Caps!LiveIn(t, b)) /\ IsFiniteSet(Caps!Taken(b))
<1>1. \A S \in SUBSET Rows : IsFiniteSet(S)
  BY FS_Subset DEF CapsAssumption
<1> QED
  BY <1>1 DEF Caps!Starts, Caps!Open, Caps!Labelled, Caps!OnBoard, Caps!LiveIn, Caps!Taken,
     Caps!StartedOn

\* A step that starts no row, and lets none that ended live again, counts no
\* row that was not counted.
LEMMA NothingIsAdded ==
    ASSUME CapsAssumption, CapsInv,
           \A r \in Rows :
              /\ row'[r].at = row[r].at
              /\ row[r].state = "ineligible" => row'[r].state = "ineligible"
              /\ row'[r].state \in Caps!Live => row[r].state \in Caps!Live
              /\ row'[r].sent => row[r].sent \/ row[r].state \in Caps!Live
    PROVE  AllDays' /\ AllSpans'
<1>1. \A d : /\ Caps!Starts(d)' \subseteq Caps!Starts(d) /\ Caps!Open(d)' \subseteq Caps!Open(d)
  BY DEF Caps!Starts, Caps!Open, Caps!StartedOn
<1>2. \A d, x : /\ Caps!Labelled(d, x)' \subseteq Caps!Labelled(d, x)
                /\ Caps!OnBoard(d, x)' \subseteq Caps!OnBoard(d, x)
  BY <1>1 DEF Caps!Labelled, Caps!OnBoard
<1>3. \A t, b : Caps!LiveIn(t, b)' \subseteq Caps!LiveIn(t, b)
  BY DEF Caps!LiveIn
<1>4. AllDays'
  <2> SUFFICES ASSUME NEW d
               PROVE  /\ Cardinality(Caps!Starts(d)') <= DailyCap
                      /\ \A l : Cardinality(Caps!Labelled(d, l)') <= EmployerCap
                      /\ \A b : Cardinality(Caps!OnBoard(d, b)') <= EmployerCap
    BY DEF AllDays
  <2>1. Cardinality(Caps!Starts(d)') <= DailyCap
    BY <1>1, Shrinks, SetsAreFinite DEF CapsInv, AllDays, CapsAssumption
  <2>2. ASSUME NEW x
        PROVE  /\ Cardinality(Caps!Labelled(d, x)') <= EmployerCap
               /\ Cardinality(Caps!OnBoard(d, x)') <= EmployerCap
    <3>1. /\ Cardinality(Caps!Labelled(d, x)) <= EmployerCap
          /\ Cardinality(Caps!OnBoard(d, x)) <= EmployerCap
      BY DEF CapsInv, AllDays
    <3>2. IsFiniteSet(Caps!Labelled(d, x)) /\ IsFiniteSet(Caps!OnBoard(d, x))
      BY SetsAreFinite
    <3>3. /\ Caps!Labelled(d, x)' \in SUBSET Caps!Labelled(d, x)
          /\ Caps!OnBoard(d, x)' \in SUBSET Caps!OnBoard(d, x)
      BY <1>2
    <3> QED BY <3>1, <3>2, <3>3, Shrinks DEF CapsAssumption
  <2> QED BY <2>1, <2>2
<1>5. AllSpans'
  BY <1>3, Shrinks, SetsAreFinite DEF CapsInv, AllSpans, CapsAssumption
<1> QED BY <1>4, <1>5

\* A claim adds its row to what the poll has counted, and to nothing else.
LEMMA ClaimKeeps ==
    ASSUME CapsAssumption, CapsInv, NEW q \in Rows, Caps!Claim(q)
    PROVE  AllDays' /\ AllSpans'
<1> DEFINE today == Caps!DayOf(clock)
<1>0. /\ row[q].at = Caps!Never /\ ~row[q].sent /\ row[q].state = "queued"
      /\ row'[q].at = clock /\ row'[q].state = "going" /\ ~row'[q].sent
      /\ \A r \in Rows \ {q} : row'[r] = row[r]
      /\ clock' = clock /\ clock \in Nat /\ marks' = marks /\ ~Caps!Held(q)
  BY DEF Caps!Claim, CapsInv, Caps!TypeOK, Caps!RowType, RowsAreWhole
<1>1. \A d :
         /\ d # today =>
               Caps!Starts(d)' \subseteq Caps!Starts(d) /\ Caps!Open(d)' \subseteq Caps!Open(d)
         /\ Caps!Starts(d)' \subseteq Caps!Starts(d) \cup {q}
         /\ Caps!Open(d)' \subseteq Caps!Open(d) \cup {q}
  BY <1>0 DEF Caps!Starts, Caps!Open, Caps!StartedOn, Caps!DayOf
<1>2. /\ Caps!Starts(today) = Caps!Counted /\ Caps!Open(today) \subseteq Caps!Reached
      /\ IsFiniteSet(Caps!Reached) /\ IsFiniteSet(Caps!Counted)
  <2>1. Caps!Starts(today) = Caps!Counted
    BY DEF Caps!Starts, Caps!Counted
  <2>2. Caps!Open(today) \subseteq Caps!Reached
    <3> SUFFICES ASSUME NEW r \in Rows, r \in Caps!Open(today) PROVE r \in Caps!Reached
      BY DEF Caps!Open, Caps!StartedOn
    <3>1. r \in Caps!StartedOn(Caps!DayOf(clock)) /\ (row[r].state \in Caps!Live \/ row[r].sent)
      BY DEF Caps!Open
    <3>2. row[r].state # "ineligible" /\ (row[r].state \in Caps!Ended => row[r].sent)
      BY <3>1 DEF CapsInv, RowsAreWhole, Caps!Live, Caps!Ended
    <3> QED BY <3>1, <3>2 DEF Caps!Reached, Caps!Counted
  <2>3. IsFiniteSet(Caps!Reached) /\ IsFiniteSet(Caps!Counted)
    BY FS_Subset DEF CapsAssumption, Caps!Reached, Caps!Counted, Caps!StartedOn
  <2> QED BY <2>1, <2>2, <2>3
<1>3. /\ Cardinality(Caps!Counted) < DailyCap
      /\ Cardinality({s \in Caps!Reached : Caps!SameEmployer(q, s)}) < EmployerCap
  BY <1>0, <1>2, SameCount, FS_CardinalityType, FS_Subset DEF Caps!Held, CapsAssumption
<1>4. ASSUME NEW d
      PROVE  /\ Cardinality(Caps!Starts(d)') <= DailyCap
             /\ \A l : Cardinality(Caps!Labelled(d, l)') <= EmployerCap
             /\ \A b : Cardinality(Caps!OnBoard(d, b)') <= EmployerCap
  <2>1. Cardinality(Caps!Starts(d)') <= DailyCap
    <3>1. CASE d # today
      BY <3>1, <1>1, Shrinks, SetsAreFinite DEF CapsInv, AllDays, CapsAssumption
    <3>2. CASE d = today
      BY <3>2, <1>1, <1>2, <1>3, GrowsByOne DEF CapsAssumption
    <3> QED BY <3>1, <3>2
  <2>2. ASSUME NEW l
        PROVE  Cardinality(Caps!Labelled(d, l)') <= EmployerCap
    <3>1. CASE d # today \/ Label[q] # l
      <4>1. Caps!Labelled(d, l)' \subseteq Caps!Labelled(d, l)
        BY <3>1, <1>1 DEF Caps!Labelled
      <4>2. Cardinality(Caps!Labelled(d, l)) <= EmployerCap /\ IsFiniteSet(Caps!Labelled(d, l))
        BY SetsAreFinite DEF CapsInv, AllDays
      <4> QED BY <4>1, <4>2, Shrinks DEF CapsAssumption
    <3>2. CASE d = today /\ Label[q] = l
      <4>1. Caps!Labelled(d, l)' \subseteq {s \in Caps!Reached : Caps!SameEmployer(q, s)} \cup {q}
        BY <3>2, <1>1, <1>2 DEF Caps!Labelled, Caps!SameEmployer
      <4>2. IsFiniteSet({s \in Caps!Reached : Caps!SameEmployer(q, s)})
        BY <1>2, FS_Subset
      <4> QED BY <4>1, <4>2, <1>3, GrowsByOne DEF CapsAssumption
    <3> QED BY <3>1, <3>2
  <2>3. ASSUME NEW b
        PROVE  Cardinality(Caps!OnBoard(d, b)') <= EmployerCap
    <3>1. CASE d # today \/ Board[q] # b
      <4>1. Caps!OnBoard(d, b)' \subseteq Caps!OnBoard(d, b)
        BY <3>1, <1>1 DEF Caps!OnBoard
      <4>2. Cardinality(Caps!OnBoard(d, b)) <= EmployerCap /\ IsFiniteSet(Caps!OnBoard(d, b))
        BY SetsAreFinite DEF CapsInv, AllDays
      <4> QED BY <4>1, <4>2, Shrinks DEF CapsAssumption
    <3>2. CASE d = today /\ Board[q] = b
      <4>1. Caps!OnBoard(d, b)' \subseteq {s \in Caps!Reached : Caps!SameEmployer(q, s)} \cup {q}
        BY <3>2, <1>1, <1>2 DEF Caps!OnBoard, Caps!SameEmployer
      <4>2. IsFiniteSet({s \in Caps!Reached : Caps!SameEmployer(q, s)})
        BY <1>2, FS_Subset
      <4> QED BY <4>1, <4>2, <1>3, GrowsByOne DEF CapsAssumption
    <3> QED BY <3>1, <3>2
  <2> QED BY <2>1, <2>2, <2>3
<1>5. ASSUME NEW t \in Int, NEW b \in Limited
      PROVE  Cardinality(Caps!LiveIn(t, b)') <= Limit
  <2>1. CASE Board[q] # b \/ ~(clock <= t)
    <3>1. Caps!LiveIn(t, b)' \subseteq Caps!LiveIn(t, b)
      BY <2>1, <1>0 DEF Caps!LiveIn
    <3> QED BY <3>1, Shrinks, SetsAreFinite DEF CapsInv, AllSpans, CapsAssumption
  <2>2. CASE Board[q] = b /\ clock <= t
    <3>1. Caps!LiveIn(t, b)' \subseteq Caps!Taken(b) \cup {q}
      <4> SUFFICES ASSUME NEW r \in Rows, r # q, r \in Caps!LiveIn(t, b)'
                   PROVE r \in Caps!Taken(b)
        BY DEF Caps!LiveIn
      <4>1. /\ Board[r] = b /\ row[r].at # Caps!Never /\ t - Span <= row[r].at
            /\ row[r].state \in Caps!Live /\ row[r].at \in Int
        BY <1>0 DEF Caps!LiveIn, CapsInv, Caps!TypeOK, Caps!RowType, Caps!Never
      <4>2. row[r].at >= clock - Span
        BY <4>1, <2>2, <1>0 DEF CapsAssumption
      <4> QED BY <4>1, <4>2 DEF Caps!Taken, Caps!Live, Caps!Ended
    <3>2. Cardinality(Caps!Taken(b)) < Limit
      <4>1. IsFiniteSet(Caps!Marked(b)) /\ IsFiniteSet(Caps!Taken(b))
        BY FS_Subset, SetsAreFinite DEF Caps!Marked, CapsInv
      <4>2. Cardinality(Caps!Marked(b)) \in Nat /\ Cardinality(Caps!Taken(b)) \in Nat
        BY <4>1, FS_CardinalityType
      <4> QED BY <4>2, <2>2, <1>0, SameCount DEF Caps!Held, Caps!LimitReached, CapsAssumption
    <3> QED BY <3>1, <3>2, GrowsByOne, SetsAreFinite DEF CapsAssumption
  <2> QED BY <2>1, <2>2
<1> QED BY <1>4, <1>5 DEF AllDays, AllSpans

\* Each step keeps the invariant: only a claim starts a row.
LEMMA CapsStepKeeps ==
    ASSUME CapsAssumption, CapsInv, [Caps!Next]_Caps!vars
    PROVE  CapsInv'
<1>0. CapsInv
  OBVIOUS
<1>1. ASSUME NEW q \in Rows, Caps!Claim(q)
      PROVE  CapsInv'
  <2>1. Caps!TypeOK'
    <3> DEFINE claimed == [row[q] EXCEPT !.state = "going", !.at = clock]
    <3>1. /\ clock \in Nat /\ clock' = clock /\ clock # Caps!Never
          /\ row \in [Rows -> Caps!RowType] /\ row' = [row EXCEPT ![q] = claimed]
      BY <1>1 DEF CapsInv, Caps!TypeOK, Caps!Claim, Caps!Never
    <3>2. claimed \in Caps!RowType /\ claimed.at = clock
      BY <3>1 DEF Caps!RowType, Caps!Live
    <3>3. /\ row' \in [Rows -> Caps!RowType] /\ row'[q].at = clock
          /\ \A r \in Rows \ {q} : row'[r] = row[r]
      BY <3>1, <3>2
    <3> QED BY <3>1, <3>3 DEF CapsInv, Caps!TypeOK
  <2>2. RowsAreWhole'
    BY <1>1 DEF CapsInv, Caps!TypeOK, Caps!RowType, RowsAreWhole, Caps!Claim
  <2>3. IsFiniteSet(marks)'
    BY <1>1 DEF CapsInv, Caps!Claim
  <2> QED BY <2>1, <2>2, <2>3, <1>1, ClaimKeeps DEF CapsInv
<1>2. ASSUME NEW q \in Rows,
             \/ Caps!Screen(q) \/ Caps!Skip(q) \/ Caps!Cancel(q) \/ Caps!Fail(q)
             \/ Caps!Press(q) \/ Caps!Arrive(q) \/ Caps!Deny(q)
      PROVE  CapsInv'
  <2>1. Caps!TypeOK'
    BY <1>2 DEF CapsInv, Caps!TypeOK, Caps!RowType, Caps!Screen, Caps!Skip, Caps!Cancel,
       Caps!Fail, Caps!Press, Caps!Arrive, Caps!Deny, Caps!Becomes, Caps!Live, Caps!Ended
  <2>2. RowsAreWhole'
    BY <1>2 DEF CapsInv, Caps!TypeOK, Caps!RowType, RowsAreWhole, Caps!Screen, Caps!Skip,
       Caps!Cancel, Caps!Fail, Caps!Press, Caps!Arrive, Caps!Deny, Caps!Becomes
  <2>3. IsFiniteSet(marks)'
    BY <1>2 DEF CapsInv, Caps!Screen, Caps!Skip, Caps!Cancel, Caps!Fail, Caps!Press,
       Caps!Arrive, Caps!Deny, Caps!Becomes
  <2>4. \A r \in Rows :
           /\ row'[r].at = row[r].at
           /\ row[r].state = "ineligible" => row'[r].state = "ineligible"
           /\ row'[r].state \in Caps!Live => row[r].state \in Caps!Live
           /\ row'[r].sent => row[r].sent \/ row[r].state \in Caps!Live
    BY <1>2 DEF CapsInv, Caps!TypeOK, Caps!RowType, Caps!Screen, Caps!Skip, Caps!Cancel,
       Caps!Fail, Caps!Press, Caps!Arrive, Caps!Deny, Caps!Becomes, Caps!Live
  <2> QED BY <2>1, <2>2, <2>3, <2>4, NothingIsAdded DEF CapsInv
<1>3. ASSUME row' = row, clock' \in Nat, clock <= clock', IsFiniteSet(marks)'
      PROVE  CapsInv'
  <2>1. Caps!TypeOK' /\ RowsAreWhole'
    BY <1>3 DEF CapsInv, Caps!TypeOK, Caps!RowType, RowsAreWhole, Caps!Never
  <2>2. AllDays' /\ AllSpans'
    BY <1>3, NothingIsAdded
  <2> QED BY <2>1, <2>2, <1>3 DEF CapsInv
<1>4. ASSUME NEW b \in Limited, Caps!Mark(b)
      PROVE  CapsInv'
  <2>1. IsFiniteSet(marks)'
    BY <1>4, FS_AddElement DEF Caps!Mark, CapsInv
  <2> QED BY <2>1, <1>3, <1>4 DEF Caps!Mark, CapsInv, Caps!TypeOK
<1>5. CASE Caps!Tick
  BY <1>5, <1>3 DEF Caps!Tick, CapsInv, Caps!TypeOK
<1>6. CASE UNCHANGED Caps!vars
  BY <1>6, <1>3 DEF Caps!vars, CapsInv, Caps!TypeOK
<1> QED BY <1>1, <1>2, <1>4, <1>5, <1>6 DEF Caps!Next

LEMMA CapsBegin ==
    ASSUME CapsAssumption, Caps!Init
    PROVE  CapsInv
<1>1. Caps!TypeOK /\ RowsAreWhole /\ IsFiniteSet(marks)
  BY FS_EmptySet DEF Caps!Init, Caps!TypeOK, Caps!RowType, RowsAreWhole, Caps!Live, Caps!Ended,
     Caps!Never
<1>2. /\ \A d : Caps!Starts(d) = {} /\ Caps!Open(d) = {}
      /\ \A d, x : Caps!Labelled(d, x) = {} /\ Caps!OnBoard(d, x) = {}
      /\ \A t, b : Caps!LiveIn(t, b) = {}
  BY DEF Caps!Init, Caps!Starts, Caps!Open, Caps!Labelled, Caps!OnBoard, Caps!LiveIn,
     Caps!StartedOn
<1>3. AllDays /\ AllSpans
  BY <1>2, FS_EmptySet DEF AllDays, AllSpans, CapsAssumption
<1> QED BY <1>1, <1>3 DEF CapsInv

\* However many rows, employers and days there are and whatever the caps: no
\* poll, and nothing that happens to a row after it, takes a day, an employer
\* or an employer's span over its cap (discovery.ts capHeld,
\* employerLimitReached, counted again inside the claim).
THEOREM CapsHold ==
    ASSUME CapsAssumption
    PROVE  Caps!Spec => [](Caps!TypeOK /\ Caps!CapsKept)
<1>1. Caps!Init => CapsInv
  BY CapsBegin
<1>2. CapsInv /\ [Caps!Next]_Caps!vars => CapsInv'
  BY CapsStepKeeps
<1>3. CapsInv => Caps!TypeOK /\ Caps!CapsKept
  BY SameCount DEF CapsInv, Caps!TypeOK, AllDays, AllSpans, Caps!CapsKept, Caps!DayIsKept,
     Caps!EmployerIsKept, Caps!LimitIsKept
<1> QED BY <1>1, <1>2, <1>3, PTL DEF Caps!Spec
=============================================================================
