------------------------------- MODULE Pairing -------------------------------
(* Pairing a worker program with an applicant's account: the grant made in   *)
(* the browser (createPairing, revokePairing, listWorkers), its one use on   *)
(* the server (pairWorker of lib/applications/pairing.ts) and the program's  *)
(* own side (pairWorker of worker/pairing.ts), which keeps its metadata in a *)
(* file and the token in the keychain, may stop between any two writes, and  *)
(* may lose or delay a request or its answer.                                *)
(*                                                                           *)
(* One worker identity; the token made for a grant is named by the grant,    *)
(* and the token of a bundle made again for the same grant differs from it.  *)
(* Not modelled: the keychain's own failures, the rate limit, and the        *)
(* revision of a command, which the server compares before each revocation.  *)
EXTENDS Naturals, FiniteSets

CONSTANTS Grants, Foreign,       \* grants there can be, and those of another applicant
          MaxSends, MaxChanges, MaxFaults

VARIABLES grant,    \* grant -> its row on the server
          worker,   \* the registration on the server
          binding,  \* which credentials of the applicant are in force
          meta,     \* the program's pairing metadata on disk
          vault,    \* its bundle in the keychain
          proc,     \* the command "pair" under way
          net,      \* requests that may still reach the server
          made,     \* bundles made so far, so that each token is new
          told,     \* tokens whose bundle a refusal removed (history)
          spent

vars == <<grant, worker, binding, meta, vault, proc, net, made, told, spent>>

NoGrant == "none"
NoBundle == [token |-> 0, grant |-> NoGrant]
NoWorker == [token |-> 0, grant |-> NoGrant, binding |-> 0, live |-> FALSE]
Off == [at |-> "off", answer |-> "none"]

Init == /\ grant = [g \in Grants |-> [state |-> "unborn", binding |-> 0]]
        /\ worker = NoWorker /\ binding = 1
        /\ meta = "none" /\ vault = NoBundle /\ proc = Off
        /\ net = {} /\ made = 0 /\ told = {}
        /\ spent = [sends |-> 0, changes |-> 0, faults |-> 0]

program == <<meta, vault, proc, net, made, told>>

-----------------------------------------------------------------------------
(* The server and the browser.                                               *)
CreatePairing(g) ==
    /\ grant[g].state = "unborn"
    /\ grant' = [grant EXCEPT ![g] = [state |-> "open", binding |-> binding]]
    /\ UNCHANGED <<worker, binding, program, spent>>

(* Another passcode or secret, or the one before again.                      *)
ChangeBinding ==
    /\ spent.changes < MaxChanges
    /\ binding' = 3 - binding
    /\ spent' = [spent EXCEPT !.changes = @ + 1]
    /\ UNCHANGED <<grant, worker, program>>

Expire(g) == /\ grant[g].state = "open" /\ grant' = [grant EXCEPT ![g].state = "expired"]
             /\ UNCHANGED <<worker, binding, program, spent>>

(* invalidateWorker, invalidatePairing: for good, and both together.         *)
Invalid(g) == [grant EXCEPT ![g].state = "revoked"]
Dead(w) == [w EXCEPT !.live = FALSE]

RevokePairing(g) ==
    /\ grant[g].state \in {"open", "used", "expired"}
    /\ grant' = Invalid(g)
    /\ worker' = IF worker.grant = g THEN Dead(worker) ELSE worker
    /\ UNCHANGED <<binding, program, spent>>

(* currentWorker: any request under the token, or the list in the browser,   *)
(* finds the credentials changed.                                            *)
Sweep ==
    /\ \/ /\ worker.live /\ worker.binding # binding
          /\ grant' = Invalid(worker.grant) /\ worker' = Dead(worker)
       \/ \E g \in Grants : /\ grant[g].state \in {"open", "expired"}
                            /\ grant[g].binding # binding
                            /\ grant' = Invalid(g) /\ UNCHANGED worker
    /\ UNCHANGED <<binding, program, spent>>

(* Mutant of Refuses: the error is thrown, so that the revocation is undone. *)
RefusesOnly(g) == grant' = grant /\ worker' = worker
Refuses(g) == /\ grant' = Invalid(g)
              /\ worker' = IF worker.grant = g THEN Dead(worker) ELSE worker

(* Mutant of Registered: a registration is not found again by its grant.     *)
RegisteredNever(r) == FALSE
Registered(r) == worker.grant = r.grant

Free(r) == grant[r.grant].state = "open"

(* pairWorker on the server: what the request comes to.                      *)
Judged(r, answer) ==
    \/ /\ r.grant \in Foreign \/ grant[r.grant].state = "revoked"
       /\ answer = "refused" /\ UNCHANGED <<grant, worker>>
    \/ /\ r.grant \notin Foreign /\ grant[r.grant].state # "revoked"
       /\ grant[r.grant].binding # binding
       /\ answer = "refused" /\ Refuses(r.grant)
    \/ /\ r.grant \notin Foreign /\ grant[r.grant].state # "revoked"
       /\ grant[r.grant].binding = binding
       /\ \/ /\ Registered(r) /\ UNCHANGED <<grant, worker>>
             /\ answer = IF worker.token = r.token THEN "paired" ELSE "refused"
          \/ /\ ~Registered(r) /\ (~Free(r) \/ worker # NoWorker)
             /\ answer = "refused" /\ UNCHANGED <<grant, worker>>
          \/ /\ ~Registered(r) /\ Free(r) /\ worker = NoWorker
             /\ answer = "paired"
             /\ grant' = [grant EXCEPT ![r.grant].state = "used"]
             /\ worker' = [token |-> r.token, grant |-> r.grant, binding |-> binding,
                           live |-> TRUE]

(* A request arrives: in time for its answer to be heard, or after that.     *)
Arrive(r) ==
    /\ r \in net
    /\ \E answer \in {"paired", "refused"} :
         /\ Judged(r, answer)
         /\ \/ /\ proc.at = "asked" /\ proc.answer = "none" /\ r.sent = spent.sends
               /\ proc' = [proc EXCEPT !.answer = answer]
            \/ proc' = proc
    /\ net' = net \ {r}
    /\ UNCHANGED <<binding, meta, vault, made, told, spent>>

-----------------------------------------------------------------------------
(* The command "pair", under the lock of the program's store.                *)
Begin ==
    /\ proc = Off
    /\ IF meta = "paired"
       THEN /\ vault # NoBundle
            /\ vault' = [vault EXCEPT !.grant = NoGrant]
            /\ vault' # vault /\ UNCHANGED <<meta, proc>>
       ELSE /\ meta' = "pending" /\ UNCHANGED vault
            /\ proc' = [Off EXCEPT !.at = IF vault = NoBundle THEN "prompt" ELSE "ready"]
    /\ UNCHANGED <<grant, worker, binding, net, made, told, spent>>

Type(g) ==
    /\ proc.at = "prompt" /\ grant[g].state # "unborn"
    /\ made' = made + 1 /\ vault' = [token |-> made + 1, grant |-> g]
    /\ proc' = [proc EXCEPT !.at = "ready"]
    /\ UNCHANGED <<grant, worker, binding, meta, net, told, spent>>

Send ==
    /\ proc.at = "ready" /\ vault.grant # NoGrant /\ spent.sends < MaxSends
    /\ spent' = [spent EXCEPT !.sends = @ + 1]
    /\ net' = net \cup {[sent |-> spent.sends + 1, grant |-> vault.grant, token |-> vault.token]}
    /\ proc' = [proc EXCEPT !.at = "asked"]
    /\ UNCHANGED <<grant, worker, binding, meta, vault, made, told>>

(* A definite refusal removes the bundle, so that the next "pair" asks.      *)
Refused ==
    /\ proc.at = "asked" /\ proc.answer = "refused"
    /\ vault' = NoBundle /\ told' = told \cup {vault.token} /\ proc' = Off
    /\ UNCHANGED <<grant, worker, binding, meta, net, made, spent>>

(* Mutant of FirstOf: the grant is removed before the file says paired.      *)
FirstOfVault == "vault"
FirstOf == "meta"
Paired ==
    /\ \/ proc.at = "asked" /\ proc.answer = "paired"
       \/ proc.at = "half"
    /\ LET half == proc.at = "asked" IN
       /\ IF half = (FirstOf = "meta")
          THEN meta' = "paired" /\ UNCHANGED vault
          ELSE vault' = [vault EXCEPT !.grant = NoGrant] /\ UNCHANGED meta
       /\ proc' = IF half THEN [proc EXCEPT !.at = "half"] ELSE Off
    /\ UNCHANGED <<grant, worker, binding, net, made, told, spent>>

(* No answer in time, an error of the server, a stop of the program.         *)
Fails ==
    /\ proc # Off /\ spent.faults < MaxFaults
    /\ proc' = Off
    /\ spent' = [spent EXCEPT !.faults = @ + 1]
    /\ UNCHANGED <<grant, worker, binding, meta, vault, net, made, told>>

Next ==
    \/ \E g \in Grants : CreatePairing(g) \/ Expire(g) \/ RevokePairing(g) \/ Type(g)
    \/ ChangeBinding \/ Sweep \/ Begin \/ Send \/ Refused \/ Paired \/ Fails
    \/ \E r \in net : Arrive(r)

Spec == Init /\ [][Next]_vars

-----------------------------------------------------------------------------
(* Rows, bundle and command are what the code can hold.                      *)
TypeOK ==
    /\ \A g \in Grants : grant[g].state \in {"unborn", "open", "used", "expired", "revoked"}
    /\ meta \in {"none", "pending", "paired"}
    /\ vault.token \in 0..made /\ vault.grant \in Grants \cup {NoGrant}
    /\ proc.at \in {"off", "prompt", "ready", "asked", "half"}

(* A live registration is never beyond its program's reach: the token it was *)
(* made with is in the keychain, whatever was lost, late or refused.         *)
NoOrphan == worker.live => vault.token = worker.token

(* A program that says it is paired holds a token the server has registered, *)
(* and one that does not say so can still go on: its bundle has its grant.   *)
PairedCanWork ==
    /\ meta = "paired" => vault # NoBundle /\ vault.token = worker.token
    /\ meta = "pending" /\ vault # NoBundle => vault.grant # NoGrant

(* A grant registers one worker at most, and only while it is good.          *)
GrantIsUsedOnce ==
    /\ worker.live => grant[worker.grant].state = "used"
    /\ worker.grant \notin Foreign
    /\ \A g \in Grants : grant[g].state = "used" => worker.grant = g

PairingIsSound == NoOrphan /\ PairedCanWork /\ GrantIsUsedOnce

(* "A definite refusal ... never registered anything"                        *)
(* (worker/pairing.ts): the token of a bundle a refusal removed was never    *)
(* registered.                                                               *)
RefusedNeverRegistered == worker.token \notin told \/ worker.token = 0
=============================================================================
