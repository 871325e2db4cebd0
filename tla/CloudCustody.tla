---------------------------- MODULE CloudCustody ----------------------------
(***************************************************************************)
(* The upload of a key to the cloud and its deletion there (upload.rs):    *)
(* metadata, a native dialog, for an upload a lease from the vault, then   *)
(* an intent and its consumption under the bearer captured at the start.   *)
(*                                                                         *)
(* Requests run on pool threads, while sessions change, the vault locks,   *)
(* local keys are imported and deleted, other clients of the tenant change *)
(* the cloud, and every exchange can fail.  The vault is what KeyShelf     *)
(* promises of it (VaultStore implements that); the cloud does at most     *)
(* what the intent names, as the fingerprint sent with both calls asks.    *)
(***************************************************************************)
EXTENDS KeyShelf, Naturals

CONSTANTS Requests, \* request_cloud_upload and request_cloud_delete calls
          MaxEpoch  \* bound on the auth epochs explored

ASSUME CustodyAssumption == None \notin Principals \cup Keys /\ MaxEpoch \in Nat

VARIABLES
    session, \* AuthMemory.session: its principal
    epoch,   \* AuthMemory.session_epoch
    cloud,   \* key the cloud holds for each slot, or None
    pc,      \* what each request does next
    req,     \* what it works on
    held     \* history: what the slot offered since the user agreed

authVars == <<session, epoch>>
vars == <<shelfVars, authVars, cloud, pc, req, held>>

Points == {"idle", "meta", "confirm", "lease", "intent", "consume"}

\* The action, the slot, snap.epoch, the key it names, and when the user agreed.
Request == [action : {"none", "upload", "delete"}, slot : Slots \cup {None},
            at : 0..MaxEpoch, key : Keys \cup {None}, agreed : 0..MaxEpoch]

NoRequest == [action |-> "none", slot |-> None, at |-> 0, key |-> None, agreed |-> 0]

Init ==
    /\ ShelfInit
    /\ session = None /\ epoch = 0
    /\ cloud = Nothing
    /\ pc = [r \in Requests |-> "idle"]
    /\ req = [r \in Requests |-> NoRequest]
    /\ held = [r \in Requests |-> {}]

----------------------------------------------------------------------------
(* The world around it.                                                    *)

\* A login, a login over a session, or the end of one.
ChangeSession ==
    /\ epoch < MaxEpoch
    /\ epoch' = epoch + 1
    /\ session' \in Principals \cup {None}
    /\ UNCHANGED <<shelfVars, cloud, pc, req, held>>

Agreed(r) == pc[r] \in {"lease", "intent", "consume"}

\* The vault opens, locks, and changes under the hands of its owner.
Vault ==
    /\ ShelfNext
    /\ held' = [r \in Requests |->
                  IF Agreed(r) THEN held[r] \cup {offered'[req[r].slot]} ELSE {}]
    /\ UNCHANGED <<authVars, cloud, pc, req>>

OtherClient ==
    /\ \E s \in Slots, k \in Keys \cup {None} : cloud' = [cloud EXCEPT ![s] = k]
    /\ UNCHANGED <<shelfVars, authVars, pc, req, held>>

----------------------------------------------------------------------------
(* perform_cloud_upload and perform_cloud_delete.                          *)

MutantLeasesBeforeConsent(r) ==
    CASE pc[r] = "meta"    -> IF req[r].action = "upload" THEN "lease" ELSE "confirm"
      [] pc[r] = "lease"   -> "confirm"
      [] pc[r] = "confirm" -> "intent"
      [] pc[r] = "intent"  -> "consume"

\* The trust order: metadata, consent, lease, intent, consumption.
Following(r) ==
    CASE pc[r] = "meta"    -> "confirm"
      [] pc[r] = "confirm" -> IF req[r].action = "upload" THEN "lease" ELSE "intent"
      [] pc[r] = "lease"   -> "intent"
      [] pc[r] = "intent"  -> "consume"

\* The request ends, with an error or an answer.
Finish(r) ==
    /\ pc' = [pc EXCEPT ![r] = "idle"]
    /\ req' = [req EXCEPT ![r] = NoRequest]
    /\ held' = [held EXCEPT ![r] = {}]

\* session_binding_current: the same principal under the same epoch.
Current(r) == session = req[r].slot[1] /\ epoch = req[r].at

\* require_snapshot_current: on with what the step learned, or the end.
Proceed(r, learned) ==
    /\ Current(r)
    /\ pc' = [pc EXCEPT ![r] = Following(r)]
    /\ req' = [req EXCEPT ![r] = learned]

MutantAnonymous == TRUE

SignedIn == session # None

Begin(r) ==
    /\ pc[r] = "idle"
    /\ SignedIn
    /\ \E a \in {"upload", "delete"}, i \in Ids :
           req' = [req EXCEPT ![r] = [NoRequest EXCEPT !.action = a, !.slot = <<session, i>>,
                                                      !.at = epoch]]
    /\ pc' = [pc EXCEPT ![r] = "meta"]
    /\ UNCHANGED <<shelfVars, authVars, cloud, held>>

\* An upload wants nothing there, a deletion the fingerprint of what is there.
Wanted(r) == (req[r].action = "upload") = (cloud[req[r].slot] = None)

FetchMeta(r) ==
    /\ pc[r] = "meta"
    /\ \/ Wanted(r) /\ Proceed(r, [req[r] EXCEPT !.key = cloud[req[r].slot]]) /\ UNCHANGED held
       \/ Finish(r)
    /\ UNCHANGED <<shelfVars, authVars, cloud>>

\* The dialog is answered: with the token and the checkbox, or not.
Confirm(r) ==
    /\ pc[r] = "confirm"
    /\ \/ /\ Proceed(r, [req[r] EXCEPT !.agreed = epoch])
          /\ held' = [held EXCEPT ![r] = {offered[req[r].slot]}]
       \/ Finish(r)
    /\ UNCHANGED <<shelfVars, authVars, cloud>>

\* lease_for_ssh, then the fingerprint and the plain PEM of the key.
Lease(r) ==
    /\ pc[r] = "lease"
    /\ \/ /\ openFor = req[r].slot[1] /\ offered[req[r].slot] # None
          /\ Proceed(r, [req[r] EXCEPT !.key = offered[req[r].slot]])
          /\ UNCHANGED held
       \/ Finish(r)
    /\ UNCHANGED <<shelfVars, authVars, cloud>>

\* create_intent names the action and the fingerprint; sent without another look
\* at the session, its answer is worth nothing in another one.
Intent(r) ==
    /\ pc[r] = "intent"
    /\ \/ Proceed(r, req[r]) /\ UNCHANGED held
       \/ Finish(r)
    /\ UNCHANGED <<shelfVars, authVars, cloud>>

MutantUnnamedDelete(r) == IF req[r].action = "upload" THEN req[r].key ELSE cloud[req[r].slot]

\* The key both calls name by its fingerprint.
Named(r) == req[r].key

\* The cloud acts on the intent or refuses; the answer may be lost either way.
Consume(r) ==
    /\ pc[r] = "consume"
    /\ \/ UNCHANGED cloud
       \/ /\ req[r].action = "upload"
          /\ cloud' = [cloud EXCEPT ![req[r].slot] = Named(r)]
       \/ /\ req[r].action = "delete" /\ cloud[req[r].slot] = Named(r)
          /\ cloud' = [cloud EXCEPT ![req[r].slot] = None]
    /\ Finish(r)
    /\ UNCHANGED <<shelfVars, authVars>>

----------------------------------------------------------------------------
Step(r) ==
    Begin(r) \/ FetchMeta(r) \/ Confirm(r) \/ Lease(r) \/ Intent(r) \/ Consume(r)

Next ==
    \/ ChangeSession \/ Vault \/ OtherClient
    \/ \E r \in Requests : Step(r)

Spec == Init /\ [][Next]_vars

----------------------------------------------------------------------------
(* Properties.                                                             *)

\* Every variable stays in its domain.
TypeOK ==
    /\ openFor \in Principals \cup {None}
    /\ offered \in [Slots -> Keys \cup {None}]
    /\ may \in [Slots -> SUBSET (Keys \cup {None})]
    /\ session \in Principals \cup {None} /\ epoch \in 0..MaxEpoch
    /\ cloud \in [Slots -> Keys \cup {None}]
    /\ pc \in [Requests -> Points]
    /\ req \in [Requests -> Request]
    /\ held \in [Requests -> SUBSET (Keys \cup {None})]

\* Nothing is asked of the cloud on a consent given in another session, though
\* the dialog stays open while sessions come and go, and the key an upload sends
\* is one the vault offered after the consent: a key deleted while the user was
\* still being asked never leaves the device.
ConsentCoversKey ==
    \A r \in Requests : pc[r] \in {"intent", "consume"} =>
        /\ req[r].agreed = req[r].at
        /\ req[r].action = "upload" => req[r].key \in held[r]

\* A request changes the cloud for the principal it began with and no other: an
\* upload to a key agreed to, a deletion only of the key its metadata showed,
\* whatever another request or client has put there since.
CloudChangesAsAgreed ==
    [][\A r \in Requests : pc[r] = "consume" /\ pc'[r] = "idle" =>
          \A s \in Slots : cloud'[s] = cloud[s]
              \/ /\ s = req[r].slot
                 /\ \/ req[r].action = "upload" /\ cloud'[s] \in held[r] \cap Keys
                    \/ req[r].action = "delete" /\ cloud'[s] = None
                       /\ cloud[s] = req[r].key]_vars
============================================================================
