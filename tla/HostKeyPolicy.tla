--------------------------- MODULE HostKeyPolicy ---------------------------
(***************************************************************************)
(* Which host key a local terminal accepts (ssh_session.rs): an open call  *)
(* reads the server's pin from the cloud, and when the host presents its   *)
(* key, seconds later, either compares it with that pin or asks the user,  *)
(* pins it in the cloud and records it on disk.                            *)
(*                                                                         *)
(* One server.  Opens run at once and can be tried again; sessions change  *)
(* and the pin in the cloud moves meanwhile; each write can fail, also     *)
(* after it was done.  Of checks of the session with nothing between them  *)
(* the last one stands for all: an epoch that is still current was.        *)
(***************************************************************************)
EXTENDS Naturals

CONSTANTS Opens,        \* open calls, each on the thread of its transport
          Principals,   \* who signs in
          Keys,         \* host keys: type and fingerprint
          MaxEpoch,     \* bound on the auth epochs explored
          MaxRotations, \* bound on the changes of the pin by other clients
          None

ASSUME PolicyAssumption ==
    /\ None \notin Principals \cup Keys
    /\ {MaxEpoch, MaxRotations} \subseteq Nat

VARIABLES
    session,   \* principal of AuthMemory.session
    epoch,     \* AuthMemory.session_epoch
    cloud_pin, \* the pin of the server, in the cloud
    rotations, \* changes of it by other clients
    local_pin, \* file of each principal's known-hosts namespace
    pc,        \* what each open call does next
    who,       \* PreparedSshTarget.principal
    at,        \* PreparedSshTarget.session_epoch
    pin,       \* PreparedSshTarget.host_key_*
    presented, \* key of the host
    held,      \* history: what the cloud held since the open call read it
    lapsed     \* history: the session ended while the user was being asked

authVars   == <<session, epoch>>
cloudVars  == <<cloud_pin, rotations, held>>
targetVars == <<who, at, pin, presented>>
vars == <<authVars, cloudVars, local_pin, pc, targetVars, lapsed>>

Points == {"idle", "fetch", "prepare", "connect", "check", "dialog", "confirmed", "cloud",
           "written", "record", "recorded", "accepted", "failed"}

Init ==
    /\ session = None /\ epoch = 0
    /\ cloud_pin = None /\ rotations = 0
    /\ local_pin = [p \in Principals |-> None]
    /\ pc = [o \in Opens |-> "idle"]
    /\ who = [o \in Opens |-> None] /\ at = [o \in Opens |-> 0]
    /\ pin = [o \in Opens |-> None] /\ presented = [o \in Opens |-> None]
    /\ held = [o \in Opens |-> {}]
    /\ lapsed = [o \in Opens |-> FALSE]

Goto(o, point) == pc' = [pc EXCEPT ![o] = point]

\* session_binding_current: the same principal under the same epoch.
Current(o) == session = who[o] /\ epoch = at[o]

\* require_snapshot_current
Revalidate(o, point) == Goto(o, IF Current(o) THEN point ELSE "failed")

----------------------------------------------------------------------------
(* The world around it.                                                    *)

\* A login, a login over a session, or the end of one.
ChangeSession ==
    /\ epoch < MaxEpoch
    /\ epoch' = epoch + 1
    /\ session' \in Principals \cup {None}
    /\ lapsed' = [o \in Opens |-> lapsed[o] \/ pc[o] = "dialog"]
    /\ UNCHANGED <<cloudVars, local_pin, pc, targetVars>>

SetPin(key) ==
    /\ cloud_pin' = key
    /\ held' = [o \in Opens |-> IF pc[o] \in {"idle", "fetch", "failed"} THEN held[o]
                                ELSE held[o] \cup {key}]

\* Somebody else pins, rotates or clears the key.
Rotate ==
    /\ rotations < MaxRotations
    /\ rotations' = rotations + 1
    /\ \E key \in (Keys \cup {None}) \ {cloud_pin} : SetPin(key)
    /\ UNCHANGED <<authVars, local_pin, pc, targetVars, lapsed>>

----------------------------------------------------------------------------
(* prepare_local_ssh_open                                                  *)

MutantAnonymous == TRUE

SignedIn == session # None

TakeSnapshot(o) ==
    /\ pc[o] = "idle"
    /\ SignedIn
    /\ who' = [who EXCEPT ![o] = session] /\ at' = [at EXCEPT ![o] = epoch]
    /\ lapsed' = [lapsed EXCEPT ![o] = FALSE]
    /\ Goto(o, "fetch")
    /\ UNCHANGED <<authVars, cloudVars, local_pin, pin, presented>>

FetchMetadata(o) ==
    /\ pc[o] = "fetch"
    /\ \/ /\ pin' = [pin EXCEPT ![o] = cloud_pin]
          /\ held' = [held EXCEPT ![o] = {cloud_pin}]
          /\ Goto(o, "prepare")
       \/ Goto(o, "failed") /\ UNCHANGED <<pin, held>>
    /\ UNCHANGED <<authVars, cloud_pin, rotations, local_pin, who, at, presented, lapsed>>

Prepare(o) ==
    /\ pc[o] = "prepare"
    /\ Revalidate(o, "connect")
    /\ UNCHANGED <<authVars, cloudVars, local_pin, targetVars, lapsed>>

----------------------------------------------------------------------------
(* verify_server_host_key, called back when the host presents its key.     *)

Connect(o) ==
    /\ pc[o] = "connect"
    /\ \/ \E key \in Keys : /\ presented' = [presented EXCEPT ![o] = key]
                            /\ Goto(o, "check")
       \/ Goto(o, "failed") /\ UNCHANGED presented
    /\ UNCHANGED <<authVars, cloudVars, local_pin, who, at, pin, lapsed>>

Matches(o) == presented[o] = pin[o]

\* evaluate_host_key: a pin is compared, and without one the user is asked.
Evaluate(o) ==
    /\ pc[o] = "check"
    /\ IF ~Current(o) THEN Goto(o, "failed")
       ELSE IF pin[o] = None THEN Goto(o, "dialog")
       ELSE Goto(o, IF Matches(o) THEN "record" ELSE "failed")
    /\ UNCHANGED <<authVars, cloudVars, local_pin, targetVars, lapsed>>

UserAnswers(o) ==
    /\ pc[o] = "dialog"
    /\ Goto(o, "confirmed") \/ Goto(o, "failed")
    /\ UNCHANGED <<authVars, cloudVars, local_pin, targetVars, lapsed>>

MutantTrustsAnswer(o) == Goto(o, "cloud")

AfterDialog(o) == Revalidate(o, "cloud")

Confirmed(o) ==
    /\ pc[o] = "confirmed"
    /\ AfterDialog(o)
    /\ UNCHANGED <<authVars, cloudVars, local_pin, targetVars, lapsed>>

MutantIgnoresCloud(o) == Goto(o, "written")

CloudFails(o) == Goto(o, "failed")

\* The cloud pins a key only where there is none (expected_fingerprint is null).  The
\* request may fail after the pin was set.
WriteCloud(o) ==
    /\ pc[o] = "cloud"
    /\ \/ cloud_pin = None /\ SetPin(presented[o]) /\ (Goto(o, "written") \/ CloudFails(o))
       \/ CloudFails(o) /\ UNCHANGED <<cloud_pin, held>>
    /\ UNCHANGED <<authVars, rotations, local_pin, targetVars, lapsed>>

Written(o) ==
    /\ pc[o] = "written"
    /\ Revalidate(o, "record")
    /\ UNCHANGED <<authVars, cloudVars, local_pin, targetVars, lapsed>>

MutantSessionNow(o) == session

\* local_known_hosts_namespace of the principal the open call was prepared for.
Namespace(o) == who[o]

RecordFails(o) == Goto(o, "failed")

\* record_host_key replaces the file by a rename; its mode is set after that, which can
\* fail too.
Record(o) ==
    /\ pc[o] = "record"
    /\ \/ /\ local_pin' = [local_pin EXCEPT ![Namespace(o)] = presented[o]]
          /\ Goto(o, "recorded") \/ RecordFails(o)
       \/ RecordFails(o) /\ UNCHANGED local_pin
    /\ UNCHANGED <<authVars, cloudVars, targetVars, lapsed>>

Recorded(o) ==
    /\ pc[o] = "recorded"
    /\ Revalidate(o, "accepted")
    /\ UNCHANGED <<authVars, cloudVars, local_pin, targetVars, lapsed>>

\* The terminal ends, or the call that failed is made again.
Again(o) ==
    /\ pc[o] \in {"accepted", "failed"}
    /\ Goto(o, "idle")
    /\ held' = [held EXCEPT ![o] = {}]
    /\ UNCHANGED <<authVars, cloud_pin, rotations, local_pin, targetVars, lapsed>>

Open(o) ==
    \/ TakeSnapshot(o) \/ FetchMetadata(o) \/ Prepare(o) \/ Connect(o) \/ Evaluate(o)
    \/ UserAnswers(o) \/ Confirmed(o) \/ WriteCloud(o) \/ Written(o) \/ Record(o)
    \/ Recorded(o) \/ Again(o)

Next == ChangeSession \/ Rotate \/ \E o \in Opens : Open(o)

Spec == Init /\ [][Next]_vars

----------------------------------------------------------------------------
(* Properties.                                                             *)

\* Every variable stays in its domain, and a call under way has a principal.
TypeOK ==
    /\ session \in Principals \cup {None} /\ epoch \in Nat
    /\ cloud_pin \in Keys \cup {None} /\ rotations \in Nat
    /\ local_pin \in [Principals -> Keys \cup {None}]
    /\ pc \in [Opens -> Points]
    /\ who \in [Opens -> Principals \cup {None}] /\ at \in [Opens -> Nat]
    /\ pin \in [Opens -> Keys \cup {None}] /\ presented \in [Opens -> Keys \cup {None}]
    /\ held \in [Opens -> SUBSET (Keys \cup {None})]
    /\ lapsed \in [Opens -> BOOLEAN]
    /\ \A o \in Opens : pc[o] # "idle" => who[o] # None

\* A terminal runs only on a key that the cloud held at some moment between the call's
\* reading of the pin and its acceptance: of two users who confirm different keys of one
\* unpinned server, one gets no terminal, and neither does one whose pin was refused.
AcceptedWasPinned ==
    \A o \in Opens : pc[o] = "accepted" => presented[o] \in held[o]

\* Nothing is recorded on disk before the cloud holds it, nor for anybody but the
\* principal whose call it was, though that one may have signed out by then.
RecordsFollowCloud ==
    [][\A p \in Principals :
          local_pin'[p] # local_pin[p] =>
              \E o \in Opens : who[o] = p /\ pc[o] = "record" /\ local_pin'[p] \in held[o]]_vars

\* The answer to a question asked in one session pins nothing in another, however long
\* the dialog stays open and whoever signs in meanwhile.
AnswersStayInSession ==
    \A o \in Opens :
        lapsed[o] => pc[o] \notin {"cloud", "written", "record", "recorded", "accepted"}

\* A terminal runs only if its user's known hosts have a record, though the pin in the
\* cloud may have been set by an earlier call that failed to write it.
AcceptedIsRecorded ==
    \A o \in Opens : pc[o] = "accepted" => local_pin[who[o]] # None

\* What a terminal runs on is pinned in the cloud and recorded on disk.
AcceptedStands == AcceptedWasPinned /\ AcceptedIsRecorded
============================================================================
