----------------------------- MODULE VaultStore -----------------------------
(***************************************************************************)
(* What the vault holds (vault.rs): secrets and the index that lists them, *)
(* in memory while the vault is open, in an encrypted snapshot and the     *)
(* file of its salt on disk.  An operation changes the secret, then the    *)
(* index, then saves; every one of the three can fail, and the process can *)
(* stop at any moment.                                                     *)
(*                                                                         *)
(* One handler at a time: VaultGate shows that the gate and `inner` see to *)
(* that.  So an operation on an open vault is one step that says how far   *)
(* it got; an initialisation and a reset, whose halves a crash can part,   *)
(* are several.  The password is always the right one, and a save of the   *)
(* snapshot replaces it whole or not at all.                               *)
(***************************************************************************)
EXTENDS Naturals, FiniteSets

CONSTANTS Principals, \* verified identities: the namespaces of the store
          Ids,        \* credential ids
          Keys,       \* private keys
          Salts,      \* random salts
          None

ASSUME StoreAssumption == None \notin Principals \cup Keys \cup Salts

\* make_key: the namespace of the principal, then the credential id.
Slots == Principals \X Ids

\* A file that is not there, and a salt file cut short by a write that failed.
NoFile == None
Short  == "short"

VARIABLES
    salt,     \* the salt file
    snapshot, \* the snapshot file: what it holds and the salt of its key, or NoFile
    memory,   \* UnlockedState.stronghold: the same, or NoFile when Locked
    openFor,  \* UnlockedState.principal, or None when Locked
    session,  \* AuthMemory.session: its principal
    stage,    \* where an initialisation or a reset is
    may       \* history: what each slot may hold, given the answers so far

files == <<salt, snapshot>>
vault == <<memory, openFor>>
vars  == <<files, vault, session, stage, may>>

Contents == [secrets : [Slots -> Keys \cup {None}], index : SUBSET Slots, salt : Salts]

\* A file that is not there has no content.
ASSUME FileAssumption == NoFile \notin Contents

Init ==
    /\ salt = NoFile /\ snapshot = NoFile
    /\ memory = NoFile /\ openFor = None
    /\ session = None
    /\ stage = "ready"
    /\ may = [s \in Slots |-> {None}]

----------------------------------------------------------------------------
(* The session, and the process.                                           *)

Login(p) ==
    /\ session' = p
    /\ UNCHANGED <<files, vault, stage, may>>

\* The process ends without a word: what is on disk is all there is.
Crash ==
    /\ memory' = NoFile /\ openFor' = None
    /\ session' = None
    /\ stage' = "ready"
    /\ UNCHANGED <<files, may>>

----------------------------------------------------------------------------
(* init_with_password and unlock_with_password.                            *)

\* Neither a snapshot nor the salt of one: nothing to overwrite.
Uninitialized == snapshot = NoFile /\ salt = NoFile

\* The salt goes first; a write that fails can leave a part of it.
WriteSalt ==
    /\ stage = "ready"
    /\ Uninitialized
    /\ \/ salt' \in Salts /\ stage' = "salted"
       \/ salt' \in {NoFile, Short} /\ UNCHANGED stage
    /\ UNCHANGED <<snapshot, vault, session, may>>

Blank(x) == [secrets |-> [s \in Slots |-> None], index |-> {}, salt |-> x]

\* A key from the salt, an empty store with its index, and the first save; the
\* vault is left locked.  Any of it can fail.
SaveBlank ==
    /\ stage = "salted"
    /\ stage' = "ready"
    /\ \/ snapshot' = Blank(salt) /\ memory' = NoFile /\ openFor' = None
       \/ UNCHANGED <<snapshot, vault>>
    /\ UNCHANGED <<salt, session, may>>

MutantAnonymous == TRUE

SignedIn == session # None

\* The snapshot opens only with the salt it was saved under.
Unlock ==
    /\ stage = "ready"
    /\ SignedIn /\ openFor = None
    /\ snapshot # NoFile /\ salt = snapshot.salt
    /\ memory' = snapshot
    /\ openFor' = session
    /\ UNCHANGED <<files, session, stage, may>>

----------------------------------------------------------------------------
(* seal_vault and reset_local.                                             *)

\* seal_vault saves what is in memory, ignores whether that worked, and drops it.
SealVault ==
    /\ snapshot' \in {snapshot} \cup ({memory} \ {NoFile})
    /\ memory' = NoFile /\ openFor' = None

\* A lock, an idle or sleep seal, a cutoff, an observed change of identity.
Lock ==
    /\ stage = "ready"
    /\ SealVault
    /\ session' \in {session, None}
    /\ UNCHANGED <<salt, stage, may>>

BeginReset ==
    /\ stage = "ready"
    /\ ~Uninitialized
    /\ SealVault
    /\ stage' = "sealed"
    /\ UNCHANGED <<salt, session, may>>

\* The snapshot is deleted before the salt.
RemoveFiles ==
    \/ stage = "sealed" /\ snapshot' = NoFile /\ stage' = "desnapshotted"
       /\ may' = [s \in Slots |-> {None}] /\ UNCHANGED salt
    \/ stage = "desnapshotted" /\ salt' = NoFile /\ stage' = "ready" /\ UNCHANGED <<snapshot, may>>

Remove == RemoveFiles /\ UNCHANGED <<vault, session>>

\* One of the two files cannot be deleted.
RemoveFails ==
    /\ stage \in {"sealed", "desnapshotted"}
    /\ stage' = "ready"
    /\ UNCHANGED <<files, vault, session, may>>

----------------------------------------------------------------------------
(* import_pem and delete_local.                                            *)

\* How far a change of the store got: a step of it fails, or it is saved.
Reached == {"nothing", "secret", "index", "saved"}

Past(r, step) == CASE step = "secret" -> r # "nothing"
                   [] step = "index"  -> r \in {"index", "saved"}

MutantNeverUnlists(s, v) == memory.index \cup {s}

\* A key is stored and listed, None is deleted and unlisted.
Listing(s, v) == IF v = None THEN memory.index \ {s} ELSE memory.index \cup {s}

MutantIgnoresSave(r) == r \in {"index", "saved"}

\* The answer is OK only if all of it worked.
Acknowledged(r) == r = "saved"

Change(s, v) == \E r \in Reached :
    /\ memory' = [memory EXCEPT !.secrets[s] = IF Past(r, "secret") THEN v ELSE @,
                                !.index = IF Past(r, "index") THEN Listing(s, v) ELSE @]
    /\ snapshot' = IF r = "saved" THEN memory' ELSE snapshot
    /\ may' = [may EXCEPT ![s] = IF Acknowledged(r) THEN {v} ELSE @ \cup {v}]
    /\ UNCHANGED <<salt, openFor, session, stage>>

MayChange(s) == stage = "ready" /\ openFor = s[1] /\ session = s[1]

Import(s, k) == MayChange(s) /\ Change(s, k)

\* A deletion of what is not in the store is refused.
Stored(s) == memory.secrets[s] # None

Delete(s) == MayChange(s) /\ Stored(s) /\ Change(s, None)

----------------------------------------------------------------------------
(* lease_for_ssh                                                           *)

\* A lease needs the slot in the index and its secret in the store.
Leased(s) == IF s \in memory.index THEN memory.secrets[s] ELSE None

----------------------------------------------------------------------------
Next ==
    \/ \E p \in Principals : Login(p)
    \/ Crash
    \/ WriteSalt \/ SaveBlank \/ Unlock
    \/ Lock \/ BeginReset \/ Remove \/ RemoveFails
    \/ \E s \in Slots : Delete(s) \/ \E k \in Keys : Import(s, k)

Spec == Init /\ [][Next]_vars

----------------------------------------------------------------------------
(* Properties.                                                             *)

\* Every variable stays in its domain, and an open vault has an owner.
TypeOK ==
    /\ salt \in Salts \cup {NoFile, Short}
    /\ snapshot = NoFile \/ snapshot \in Contents
    /\ memory = NoFile \/ memory \in Contents
    /\ openFor \in Principals \cup {None} /\ (openFor = None <=> memory = NoFile)
    /\ session \in Principals \cup {None}
    /\ stage \in {"ready", "salted", "sealed", "desnapshotted"}
    /\ may \in [Slots -> SUBSET (Keys \cup {None})]

\* Whenever the process stops, in an initialisation, a save, a reset or one that
\* failed, a snapshot on disk lies beside the salt that opens it: a vault that is
\* there can be unlocked, and what is left of one that is not holds no key.
SnapshotOpens == snapshot # NoFile => salt = snapshot.salt

\* The last change of a slot failed: what it holds is not known.
Unsettled(s) == Cardinality(may[s]) > 1

\* The index lists exactly the slots that hold a secret, in memory and on disk,
\* except where the last change of a slot was reported as failed: no key is kept
\* that the user was told is deleted, and none is listed that is not there, which
\* would cost its principal the whole list (list_meta fails closed).
IndexMatchesSecrets ==
    \A c \in {memory, snapshot} \ {NoFile} : \A s \in Slots :
        (s \in c.index <=> c.secrets[s] # None) \/ Unsettled(s)

\* What is on disk can be opened, and what is listed can be leased.
StoreConsistent == SnapshotOpens /\ IndexMatchesSecrets

Shelf == INSTANCE KeyShelf
    WITH offered <- [s \in Slots |-> IF memory = NoFile THEN None ELSE Leased(s)]

\* An import or a deletion the vault acknowledged is what every later lease finds,
\* over locks, crashes, restarts and failed changes of other keys, until a reset.
ImplementsKeyShelf == Shelf!ShelfSpec
============================================================================
