--------------------------- MODULE VaultStoreProofs ---------------------------
(***************************************************************************)
(* Proofs about VaultStore for every set of principals, of credentials, of *)
(* keys and of salts; the refinement of KeyShelf among them.               *)
(***************************************************************************)
EXTENDS VaultStore, FiniteSetTheorems, TLAPS

\* What a lease gets from contents c.
Offer(c, s) == IF s \in c.index THEN c.secrets[s] ELSE None

Matches(c, s) == s \in c.index <=> c.secrets[s] # None

\* Nobody was told which of two values the slot holds.
Undecided(s) == \E x, y \in may[s] : x # y

\* Where an initialisation or a reset is, the files are as it left them; an open vault has
\* both, and nobody resets it.
StageInv ==
    /\ stage = "salted" => salt \in Salts /\ snapshot = NoFile
    /\ stage \in {"sealed", "desnapshotted"} => memory = NoFile
    /\ stage = "desnapshotted" => snapshot = NoFile
    /\ memory # NoFile => snapshot # NoFile

\* Without a snapshot there is no key.
EmptyInv == snapshot = NoFile => may = [s \in Slots |-> {None}]

\* Memory and snapshot belong to the salt on disk.
SaltInv ==
    /\ memory # NoFile => salt = memory.salt
    /\ snapshot # NoFile => salt = snapshot.salt

\* c offers what it may, and lists what it holds unless the last change of a slot failed.
Sound(c, s) ==
    /\ Offer(c, s) \in may[s]
    /\ Matches(c, s) \/ Undecided(s)

ContentInv == \A s \in Slots :
    /\ memory # NoFile => Sound(memory, s)
    /\ snapshot # NoFile => Sound(snapshot, s)

FiniteInv == \A s \in Slots : IsFiniteSet(may[s])

IInv == TypeOK /\ StageInv /\ EmptyInv /\ SaltInv /\ ContentInv /\ FiniteInv

----------------------------------------------------------------------------
(* The operators the steps are built from.                                 *)

\* Two members make a set unsettled.
LEMMA TwoMembers ==
    ASSUME NEW S, IsFiniteSet(S), NEW x \in S, NEW y \in S, x # y
    PROVE  Cardinality(S) > 1
<1>1. /\ IsFiniteSet({x, y}) /\ Cardinality({x, y}) = 2
  <2>1. Cardinality({x}) = 1 /\ IsFiniteSet({x})
      BY FS_Singleton
  <2>2. {x, y} = {x} \cup {y} /\ y \notin {x}
      OBVIOUS
  <2> QED
      BY <2>1, <2>2, FS_AddElement
<1>2. Cardinality({x, y}) <= Cardinality(S)
    BY FS_Subset
<1>3. Cardinality(S) \in Nat
    BY FS_CardinalityType
<1> QED
    BY <1>1, <1>2, <1>3

\* What a change of slot s to v makes of the contents in memory, by how far it got.
LEMMA ChangeMemory ==
    ASSUME memory \in Contents, NEW s \in Slots, NEW v \in Keys \cup {None}, Change(s, v)
    PROVE  \E r \in Reached :
              /\ memory' \in Contents
              /\ memory'.salt = memory.salt
              /\ memory'.secrets = IF r # "nothing" THEN [memory.secrets EXCEPT ![s] = v]
                                   ELSE memory.secrets
              /\ memory'.index = IF r \in {"index", "saved"} THEN Listing(s, v)
                                 ELSE memory.index
              /\ snapshot' = IF r = "saved" THEN memory' ELSE snapshot
              /\ may' = [may EXCEPT ![s] = IF r = "saved" THEN {v} ELSE @ \cup {v}]
<1>1. PICK r \in Reached :
        /\ memory' = [memory EXCEPT !.secrets[s] = IF Past(r, "secret") THEN v ELSE @,
                                    !.index = IF Past(r, "index") THEN Listing(s, v) ELSE @]
        /\ snapshot' = IF r = "saved" THEN memory' ELSE snapshot
        /\ may' = [may EXCEPT ![s] = IF Acknowledged(r) THEN {v} ELSE @ \cup {v}]
    BY DEF Change
<1> DEFINE secrets == [memory.secrets EXCEPT ![s] = IF r # "nothing" THEN v ELSE @]
           index == IF r \in {"index", "saved"} THEN Listing(s, v) ELSE memory.index
<1>2. memory' = [memory EXCEPT !.secrets = secrets, !.index = index]
    BY <1>1 DEF Past, Contents
<1>3. memory.secrets \in [Slots -> Keys \cup {None}] /\ memory.index \subseteq Slots
    BY DEF Contents
<1>4. secrets \in [Slots -> Keys \cup {None}] /\ index \subseteq Slots
    BY <1>3 DEF Listing
<1>5. /\ memory' \in Contents
      /\ memory'.salt = memory.salt /\ memory'.secrets = secrets /\ memory'.index = index
    BY <1>2, <1>4 DEF Contents
<1>6. secrets = IF r # "nothing" THEN [memory.secrets EXCEPT ![s] = v] ELSE memory.secrets
    BY <1>3
<1> QED
    BY <1>1, <1>5, <1>6 DEF Acknowledged

----------------------------------------------------------------------------
(* The inductive invariant.                                                *)

\* The invariant holds at the start ...
LEMMA InvInit == Init => IInv
BY FS_Singleton
   DEF Init, IInv, TypeOK, StageInv, EmptyInv, SaltInv, ContentInv, FiniteInv, NoFile

\* A change of a slot of the open vault.
LEMMA ChangeStep ==
    ASSUME IInv, NEW s \in Slots, NEW v \in Keys \cup {None}, MayChange(s), memory # NoFile,
           Change(s, v)
    PROVE  IInv'
<1> USE DEF IInv
<1>1. memory \in Contents
    BY DEF TypeOK
<1>2. PICK r \in Reached :
              /\ memory' \in Contents
              /\ memory'.salt = memory.salt
              /\ memory'.secrets = IF r # "nothing" THEN [memory.secrets EXCEPT ![s] = v]
                                   ELSE memory.secrets
              /\ memory'.index = IF r \in {"index", "saved"} THEN Listing(s, v)
                                 ELSE memory.index
              /\ snapshot' = IF r = "saved" THEN memory' ELSE snapshot
              /\ may' = [may EXCEPT ![s] = IF r = "saved" THEN {v} ELSE @ \cup {v}]
    BY <1>1, ChangeMemory
<1>3. /\ memory.secrets \in [Slots -> Keys \cup {None}] /\ memory.index \subseteq Slots
      /\ may \in [Slots -> SUBSET (Keys \cup {None})]
    BY <1>1 DEF Contents, TypeOK
<1>4. UNCHANGED <<salt, openFor, session, stage>> /\ memory' # NoFile /\ snapshot' # NoFile
    BY <1>2, FileAssumption DEF Change, StageInv
<1>5. TypeOK'
    BY <1>2, <1>3, <1>4 DEF TypeOK
<1>6. StageInv' /\ EmptyInv'
    BY <1>4 DEF StageInv, EmptyInv
<1>7. SaltInv'
    BY <1>2, <1>4 DEF SaltInv
<1>8. ASSUME NEW t \in Slots
      PROVE  IsFiniteSet(may'[t])
  <2>1. may'[t] = may[t] \/ may'[t] = {v} \/ may'[t] = may[t] \cup {v}
      BY <1>2, <1>3
  <2>2. IsFiniteSet({v}) /\ IsFiniteSet(may[t])
      BY FS_Singleton DEF FiniteInv
  <2>3. IsFiniteSet(may[t] \cup {v})
      BY <2>2, FS_AddElement
  <2> QED
      BY <2>1, <2>2, <2>3
<1>9. ASSUME NEW t \in Slots
      PROVE  Sound(memory, t)' /\ Sound(snapshot, t)'
  <2>1. Sound(memory, t) /\ Sound(snapshot, t)
      BY DEF ContentInv, StageInv
  <2>2. CASE t # s
    <3>1. /\ may'[t] = may[t] /\ memory'.secrets[t] = memory.secrets[t]
          /\ t \in memory'.index <=> t \in memory.index
        BY <1>2, <1>3, <2>2 DEF Listing
    <3> QED
        BY <1>2, <2>1, <3>1 DEF Sound, Offer, Matches, Undecided
  <2>3. CASE t = s /\ r = "saved"
    <3>1. may'[s] = {v} /\ memory'.secrets[s] = v /\ snapshot' = memory'
        BY <1>2, <1>3, <2>3
    <3>2. s \in memory'.index <=> v # None
        BY <1>2, <2>3 DEF Listing
    <3> QED
        BY <2>3, <3>1, <3>2 DEF Sound, Offer, Matches
  <2>4. CASE t = s /\ r # "saved"
    <3>1. may'[s] = may[s] \cup {v} /\ snapshot' = snapshot
        BY <1>2, <1>3, <2>4
    <3>2. memory'.secrets[s] \in {memory.secrets[s], v}
        BY <1>2, <1>3
    <3>3. Offer(memory, s)' \in may'[s]
      <4>1. CASE r = "nothing"
          BY <1>2, <2>1, <2>4, <3>1, <4>1 DEF Sound, Offer
      <4>2. CASE r = "secret"
          BY <1>2, <1>3, <2>1, <2>4, <3>1, <4>2 DEF Sound, Offer
      <4>3. CASE r = "index"
          BY <1>2, <1>3, <2>4, <3>1, <4>3 DEF Offer, Listing
      <4> QED
          BY <2>4, <4>1, <4>2, <4>3 DEF Reached
    <3>4. Undecided(s) => Undecided(s)'
        BY <3>1 DEF Undecided
    <3>5. CASE Undecided(s)'
        BY <2>1, <2>4, <3>1, <3>3, <3>5 DEF Sound, Offer
    <3>6. CASE ~Undecided(s)'
      <4>1. Matches(memory, s) /\ Matches(snapshot, s)
          BY <2>1, <2>4, <3>4, <3>6 DEF Sound
      <4>2. v = Offer(memory, s)
          BY <2>1, <2>4, <3>1, <3>6 DEF Sound, Undecided
      <4>3. v = memory.secrets[s] /\ (s \in memory.index <=> v # None)
          BY <4>1, <4>2 DEF Offer, Matches
      <4>4. Matches(memory, s)'
          BY <1>2, <1>3, <4>3 DEF Matches, Listing
      <4> QED
          BY <2>1, <2>4, <3>1, <3>3, <4>1, <4>4 DEF Sound, Offer, Matches
    <3> QED
        BY <3>5, <3>6
  <2> QED
      BY <2>2, <2>3, <2>4
<1> QED
    BY <1>5, <1>6, <1>7, <1>8, <1>9 DEF ContentInv, FiniteInv

\* A vault that is sealed leaves a snapshot of what it held, or the last one.
LEMMA SealStep ==
    ASSUME IInv, SealVault, stage = "ready", UNCHANGED <<salt, may>>,
           session' \in {session, None}, stage' \in {"ready", "sealed"}
    PROVE  IInv'
<1> USE DEF IInv
<1>1. snapshot' = snapshot \/ (snapshot' = memory /\ memory # NoFile)
    BY DEF SealVault
<1>2. memory' = NoFile /\ openFor' = None
    BY DEF SealVault
<1>3. TypeOK'
    BY <1>1, <1>2 DEF TypeOK
<1>4. StageInv' /\ EmptyInv'
    BY <1>1, <1>2 DEF StageInv, EmptyInv
<1>5. SaltInv'
    BY <1>1, <1>2 DEF SaltInv
<1>6. ContentInv' /\ FiniteInv'
    BY <1>1, <1>2 DEF ContentInv, FiniteInv, Sound, Offer, Matches, Undecided
<1> QED
    BY <1>3, <1>4, <1>5, <1>6

\* Every step keeps the invariant.
LEMMA InvStep == IInv /\ [Next]_vars => IInv'
<1> SUFFICES ASSUME IInv, [Next]_vars
             PROVE  IInv'
    OBVIOUS
<1> USE StoreAssumption, FileAssumption DEF IInv, files, vault
<1> USE DEF StageInv, EmptyInv, SaltInv, ContentInv, FiniteInv, Sound, Offer, Matches, Undecided
<1>1. ASSUME NEW p \in Principals, Login(p)
      PROVE  IInv'
    BY <1>1 DEF Login, TypeOK
<1>2. CASE Crash
    BY <1>2 DEF Crash, TypeOK
<1>3. CASE WriteSalt
    BY <1>3 DEF WriteSalt, Uninitialized, TypeOK, NoFile
<1>4. CASE SaveBlank
  <2>1. CASE UNCHANGED <<snapshot, vault>>
      BY <1>4, <2>1 DEF SaveBlank, TypeOK
  <2>2. CASE snapshot' = Blank(salt) /\ memory' = NoFile /\ openFor' = None
    <3>1. salt \in Salts /\ may = [s \in Slots |-> {None}] /\ UNCHANGED <<salt, session, may>>
          /\ stage' = "ready"
        BY <1>4 DEF SaveBlank
    <3>2. /\ Blank(salt) \in Contents /\ Blank(salt).salt = salt /\ Blank(salt).index = {}
          /\ Blank(salt).secrets = [s \in Slots |-> None]
        BY <3>1 DEF Blank, Contents
    <3>3. TypeOK'
        BY <2>2, <3>1, <3>2 DEF TypeOK
    <3>4. StageInv' /\ EmptyInv' /\ SaltInv'
        BY <2>2, <3>1, <3>2
    <3>5. ContentInv' /\ FiniteInv'
        BY <2>2, <3>1, <3>2
    <3> QED
        BY <3>3, <3>4, <3>5
  <2> QED
      BY <1>4, <2>1, <2>2 DEF SaveBlank
<1>5. CASE Unlock
    BY <1>5 DEF Unlock, SignedIn, TypeOK
<1>6. CASE Lock
    BY <1>6, SealStep DEF Lock
<1>7. CASE BeginReset
    BY <1>7, SealStep DEF BeginReset
<1>8. CASE Remove
  <2>1. CASE stage = "sealed"
    <3>1. /\ snapshot' = NoFile /\ stage' = "desnapshotted" /\ memory' = NoFile
          /\ may' = [s \in Slots |-> {None}] /\ UNCHANGED <<salt, memory, openFor, session>>
        BY <1>8, <2>1 DEF Remove, RemoveFiles
    <3>2. TypeOK'
        BY <3>1 DEF TypeOK
    <3>3. FiniteInv'
        BY <3>1, FS_Singleton
    <3> QED
        BY <3>1, <3>2, <3>3
  <2>2. CASE stage = "desnapshotted"
      BY <1>8, <2>2 DEF Remove, RemoveFiles, TypeOK
  <2> QED
      BY <1>8, <2>1, <2>2 DEF Remove, RemoveFiles
<1>9. CASE RemoveFails
    BY <1>9 DEF RemoveFails, TypeOK
<1>10. ASSUME NEW s \in Slots, NEW v \in Keys \cup {None}, MayChange(s), Change(s, v)
       PROVE  IInv'
  <2>1. memory # NoFile
      BY <1>10 DEF MayChange, TypeOK, Slots
  <2> QED
      BY <1>10, <2>1, ChangeStep
<1>11. CASE UNCHANGED vars
    BY <1>11 DEF vars, TypeOK
<1> QED
    BY <1>1, <1>2, <1>3, <1>4, <1>5, <1>6, <1>7, <1>8, <1>9, <1>10, <1>11
    DEF Next, Import, Delete

\* ... and for ever.
LEMMA Invariance == Spec => []IInv
BY InvInit, InvStep, PTL DEF Spec

----------------------------------------------------------------------------
(* The invariants.                                                         *)

\* Every variable stays in its domain, and an open vault has an owner.
THEOREM StoreTypeCorrect == Spec => []TypeOK
<1>1. IInv => TypeOK
    BY DEF IInv
<1> QED
    BY <1>1, Invariance, PTL

\* Whenever the process stops, a snapshot lies beside its salt, and what is listed is there.
THEOREM StoreIsConsistent == Spec => []StoreConsistent
<1>1. ASSUME IInv, NEW c \in {memory, snapshot} \ {NoFile}, NEW s \in Slots
      PROVE  (s \in c.index <=> c.secrets[s] # None) \/ Unsettled(s)
  <2>1. Matches(c, s) \/ Undecided(s)
      BY <1>1 DEF IInv, ContentInv, Sound
  <2>2. Undecided(s) => Unsettled(s)
      BY <1>1, TwoMembers DEF IInv, FiniteInv, Undecided, Unsettled
  <2> QED
      BY <2>1, <2>2 DEF Matches
<1>2. IInv => SnapshotOpens
    BY DEF IInv, SaltInv, SnapshotOpens
<1>3. IInv => StoreConsistent
    BY <1>1, <1>2 DEF StoreConsistent, IndexMatchesSecrets
<1> QED
    BY <1>3, Invariance, PTL

----------------------------------------------------------------------------
(* The refinement of KeyShelf.                                             *)

Offered == [s \in Slots |-> IF memory = NoFile THEN None ELSE Leased(s)]

\* The mapped variable, now ...
LEMMA OfferedIs ==
    /\ memory = NoFile => Offered = [s \in Slots |-> None]
    /\ memory # NoFile => Offered = [s \in Slots |-> Offer(memory, s)]
BY DEF Offered, Leased, Offer

\* ... and after a step.
LEMMA OfferedNext ==
    /\ memory' = NoFile => Offered' = [s \in Slots |-> None]
    /\ memory' # NoFile => Offered' = [s \in Slots |-> Offer(memory', s)]
BY DEF Offered, Leased, Offer, NoFile

\* A vault that was closed and opened nothing leaves the shelf closed.
LEMMA ShelfCloses ==
    ASSUME memory' = NoFile, openFor' = None, UNCHANGED may
    PROVE  Shelf!Close
BY OfferedNext DEF Shelf!Close, Shelf!Nothing, Shelf!Slots, Slots, Offered

\* A change of a slot settles it, or is an attempt to.
LEMMA ShelfChanges ==
    ASSUME IInv, IInv', NEW s \in Slots, NEW v \in Keys \cup {None}, MayChange(s),
           Change(s, v)
    PROVE  Shelf!Settle(s, v) \/ Shelf!Attempt(s, v)
<1> USE DEF IInv
<1>1. memory \in Contents /\ memory # NoFile
    BY StoreAssumption DEF MayChange, TypeOK, Slots
<1>2. PICK r \in Reached :
              /\ memory' \in Contents
              /\ memory'.salt = memory.salt
              /\ memory'.secrets = IF r # "nothing" THEN [memory.secrets EXCEPT ![s] = v]
                                   ELSE memory.secrets
              /\ memory'.index = IF r \in {"index", "saved"} THEN Listing(s, v)
                                 ELSE memory.index
              /\ snapshot' = IF r = "saved" THEN memory' ELSE snapshot
              /\ may' = [may EXCEPT ![s] = IF r = "saved" THEN {v} ELSE @ \cup {v}]
    BY <1>1, ChangeMemory
<1>3. memory' # NoFile
    BY <1>2, FileAssumption
<1>4. memory.secrets \in [Slots -> Keys \cup {None}]
    BY <1>1 DEF Contents
<1>5. \A t \in Slots : t # s => Offer(memory', t) = Offer(memory, t)
    BY <1>2, <1>4 DEF Offer, Listing
<1>6. Offered' = [Offered EXCEPT ![s] = Offer(memory', s)]
    BY <1>1, <1>3, <1>5, OfferedIs, OfferedNext
<1>7. openFor = s[1] /\ UNCHANGED openFor
    BY DEF MayChange, Change
<1>8. CASE r = "saved"
  <2>1. Offer(memory', s) = v
      BY <1>2, <1>4, <1>8 DEF Offer, Listing
  <2> QED
      BY <1>2, <1>6, <1>7, <1>8, <2>1 DEF Shelf!Settle, Offered
<1>9. CASE r # "saved"
  <2>1. Offer(memory', s) \in may'[s]
      BY <1>3 DEF ContentInv, Sound, Offer
  <2> QED
      BY <1>2, <1>6, <1>7, <1>9, <2>1 DEF Shelf!Attempt, Offered
<1> QED
    BY <1>8, <1>9

\* Every step of the store is one of the shelf, or none.
LEMMA ShelfStep == IInv /\ IInv' /\ [Next]_vars => [Shelf!ShelfNext]_(Shelf!shelfVars)
<1> SUFFICES ASSUME IInv, IInv', [Next]_vars
             PROVE  [Shelf!ShelfNext]_(Shelf!shelfVars)
    OBVIOUS
<1> USE DEF IInv, files, vault
<1>1. ASSUME UNCHANGED <<memory, openFor, may>>
      PROVE  UNCHANGED Shelf!shelfVars
    BY <1>1 DEF Shelf!shelfVars, Leased
<1>2. ASSUME memory' = NoFile, openFor' = None, UNCHANGED may
      PROVE  Shelf!ShelfNext
    BY <1>2, ShelfCloses DEF Shelf!ShelfNext
<1>3. ASSUME NEW p \in Principals, Login(p)
      PROVE  UNCHANGED Shelf!shelfVars
    BY <1>1, <1>3 DEF Login
<1>4. CASE Crash \/ Lock \/ BeginReset
    BY <1>2, <1>4 DEF Crash, Lock, BeginReset, SealVault
<1>5. CASE WriteSalt \/ RemoveFails
    BY <1>1, <1>5 DEF WriteSalt, RemoveFails
<1>6. CASE SaveBlank
    BY <1>1, <1>2, <1>6 DEF SaveBlank
<1>7. CASE Unlock
  <2>1. /\ openFor = None /\ openFor' \in Principals /\ openFor' = session /\ UNCHANGED may
        /\ memory' = snapshot /\ snapshot # NoFile
      BY <1>7 DEF Unlock, SignedIn, TypeOK
  <2>2. Offered' = [s \in Slots |-> Offer(snapshot, s)]
      BY <2>1, OfferedNext
  <2>3. \A s \in Slots : Offer(snapshot, s) \in may[s]
      BY <2>1 DEF ContentInv, Sound
  <2>4. may \in [Slots -> SUBSET (Keys \cup {None})]
      BY DEF TypeOK
  <2>5. Offered' \in [Slots -> Keys \cup {None}] /\ \A s \in Slots : Offered'[s] \in may[s]
      BY <2>2, <2>3, <2>4
  <2>6. Shelf!Open(session)
      BY <2>1, <2>5 DEF Shelf!Open, Shelf!Slots, Slots, Offered
  <2> QED
      BY <2>1, <2>6 DEF Shelf!ShelfNext
<1>8. CASE Remove
  <2>1. CASE stage = "sealed"
    <3>1. /\ memory = NoFile /\ openFor = None /\ UNCHANGED <<memory, openFor>>
          /\ may' = [s \in Slots |-> {None}]
        BY <1>8, <2>1 DEF Remove, RemoveFiles, StageInv, TypeOK
    <3>2. UNCHANGED Offered
        BY <3>1, OfferedIs, OfferedNext
    <3>3. Shelf!Wipe
        BY <3>1, <3>2 DEF Shelf!Wipe, Shelf!Slots, Slots, Offered
    <3> QED
        BY <3>3 DEF Shelf!ShelfNext
  <2>2. CASE stage = "desnapshotted"
      BY <1>1, <1>8, <2>2 DEF Remove, RemoveFiles
  <2> QED
      BY <1>8, <2>1, <2>2 DEF Remove, RemoveFiles
<1>9. ASSUME NEW s \in Slots, NEW v \in Keys \cup {None}, MayChange(s), Change(s, v)
      PROVE  Shelf!ShelfNext
    BY <1>9, ShelfChanges DEF Shelf!ShelfNext, Shelf!Slots, Slots
<1>10. CASE UNCHANGED vars
    BY <1>1, <1>10 DEF vars
<1> QED
    BY <1>3, <1>4, <1>5, <1>6, <1>7, <1>8, <1>9, <1>10 DEF Next, Import, Delete

\* The store keeps the promise of the shelf: an acknowledged import or deletion is what
\* every later lease finds, over locks, crashes, restarts and failed changes, until a reset.
THEOREM StoreImplementsShelf == Spec => ImplementsKeyShelf
<1>1. Init => Shelf!ShelfInit
    BY OfferedIs DEF Init, Shelf!ShelfInit, Shelf!Nothing, Shelf!Slots, Slots, Offered
<1> QED
    BY <1>1, ShelfStep, Invariance, PTL DEF Spec, ImplementsKeyShelf, Shelf!ShelfSpec
============================================================================
