-------------------------- MODULE CloudCustodyProofs --------------------------
(***************************************************************************)
(* Proofs about CloudCustody for every set of requests, of principals, of  *)
(* credentials and of keys.                                                *)
(***************************************************************************)
EXTENDS CloudCustody, TLAPS

\* A request under way has an action and a slot.
SlotInv ==
    \A r \in Requests : pc[r] # "idle" =>
        req[r].slot \in Slots /\ req[r].action \in {"upload", "delete"}

\* From the consent on, the history has what the slot offers, and the consent is of the
\* session the request began in.
ConsentInv ==
    \A r \in Requests : Agreed(r) =>
        /\ req[r].agreed = req[r].at
        /\ offered[req[r].slot] \in held[r]

\* The key of an upload was leased after the consent.
LeaseInv ==
    \A r \in Requests : pc[r] \in {"intent", "consume"} /\ req[r].action = "upload" =>
        req[r].key \in held[r] /\ req[r].key \in Keys

IInv == TypeOK /\ SlotInv /\ ConsentInv /\ LeaseInv

----------------------------------------------------------------------------
(* The operators the steps are built from.                                 *)

\* What the vault does keeps its variables in their domains.
LEMMA ShelfType ==
    ASSUME TypeOK, ShelfNext
    PROVE  /\ openFor' \in Principals \cup {None}
           /\ offered' \in [Slots -> Keys \cup {None}]
           /\ may' \in [Slots -> SUBSET (Keys \cup {None})]
<1> USE DEF TypeOK, Nothing
<1>1. CASE \E p \in Principals : Open(p)
    BY <1>1 DEF Open
<1>2. CASE Close
    BY <1>2 DEF Close
<1>3. ASSUME NEW s \in Slots, NEW v \in Keys \cup {None}, Settle(s, v)
      PROVE  /\ openFor' \in Principals \cup {None}
             /\ offered' \in [Slots -> Keys \cup {None}]
             /\ may' \in [Slots -> SUBSET (Keys \cup {None})]
    BY <1>3 DEF Settle
<1>4. ASSUME NEW s \in Slots, NEW v \in Keys \cup {None}, Attempt(s, v)
      PROVE  /\ openFor' \in Principals \cup {None}
             /\ offered' \in [Slots -> Keys \cup {None}]
             /\ may' \in [Slots -> SUBSET (Keys \cup {None})]
    BY <1>4 DEF Attempt
<1>5. CASE Wipe
    BY <1>5 DEF Wipe
<1> QED
    BY <1>1, <1>2, <1>3, <1>4, <1>5 DEF ShelfNext

\* What a request begins with.
Opening(a, s) == [NoRequest EXCEPT !.action = a, !.slot = s, !.at = epoch]

LEMMA OpeningType ==
    ASSUME TypeOK, NEW a \in {"upload", "delete"}, NEW s \in Slots
    PROVE  /\ Opening(a, s) \in Request
           /\ Opening(a, s).slot = s /\ Opening(a, s).action = a
<1>1. NoRequest \in Request
    BY CustodyAssumption DEF NoRequest, Request
<1>2. a \in {"none", "upload", "delete"} /\ s \in Slots \cup {None} /\ epoch \in 0..MaxEpoch
    BY DEF TypeOK
<1> QED
    BY <1>1, <1>2 DEF Opening, Request

\* A request that ends is as one that never began.
LEMMA FinishType ==
    ASSUME TypeOK, NEW r \in Requests, Finish(r)
    PROVE  /\ pc' \in [Requests -> Points]
           /\ req' \in [Requests -> Request]
           /\ held' \in [Requests -> SUBSET (Keys \cup {None})]
BY CustodyAssumption DEF TypeOK, Finish, Points, Request, NoRequest

\* It leaves the invariants of a request to the others.
LEMMA FinishInv ==
    ASSUME IInv, NEW r \in Requests, Finish(r), UNCHANGED offered
    PROVE  SlotInv' /\ ConsentInv' /\ LeaseInv'
BY DEF IInv, TypeOK, SlotInv, ConsentInv, LeaseInv, Agreed, Finish, Points

\* A request goes on as the same one, with what its step learned.
LEMMA ProceedType ==
    ASSUME TypeOK, NEW r \in Requests, NEW learned \in Request, Proceed(r, learned),
           pc[r] \in {"meta", "confirm", "lease", "intent"}
    PROVE  /\ pc' \in [Requests -> Points]
           /\ req' \in [Requests -> Request]
BY DEF TypeOK, Proceed, Following, Points

----------------------------------------------------------------------------
(* The inductive invariant.                                                *)

\* The invariant holds at the start ...
LEMMA InvInit == Init => IInv
BY CustodyAssumption
   DEF Init, ShelfInit, Nothing, IInv, TypeOK, SlotInv, ConsentInv, LeaseInv, Agreed, Points,
       Request, NoRequest

\* Every step keeps every variable in its domain.
LEMMA TypeStep == IInv /\ [Next]_vars => TypeOK'
<1> SUFFICES ASSUME IInv, [Next]_vars
             PROVE  TypeOK'
    OBVIOUS
<1> USE CustodyAssumption DEF IInv, TypeOK, shelfVars, authVars
<1>1. CASE ChangeSession
    BY <1>1 DEF ChangeSession
<1>2. CASE Vault
    BY <1>2, ShelfType DEF Vault, SlotInv, Agreed
<1>3. CASE OtherClient
    BY <1>3 DEF OtherClient
<1>4. ASSUME NEW r \in Requests, Step(r)
      PROVE  TypeOK'
  <2>1. CASE Begin(r)
    <3>1. PICK a \in {"upload", "delete"}, i \in Ids :
              req' = [req EXCEPT ![r] = Opening(a, <<session, i>>)]
        BY <2>1 DEF Begin, Opening
    <3>2. Opening(a, <<session, i>>) \in Request
        BY <2>1, OpeningType DEF Begin, SignedIn, Slots
    <3> QED
        BY <2>1, <3>1, <3>2 DEF Begin, Points
  <2>2. CASE FetchMeta(r)
      BY <2>2, FinishType, ProceedType DEF FetchMeta, SlotInv, Request
  <2>3. CASE Confirm(r)
    <3>1. [req[r] EXCEPT !.agreed = epoch] \in Request
        BY DEF Request
    <3>2. offered[req[r].slot] \in Keys \cup {None}
        BY <2>3 DEF Confirm, SlotInv
    <3> QED
        BY <2>3, <3>1, <3>2, FinishType, ProceedType DEF Confirm
  <2>4. CASE Lease(r)
      BY <2>4, FinishType, ProceedType DEF Lease, SlotInv, Request
  <2>5. CASE Intent(r)
      BY <2>5, FinishType, ProceedType DEF Intent, SlotInv
  <2>6. CASE Consume(r)
      BY <2>6, FinishType DEF Consume, SlotInv, Request, Named
  <2> QED
      BY <1>4, <2>1, <2>2, <2>3, <2>4, <2>5, <2>6 DEF Step
<1>5. CASE UNCHANGED vars
    BY <1>5 DEF vars
<1> QED
    BY <1>1, <1>2, <1>3, <1>4, <1>5 DEF Next

\* A request knows its slot until it ends, its consent covers what the slot offers since,
\* and it leases after the consent.
LEMMA RequestStep == IInv /\ [Next]_vars => SlotInv' /\ ConsentInv' /\ LeaseInv'
<1> SUFFICES ASSUME IInv, [Next]_vars
             PROVE  SlotInv' /\ ConsentInv' /\ LeaseInv'
    OBVIOUS
<1> USE CustodyAssumption
    DEF IInv, TypeOK, SlotInv, ConsentInv, LeaseInv, Agreed, shelfVars, authVars
<1>1. CASE ChangeSession \/ OtherClient
    BY <1>1 DEF ChangeSession, OtherClient
<1>2. CASE Vault
    BY <1>2, ShelfType DEF Vault
<1>3. ASSUME NEW r \in Requests, Step(r)
      PROVE  SlotInv' /\ ConsentInv' /\ LeaseInv'
  <2>1. CASE Begin(r)
    <3>1. PICK a \in {"upload", "delete"}, i \in Ids :
              req' = [req EXCEPT ![r] = Opening(a, <<session, i>>)]
        BY <2>1 DEF Begin, Opening
    <3>2. /\ Opening(a, <<session, i>>).slot \in Slots
          /\ Opening(a, <<session, i>>).action = a
        BY <2>1, OpeningType DEF Begin, SignedIn, Slots
    <3> QED
        BY <2>1, <3>1, <3>2 DEF Begin
  <2>2. CASE Finish(r) /\ UNCHANGED offered
      BY <2>2, FinishInv
  <2>3. CASE FetchMeta(r) /\ ~Finish(r)
    <3> DEFINE learned == [req[r] EXCEPT !.key = cloud[req[r].slot]]
    <3>1. learned.slot = req[r].slot /\ learned.action = req[r].action
        BY DEF Request
    <3>2. req' = [req EXCEPT ![r] = learned] /\ pc' = [pc EXCEPT ![r] = "confirm"]
        BY <2>3 DEF FetchMeta, Proceed, Following
    <3> HIDE DEF learned
    <3> QED
        BY <2>3, <3>1, <3>2 DEF FetchMeta
  <2>4. CASE Confirm(r) /\ ~Finish(r)
    <3> DEFINE learned == [req[r] EXCEPT !.agreed = epoch]
    <3>1. /\ learned.slot = req[r].slot /\ learned.action = req[r].action
          /\ learned.agreed = epoch /\ learned.at = req[r].at
        BY DEF Request
    <3>2. /\ req' = [req EXCEPT ![r] = learned] /\ epoch = req[r].at
          /\ pc' = [pc EXCEPT ![r] = IF req[r].action = "upload" THEN "lease" ELSE "intent"]
          /\ held' = [held EXCEPT ![r] = {offered[req[r].slot]}]
        BY <2>4 DEF Confirm, Proceed, Following, Current
    <3> HIDE DEF learned
    <3> QED
        BY <2>4, <3>1, <3>2 DEF Confirm
  <2>5. CASE Lease(r) /\ ~Finish(r)
    <3> DEFINE learned == [req[r] EXCEPT !.key = offered[req[r].slot]]
    <3>1. /\ learned.slot = req[r].slot /\ learned.action = req[r].action
          /\ learned.agreed = req[r].agreed /\ learned.at = req[r].at
          /\ learned.key = offered[req[r].slot]
        BY DEF Request
    <3>2. /\ req' = [req EXCEPT ![r] = learned] /\ pc' = [pc EXCEPT ![r] = "intent"]
          /\ offered[req[r].slot] \in Keys
        BY <2>5 DEF Lease, Proceed, Following
    <3> HIDE DEF learned
    <3> QED
        BY <2>5, <3>1, <3>2 DEF Lease
  <2>6. CASE Intent(r) /\ ~Finish(r)
      BY <2>6 DEF Intent, Proceed, Following
  <2>7. Step(r) => UNCHANGED offered
      BY DEF Step, Begin, FetchMeta, Confirm, Lease, Intent, Consume
  <2>8. Consume(r) => Finish(r)
      BY DEF Consume
  <2> QED
      BY <1>3, <2>1, <2>2, <2>3, <2>4, <2>5, <2>6, <2>7, <2>8 DEF Step
<1>4. CASE UNCHANGED vars
    BY <1>4 DEF vars
<1> QED
    BY <1>1, <1>2, <1>3, <1>4 DEF Next

\* ... and for ever.
LEMMA Invariance == Spec => []IInv
<1>1. IInv /\ [Next]_vars => IInv'
    BY TypeStep, RequestStep DEF IInv
<1> QED
    BY <1>1, InvInit, PTL DEF Spec

----------------------------------------------------------------------------
(* The properties.                                                         *)

\* Every variable stays in its domain.
THEOREM CustodyTypeCorrect == Spec => []TypeOK
<1>1. IInv => TypeOK
    BY DEF IInv
<1> QED
    BY <1>1, Invariance, PTL

\* Nothing is asked of the cloud on a consent given in another session, and the key an
\* upload sends is one the vault offered after the consent.
THEOREM ConsentCovers == Spec => []ConsentCoversKey
<1>1. IInv => ConsentCoversKey
    BY DEF IInv, ConsentInv, LeaseInv, ConsentCoversKey, Agreed
<1> QED
    BY <1>1, Invariance, PTL

\* A request changes the cloud only in its own slot: an upload to a key agreed to, a
\* deletion only of the key its metadata showed.
THEOREM ChangesAsAgreed == Spec => CloudChangesAsAgreed
<1> DEFINE AsAgreed ==
        \A r \in Requests : pc[r] = "consume" /\ pc'[r] = "idle" =>
          \A s \in Slots : cloud'[s] = cloud[s]
              \/ /\ s = req[r].slot
                 /\ \/ req[r].action = "upload" /\ cloud'[s] \in held[r] \cap Keys
                    \/ req[r].action = "delete" /\ cloud'[s] = None
                       /\ cloud[s] = req[r].key
<1>1. IInv /\ [Next]_vars => [AsAgreed]_vars
  <2> SUFFICES ASSUME IInv, Next, NEW r \in Requests, pc[r] = "consume", pc'[r] = "idle",
                      NEW s \in Slots, cloud'[s] # cloud[s]
               PROVE  /\ s = req[r].slot
                      /\ \/ req[r].action = "upload" /\ cloud'[s] \in held[r] \cap Keys
                         \/ req[r].action = "delete" /\ cloud'[s] = None
                            /\ cloud[s] = req[r].key
      OBVIOUS
  <2>1. Consume(r)
    <3>1. PICK q \in Requests : Step(q)
        BY DEF Next, ChangeSession, Vault, OtherClient
    <3>2. q = r
        BY <3>1 DEF IInv, TypeOK, Step, Begin, FetchMeta, Confirm, Lease, Intent, Consume,
                    Finish, Proceed
    <3> QED
        BY <3>1, <3>2 DEF Step, Begin, FetchMeta, Confirm, Lease, Intent
  <2>2. req[r].slot \in Slots /\ cloud \in [Slots -> Keys \cup {None}]
      BY DEF IInv, TypeOK, SlotInv
  <2>3. CASE req[r].action = "upload" /\ cloud' = [cloud EXCEPT ![req[r].slot] = req[r].key]
      BY <2>2, <2>3 DEF IInv, LeaseInv
  <2>4. CASE /\ req[r].action = "delete" /\ cloud[req[r].slot] = req[r].key
             /\ cloud' = [cloud EXCEPT ![req[r].slot] = None]
      BY <2>2, <2>4
  <2> QED
      BY <2>1, <2>3, <2>4 DEF Consume, Named
<1> QED
    BY <1>1, Invariance, PTL DEF Spec, CloudChangesAsAgreed
============================================================================
