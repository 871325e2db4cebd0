-------------------------- MODULE VaultGateProofs --------------------------
(***************************************************************************)
(* Proofs about VaultGate for every set of workers and of principals.      *)
(***************************************************************************)
EXTENDS VaultGate, FiniteSetTheorems, TLAPS

\* Every step keeps every variable in its domain.
LEMMA TypeStep == TypeOK /\ [Next]_vars => TypeOK'
<1> SUFFICES ASSUME TypeOK, [Next]_vars
             PROVE  TypeOK'
    OBVIOUS
<1> USE ThreadsAssumption
    DEF TypeOK, Threads, VaultFiles, Points, OpRegion, SealRegion, Jobs, gateVars, innerVars,
        authVars, callVars, Goto, Return
<1>1. ASSUME Start
      PROVE  TypeOK'
  <2>1. ASSUME NEW t \in Threads, BeginTick(t) \/ BeginCutoff(t) \/ BeginLease(t)
        PROVE  TypeOK'
    <3>1. CASE BeginTick(t)
          BY <3>1 DEF BeginTick, Begin
    <3>2. CASE BeginCutoff(t)
          BY <3>2 DEF BeginCutoff, Begin
    <3>3. CASE BeginLease(t)
          BY <3>3 DEF BeginLease, Begin
    <3> QED
        BY <2>1, <3>1, <3>2, <3>3
  <2>2. CASE BeginLock
        BY <2>2 DEF BeginLock, Begin
  <2>3. CASE BeginReset
        BY <2>3 DEF BeginReset, Begin
  <2>4. CASE BeginUse
        BY <2>4 DEF BeginUse, Begin
  <2>5. CASE BeginUnlock
        BY <2>5 DEF BeginUnlock, Begin
  <2>6. CASE BeginInit
        BY <2>6 DEF BeginInit, Begin
  <2>7. ASSUME NEW p \in Principals, Login(p)
        PROVE  TypeOK'
        BY <2>7 DEF Login
  <2>8. CASE IdleElapses
        BY <2>8 DEF IdleElapses
  <2> QED
      BY <1>1, <2>1, <2>2, <2>3, <2>4, <2>5, <2>6, <2>7, <2>8 DEF Start
<1>2. ASSUME NEW t \in Threads, SealStep(t)
      PROVE  TypeOK'
  <2>1. CASE ClaimSealing(t)
      BY <2>1 DEF ClaimSealing, TakeSealing
  <2>2. CASE WakeSealer(t)
      BY <2>2 DEF WakeSealer, TakeSealing
  <2>3. CASE TryClaimSealing(t)
    <3>1. CASE GateAdmits
      <4>1. /\ pc' = [pc EXCEPT ![t] = "recheck"]
            /\ owns_waiter' = [owns_waiter EXCEPT ![t] = FALSE]
            BY <2>3, <3>1 DEF TryClaimSealing
      <4>2. pc' \in [Threads -> Points] /\ owns_waiter' \in [Threads -> BOOLEAN]
            BY <4>1
      <4>5. kind' = "sealing" /\ owner' = None
            BY <2>3, <3>1 DEF TryClaimSealing, TakeSealing
      <4>3. UNCHANGED <<callVars, seal_waiters, parked, innerVars, files, authVars>>
            BY <2>3, <3>1 DEF TryClaimSealing
      <4> QED
          BY <4>2, <4>3, <4>5
    <3>2. CASE ~GateAdmits
          BY <2>3, <3>2 DEF TryClaimSealing
    <3> QED
        BY <3>1, <3>2
  <2>4. CASE RecheckIdle(t)
      BY <2>4 DEF RecheckIdle
  <2>5. CASE CloseSessions(t)
      BY <2>5 DEF CloseSessions, AfterClose, NothingToReset
  <2>6. CASE SealVault(t)
      BY <2>6 DEF SealVault, AssignInnerLocked
  <2>7. CASE RemoveSnapshot(t)
    <3>1. files' \subseteq VaultFiles
          BY <2>7 DEF RemoveSnapshot
    <3> QED
        BY <2>7, <3>1 DEF RemoveSnapshot
  <2>8. CASE RemoveSalt(t)
    <3>1. pc' \in [Threads -> Points]
          BY <2>8 DEF RemoveSalt
    <3>2. files' \subseteq VaultFiles
          BY <2>8 DEF RemoveSalt
    <3> QED
        BY <2>8, <3>1, <3>2 DEF RemoveSalt
  <2>9. CASE MarkReset(t)
      BY <2>9 DEF MarkReset, AssignInnerLocked
  <2>10. CASE EndSeal(t)
      BY <2>10 DEF EndSeal, NotifyAll, WaitersAfterSeal, SaturatingDec
  <2>11. CASE Status(t)
      BY <2>11 DEF Status
  <2>12. CASE ClearNative(t)
      BY <2>12 DEF ClearNative
  <2>13. CASE MaybeIdleSeal(t)
      BY <2>13 DEF MaybeIdleSeal
  <2> QED
      BY <1>2, <2>1, <2>2, <2>3, <2>4, <2>5, <2>6, <2>7, <2>8, <2>9, <2>10, <2>11, <2>12, <2>13
         DEF SealStep
<1>3. ASSUME NEW t \in Threads, OpStep(t)
      PROVE  TypeOK'
  <2>1. CASE BindLease(t)
      BY <2>1 DEF BindLease
  <2>2. CASE ObservePrincipal(t)
      BY <2>2 DEF ObservePrincipal
  <2>3. CASE EnterOp(t)
      BY <2>3 DEF EnterOp
  <2>4. CASE ClaimOperating(t)
      BY <2>4 DEF ClaimOperating, GateAdmits, FirstPoint
  <2>5. CASE CheckUnderOp(t)
      BY <2>5 DEF CheckUnderOp, ReleaseOperating, NotifyAll
  <2>6. CASE Body(t)
    <3>1. pc' \in [Threads -> Points]
          BY <2>6 DEF Body, OwnsVault
    <3>2. idle' \in BOOLEAN
          BY <2>6 DEF Body
    <3> QED
        BY <2>6, <3>1, <3>2 DEF Body
  <2>7. CASE RebindLease(t)
      BY <2>7 DEF RebindLease
  <2>8. CASE EndOp(t)
      BY <2>8 DEF EndOp, ReleaseOperating, NotifyAll
  <2>9. CASE StatusUnderOp(t)
      BY <2>9 DEF StatusUnderOp
  <2>10. CASE PeekUnlocked(t)
      BY <2>10 DEF PeekUnlocked
  <2>11. CASE LoadSnapshot(t)
      BY <2>11 DEF LoadSnapshot
  <2>12. CASE CheckBeforeAssign(t)
      BY <2>12 DEF CheckBeforeAssign
  <2>13. CASE AssignUnlocked(t)
      BY <2>13 DEF AssignUnlocked, DropInner
  <2>14. CASE WriteSalt(t)
    <3>1. pc' \in [Threads -> Points]
          BY <2>14 DEF WriteSalt
    <3>2. files' \subseteq VaultFiles
      <4>1. files' = {"salt"} \/ files' = files
            BY <2>14 DEF WriteSalt
      <4> QED
          BY <4>1
    <3> QED
        BY <2>14, <3>1, <3>2 DEF WriteSalt
  <2>15. CASE SaveSnapshot(t)
    <3>1. files' \subseteq VaultFiles
          BY <2>15 DEF SaveSnapshot
    <3> QED
        BY <2>15, <3>1 DEF SaveSnapshot
  <2>16. CASE AssignLocked(t)
    <3>1. pc' \in [Threads -> Points]
          BY <2>16 DEF AssignLocked, AssignInnerLocked
    <3>2. openFor' \in Principals \cup {None} /\ idle' \in BOOLEAN /\ overtaken' \in BOOLEAN
          BY <2>16 DEF AssignLocked, AssignInnerLocked
    <3> QED
        BY <2>16, <3>1, <3>2 DEF AssignLocked, AssignInnerLocked
  <2> QED
      BY <1>3, <2>1, <2>2, <2>3, <2>4, <2>5, <2>6, <2>7, <2>8, <2>9, <2>10, <2>11, <2>12,
         <2>13, <2>14, <2>15, <2>16 DEF OpStep
<1>4. CASE UNCHANGED vars
      BY <1>4 DEF vars
<1> QED
    BY <1>1, <1>2, <1>3, <1>4 DEF Next, Continue

\* The initial state of a freshly started process is well typed.
LEMMA TypeInit == Init => TypeOK
<1> SUFFICES ASSUME Init
             PROVE  TypeOK
    OBVIOUS
<1>1. files \subseteq VaultFiles
      BY DEF Init
<1> QED
    BY <1>1 DEF Init, TypeOK, Points, Jobs

\* Every variable of the gate, of `inner` and of the handlers stays in its domain,
\* for any number of worker threads and principals.
THEOREM TypeCorrect == Spec => []TypeOK
BY TypeInit, TypeStep, PTL DEF Spec

----------------------------------------------------------------------------
(* The gate: one holder at a time, known to the gate word.                 *)

\* GateExclusion, thread by thread.
GateInv ==
    /\ \A t \in Threads : pc[t] \in OpRegion <=> (kind = "operating" /\ owner = t)
    /\ \A t \in Threads : pc[t] \in SealRegion => kind = "sealing"
    /\ \A t, u \in Threads : pc[t] \in SealRegion /\ pc[u] \in SealRegion => t = u
    /\ kind = "sealing" => \E t \in Threads : pc[t] \in SealRegion
    /\ kind = "operating" => owner \in Threads
    /\ kind # "operating" => owner = None

\* Where a handler begins: outside the gate.
EntryPoints == {"tick", "claim", "observe", "bind", "op_claim"}

\* A start is one handler beginning, a sign-in, or the idle limit passing.
LEMMA StartCases ==
    ASSUME TypeOK, Start
    PROVE  \/ \E t \in Threads, name \in Jobs, point \in EntryPoints,
                p \in Principals \cup {None} :
                /\ Begin(t, name, point, p)
                /\ name = "unlock" => p \in Principals
           \/ \E p \in Principals : Login(p)
           \/ IdleElapses
<1> USE DEF TypeOK, Threads, Jobs, EntryPoints
<1>1. ASSUME NEW t \in Threads, BeginTick(t) \/ BeginCutoff(t) \/ BeginLease(t)
      PROVE  \E name \in Jobs, point \in EntryPoints, p \in Principals \cup {None} :
                Begin(t, name, point, p) /\ (name = "unlock" => p \in Principals)
      BY <1>1 DEF BeginTick, BeginCutoff, BeginLease
<1>2. ASSUME BeginLock \/ BeginReset \/ BeginUse \/ BeginUnlock \/ BeginInit
      PROVE  \E name \in Jobs, point \in EntryPoints, p \in Principals \cup {None} :
                Begin(Main, name, point, p) /\ (name = "unlock" => p \in Principals)
      BY <1>2 DEF BeginLock, BeginReset, BeginUse, BeginUnlock, BeginInit
<1>3. CASE \E t \in Threads : BeginTick(t) \/ BeginCutoff(t) \/ BeginLease(t)
      BY <1>1, <1>3
<1>4. CASE BeginLock \/ BeginReset \/ BeginUse \/ BeginUnlock \/ BeginInit
  <2>1. Main \in Threads
        OBVIOUS
  <2> QED
      BY <1>2, <1>4, <2>1
<1> QED
    BY <1>3, <1>4 DEF Start

\* Every step keeps the gate word true to what the threads do.
LEMMA GateStep == TypeOK /\ GateInv /\ [Next]_vars => GateInv'
<1> SUFFICES ASSUME TypeOK, GateInv, [Next]_vars
             PROVE  GateInv'
    OBVIOUS
<1> USE ThreadsAssumption
    DEF TypeOK, GateInv, Threads, Points, OpRegion, SealRegion, gateVars, innerVars,
        authVars, callVars, Goto, Return
<1>1. ASSUME Start
      PROVE  GateInv'
  <2>1. ASSUME NEW t \in Threads, NEW name \in Jobs, NEW point \in EntryPoints,
               NEW p \in Principals \cup {None}, Begin(t, name, point, p),
               name = "unlock" => p \in Principals
        PROVE  GateInv'
        BY <2>1 DEF Begin, EntryPoints
  <2>2. ASSUME NEW p \in Principals, Login(p)
        PROVE  GateInv'
        BY <2>2 DEF Login
  <2>3. CASE IdleElapses
        BY <2>3 DEF IdleElapses
  <2> QED
      BY <1>1, <2>1, <2>2, <2>3, StartCases
<1>2. ASSUME NEW t \in Threads, SealStep(t)
      PROVE  GateInv'
  <2>1. CASE ClaimSealing(t)
      BY <2>1 DEF ClaimSealing, TakeSealing
  <2>2. CASE WakeSealer(t)
      BY <2>2 DEF WakeSealer, TakeSealing
  <2>3. CASE TryClaimSealing(t)
      BY <2>3 DEF TryClaimSealing, TakeSealing, GateAdmits
  <2>4. CASE RecheckIdle(t)
      BY <2>4 DEF RecheckIdle
  <2>5. CASE CloseSessions(t)
      BY <2>5 DEF CloseSessions, AfterClose, NothingToReset
  <2>6. CASE SealVault(t)
      BY <2>6 DEF SealVault
  <2>7. CASE RemoveSnapshot(t)
      BY <2>7 DEF RemoveSnapshot
  <2>8. CASE RemoveSalt(t)
      BY <2>8 DEF RemoveSalt
  <2>9. CASE MarkReset(t)
      BY <2>9 DEF MarkReset
  <2>10. CASE EndSeal(t)
      BY <2>10 DEF EndSeal, NotifyAll, WaitersAfterSeal, SaturatingDec
  <2>11. CASE Status(t)
      BY <2>11 DEF Status
  <2>12. CASE ClearNative(t)
      BY <2>12 DEF ClearNative
  <2>13. CASE MaybeIdleSeal(t)
      BY <2>13 DEF MaybeIdleSeal
  <2> QED
      BY <1>2, <2>1, <2>2, <2>3, <2>4, <2>5, <2>6, <2>7, <2>8, <2>9, <2>10, <2>11, <2>12, <2>13
         DEF SealStep
<1>3. ASSUME NEW t \in Threads, OpStep(t)
      PROVE  GateInv'
  <2>1. CASE BindLease(t)
      BY <2>1 DEF BindLease
  <2>2. CASE ObservePrincipal(t)
      BY <2>2 DEF ObservePrincipal
  <2>3. CASE EnterOp(t)
      BY <2>3 DEF EnterOp
  <2>4. CASE ClaimOperating(t)
      BY <2>4 DEF ClaimOperating, GateAdmits, FirstPoint
  <2>5. CASE CheckUnderOp(t)
      BY <2>5 DEF CheckUnderOp, ReleaseOperating, NotifyAll
  <2>6. CASE Body(t)
      BY <2>6 DEF Body, OwnsVault
  <2>7. CASE RebindLease(t)
      BY <2>7 DEF RebindLease
  <2>8. CASE EndOp(t)
      BY <2>8 DEF EndOp, ReleaseOperating, NotifyAll
  <2>9. CASE StatusUnderOp(t)
      BY <2>9 DEF StatusUnderOp
  <2>10. CASE PeekUnlocked(t)
      BY <2>10 DEF PeekUnlocked
  <2>11. CASE LoadSnapshot(t)
      BY <2>11 DEF LoadSnapshot
  <2>12. CASE CheckBeforeAssign(t)
      BY <2>12 DEF CheckBeforeAssign
  <2>13. CASE AssignUnlocked(t)
      BY <2>13 DEF AssignUnlocked, DropInner
  <2>14. CASE WriteSalt(t)
      BY <2>14 DEF WriteSalt
  <2>15. CASE SaveSnapshot(t)
      BY <2>15 DEF SaveSnapshot
  <2>16. CASE AssignLocked(t)
      BY <2>16 DEF AssignLocked
  <2> QED
      BY <1>3, <2>1, <2>2, <2>3, <2>4, <2>5, <2>6, <2>7, <2>8, <2>9, <2>10, <2>11, <2>12,
         <2>13, <2>14, <2>15, <2>16 DEF OpStep
<1>4. CASE UNCHANGED vars
      BY <1>4 DEF vars
<1> QED
    BY <1>1, <1>2, <1>3, <1>4 DEF Next, Continue

----------------------------------------------------------------------------
(* The sealers: published intents, the waiter count, the condvar.          *)

\* A thread owes the waiter count one credit exactly from publishing its intent to
\* the end of its seal, and only a waiting sealer sleeps on the condvar.
IntentInv ==
    /\ \A t \in Threads : owns_waiter[t] => pc[t] \in SealRegion \cup {"await"}
    /\ \A t \in Threads : pc[t] = "await" => owns_waiter[t]
    /\ \A t \in parked : pc[t] = "await"

\* Every step moves a credit and its owner together.
LEMMA IntentStep == TypeOK /\ IntentInv /\ [Next]_vars => IntentInv'
<1> SUFFICES ASSUME TypeOK, IntentInv, [Next]_vars
             PROVE  IntentInv'
    OBVIOUS
<1> USE ThreadsAssumption
    DEF TypeOK, IntentInv, Threads, Points, OpRegion, SealRegion, gateVars, innerVars,
        authVars, callVars, Goto, Return
<1>1. ASSUME Start
      PROVE  IntentInv'
  <2>1. ASSUME NEW t \in Threads, NEW name \in Jobs, NEW point \in EntryPoints,
               NEW p \in Principals \cup {None}, Begin(t, name, point, p),
               name = "unlock" => p \in Principals
        PROVE  IntentInv'
        BY <2>1 DEF Begin, EntryPoints
  <2>2. ASSUME NEW p \in Principals, Login(p)
        PROVE  IntentInv'
        BY <2>2 DEF Login
  <2>3. CASE IdleElapses
        BY <2>3 DEF IdleElapses
  <2> QED
      BY <1>1, <2>1, <2>2, <2>3, StartCases
<1>2. ASSUME NEW t \in Threads, SealStep(t)
      PROVE  IntentInv'
  <2>1. CASE ClaimSealing(t)
      BY <2>1 DEF ClaimSealing, TakeSealing
  <2>2. CASE WakeSealer(t)
      BY <2>2 DEF WakeSealer, TakeSealing
  <2>3. CASE TryClaimSealing(t)
      BY <2>3 DEF TryClaimSealing, TakeSealing, GateAdmits
  <2>4. CASE RecheckIdle(t)
      BY <2>4 DEF RecheckIdle
  <2>5. CASE CloseSessions(t)
      BY <2>5 DEF CloseSessions, AfterClose, NothingToReset
  <2>6. CASE SealVault(t)
      BY <2>6 DEF SealVault
  <2>7. CASE RemoveSnapshot(t)
      BY <2>7 DEF RemoveSnapshot
  <2>8. CASE RemoveSalt(t)
      BY <2>8 DEF RemoveSalt
  <2>9. CASE MarkReset(t)
      BY <2>9 DEF MarkReset
  <2>10. CASE EndSeal(t)
      BY <2>10 DEF EndSeal, NotifyAll, WaitersAfterSeal, SaturatingDec
  <2>11. CASE Status(t)
      BY <2>11 DEF Status
  <2>12. CASE ClearNative(t)
      BY <2>12 DEF ClearNative
  <2>13. CASE MaybeIdleSeal(t)
      BY <2>13 DEF MaybeIdleSeal
  <2> QED
      BY <1>2, <2>1, <2>2, <2>3, <2>4, <2>5, <2>6, <2>7, <2>8, <2>9, <2>10, <2>11, <2>12, <2>13
         DEF SealStep
<1>3. ASSUME NEW t \in Threads, OpStep(t)
      PROVE  IntentInv'
  <2>1. CASE BindLease(t)
      BY <2>1 DEF BindLease
  <2>2. CASE ObservePrincipal(t)
      BY <2>2 DEF ObservePrincipal
  <2>3. CASE EnterOp(t)
      BY <2>3 DEF EnterOp
  <2>4. CASE ClaimOperating(t)
      BY <2>4 DEF ClaimOperating, GateAdmits, FirstPoint
  <2>5. CASE CheckUnderOp(t)
      BY <2>5 DEF CheckUnderOp, ReleaseOperating, NotifyAll
  <2>6. CASE Body(t)
      BY <2>6 DEF Body, OwnsVault
  <2>7. CASE RebindLease(t)
      BY <2>7 DEF RebindLease
  <2>8. CASE EndOp(t)
      BY <2>8 DEF EndOp, ReleaseOperating, NotifyAll
  <2>9. CASE StatusUnderOp(t)
      BY <2>9 DEF StatusUnderOp
  <2>10. CASE PeekUnlocked(t)
      BY <2>10 DEF PeekUnlocked
  <2>11. CASE LoadSnapshot(t)
      BY <2>11 DEF LoadSnapshot
  <2>12. CASE CheckBeforeAssign(t)
      BY <2>12 DEF CheckBeforeAssign
  <2>13. CASE AssignUnlocked(t)
      BY <2>13 DEF AssignUnlocked, DropInner
  <2>14. CASE WriteSalt(t)
      BY <2>14 DEF WriteSalt
  <2>15. CASE SaveSnapshot(t)
      BY <2>15 DEF SaveSnapshot
  <2>16. CASE AssignLocked(t)
      BY <2>16 DEF AssignLocked
  <2> QED
      BY <1>3, <2>1, <2>2, <2>3, <2>4, <2>5, <2>6, <2>7, <2>8, <2>9, <2>10, <2>11, <2>12,
         <2>13, <2>14, <2>15, <2>16 DEF OpStep
<1>4. CASE UNCHANGED vars
      BY <1>4 DEF vars
<1> QED
    BY <1>1, <1>2, <1>3, <1>4 DEF Next, Continue

\* Nobody goes to sleep on an idle gate, and whoever frees the gate wakes them all.
LEMMA WakerStep == TypeOK /\ ParkedSealerHasWaker /\ [Next]_vars => ParkedSealerHasWaker'
<1> SUFFICES ASSUME TypeOK, ParkedSealerHasWaker, [Next]_vars
             PROVE  ParkedSealerHasWaker'
    OBVIOUS
<1> USE ThreadsAssumption
    DEF TypeOK, ParkedSealerHasWaker, Threads, Points, OpRegion, SealRegion, gateVars, innerVars,
        authVars, callVars, Goto, Return
<1>1. ASSUME Start
      PROVE  ParkedSealerHasWaker'
  <2>1. ASSUME NEW t \in Threads, NEW name \in Jobs, NEW point \in EntryPoints,
               NEW p \in Principals \cup {None}, Begin(t, name, point, p),
               name = "unlock" => p \in Principals
        PROVE  ParkedSealerHasWaker'
        BY <2>1 DEF Begin, EntryPoints
  <2>2. ASSUME NEW p \in Principals, Login(p)
        PROVE  ParkedSealerHasWaker'
        BY <2>2 DEF Login
  <2>3. CASE IdleElapses
        BY <2>3 DEF IdleElapses
  <2> QED
      BY <1>1, <2>1, <2>2, <2>3, StartCases
<1>2. ASSUME NEW t \in Threads, SealStep(t)
      PROVE  ParkedSealerHasWaker'
  <2>1. CASE ClaimSealing(t)
      BY <2>1 DEF ClaimSealing, TakeSealing
  <2>2. CASE WakeSealer(t)
      BY <2>2 DEF WakeSealer, TakeSealing
  <2>3. CASE TryClaimSealing(t)
      BY <2>3 DEF TryClaimSealing, TakeSealing, GateAdmits
  <2>4. CASE RecheckIdle(t)
      BY <2>4 DEF RecheckIdle
  <2>5. CASE CloseSessions(t)
      BY <2>5 DEF CloseSessions, AfterClose, NothingToReset
  <2>6. CASE SealVault(t)
      BY <2>6 DEF SealVault
  <2>7. CASE RemoveSnapshot(t)
      BY <2>7 DEF RemoveSnapshot
  <2>8. CASE RemoveSalt(t)
      BY <2>8 DEF RemoveSalt
  <2>9. CASE MarkReset(t)
      BY <2>9 DEF MarkReset
  <2>10. CASE EndSeal(t)
      BY <2>10 DEF EndSeal, NotifyAll, WaitersAfterSeal, SaturatingDec
  <2>11. CASE Status(t)
      BY <2>11 DEF Status
  <2>12. CASE ClearNative(t)
      BY <2>12 DEF ClearNative
  <2>13. CASE MaybeIdleSeal(t)
      BY <2>13 DEF MaybeIdleSeal
  <2> QED
      BY <1>2, <2>1, <2>2, <2>3, <2>4, <2>5, <2>6, <2>7, <2>8, <2>9, <2>10, <2>11, <2>12, <2>13
         DEF SealStep
<1>3. ASSUME NEW t \in Threads, OpStep(t)
      PROVE  ParkedSealerHasWaker'
  <2>1. CASE BindLease(t)
      BY <2>1 DEF BindLease
  <2>2. CASE ObservePrincipal(t)
      BY <2>2 DEF ObservePrincipal
  <2>3. CASE EnterOp(t)
      BY <2>3 DEF EnterOp
  <2>4. CASE ClaimOperating(t)
      BY <2>4 DEF ClaimOperating, GateAdmits, FirstPoint
  <2>5. CASE CheckUnderOp(t)
      BY <2>5 DEF CheckUnderOp, ReleaseOperating, NotifyAll
  <2>6. CASE Body(t)
      BY <2>6 DEF Body, OwnsVault
  <2>7. CASE RebindLease(t)
      BY <2>7 DEF RebindLease
  <2>8. CASE EndOp(t)
      BY <2>8 DEF EndOp, ReleaseOperating, NotifyAll
  <2>9. CASE StatusUnderOp(t)
      BY <2>9 DEF StatusUnderOp
  <2>10. CASE PeekUnlocked(t)
      BY <2>10 DEF PeekUnlocked
  <2>11. CASE LoadSnapshot(t)
      BY <2>11 DEF LoadSnapshot
  <2>12. CASE CheckBeforeAssign(t)
      BY <2>12 DEF CheckBeforeAssign
  <2>13. CASE AssignUnlocked(t)
      BY <2>13 DEF AssignUnlocked, DropInner
  <2>14. CASE WriteSalt(t)
      BY <2>14 DEF WriteSalt
  <2>15. CASE SaveSnapshot(t)
      BY <2>15 DEF SaveSnapshot
  <2>16. CASE AssignLocked(t)
      BY <2>16 DEF AssignLocked
  <2> QED
      BY <1>3, <2>1, <2>2, <2>3, <2>4, <2>5, <2>6, <2>7, <2>8, <2>9, <2>10, <2>11, <2>12,
         <2>13, <2>14, <2>15, <2>16 DEF OpStep
<1>4. CASE UNCHANGED vars
      BY <1>4 DEF vars
<1> QED
    BY <1>1, <1>2, <1>3, <1>4 DEF Next, Continue

\* There are finitely many intents.
LEMMA IntentsFinite == TypeOK => IsFiniteSet(Intents)
<1>1. IsFiniteSet({Main} \cup {Watchdog})
      BY FS_Singleton, FS_Union
<1>2. IsFiniteSet(({Main} \cup {Watchdog}) \cup Workers)
      BY <1>1, FS_Union, ThreadsAssumption
<1>3. Intents \subseteq ({Main} \cup {Watchdog}) \cup Workers
      BY DEF Intents, Threads
<1> QED
    BY <1>2, <1>3, FS_Subset

\* The waiter count follows the intents.
LEMMA CountStep == TypeOK /\ IntentInv /\ WaiterAccounting /\ [Next]_vars => WaiterAccounting'
<1> SUFFICES ASSUME TypeOK, IntentInv, WaiterAccounting, [Next]_vars
             PROVE  WaiterAccounting'
    OBVIOUS
<1> USE DEF TypeOK, WaiterAccounting, gateVars, innerVars, authVars, callVars
<1>1. ASSUME Start
      PROVE  WaiterAccounting'
  <2>1. ASSUME NEW t \in Threads, NEW name \in Jobs, NEW point \in EntryPoints,
               NEW p \in Principals \cup {None}, Begin(t, name, point, p),
               name = "unlock" => p \in Principals
        PROVE  WaiterAccounting'
        BY <2>1 DEF Begin, Intents
  <2>2. ASSUME NEW p \in Principals, Login(p)
        PROVE  WaiterAccounting'
        BY <2>2 DEF Login, Intents
  <2>3. CASE IdleElapses
        BY <2>3 DEF IdleElapses, Intents
  <2> QED
      BY <1>1, <2>1, <2>2, <2>3, StartCases
<1>2. ASSUME NEW t \in Threads, SealStep(t)
      PROVE  WaiterAccounting'
  <2>1. CASE ClaimSealing(t)
    <3>1. t \notin Intents
          BY <2>1 DEF ClaimSealing, IntentInv, Intents, SealRegion
    <3>2. Intents' = Intents \cup {t} /\ seal_waiters' = seal_waiters + 1
          BY <2>1 DEF ClaimSealing, Intents
    <3> QED
        BY <3>1, <3>2, IntentsFinite, FS_AddElement
  <2>2. CASE WakeSealer(t)
      BY <2>2 DEF WakeSealer, Intents, TakeSealing
  <2>3. CASE TryClaimSealing(t)
    <3>1. ~owns_waiter[t]
          BY <2>3 DEF TryClaimSealing, IntentInv, SealRegion
    <3>2. Intents' = Intents /\ seal_waiters' = seal_waiters
          BY <2>3, <3>1 DEF TryClaimSealing, Intents
    <3> QED
        BY <3>2
  <2>4. CASE RecheckIdle(t)
      BY <2>4 DEF RecheckIdle, Intents
  <2>5. CASE CloseSessions(t)
      BY <2>5 DEF CloseSessions, Intents, AfterClose, NothingToReset
  <2>6. CASE SealVault(t)
      BY <2>6 DEF SealVault, Intents
  <2>7. CASE RemoveSnapshot(t)
      BY <2>7 DEF RemoveSnapshot, Intents
  <2>8. CASE RemoveSalt(t)
      BY <2>8 DEF RemoveSalt, Intents
  <2>9. CASE MarkReset(t)
      BY <2>9 DEF MarkReset, Intents
  <2>10. CASE EndSeal(t)
    <3>1. CASE owns_waiter[t]
      <4>1. t \in Intents /\ Intents' = Intents \ {t}
            BY <2>10, <3>1 DEF EndSeal, Intents
      <4>2. Cardinality(Intents') = Cardinality(Intents) - 1
            BY <4>1, IntentsFinite, FS_RemoveElement
      <4>3. Cardinality(Intents) # 0
            BY <4>1, IntentsFinite, FS_EmptySet
      <4>4. seal_waiters' = SaturatingDec(seal_waiters)
            BY <2>10, <3>1 DEF EndSeal, WaitersAfterSeal
      <4> QED
          BY <4>2, <4>3, <4>4 DEF SaturatingDec
    <3>2. CASE ~owns_waiter[t]
      <4>1. Intents' = Intents /\ seal_waiters' = seal_waiters
            BY <2>10, <3>2 DEF EndSeal, Intents, WaitersAfterSeal
      <4> QED
          BY <4>1
    <3> QED
        BY <3>1, <3>2
  <2>11. CASE Status(t)
      BY <2>11 DEF Status, Intents
  <2>12. CASE ClearNative(t)
      BY <2>12 DEF ClearNative, Intents
  <2>13. CASE MaybeIdleSeal(t)
      BY <2>13 DEF MaybeIdleSeal, Intents
  <2> QED
      BY <1>2, <2>1, <2>2, <2>3, <2>4, <2>5, <2>6, <2>7, <2>8, <2>9, <2>10, <2>11, <2>12, <2>13
         DEF SealStep
<1>3. ASSUME NEW t \in Threads, OpStep(t)
      PROVE  WaiterAccounting'
  <2>1. CASE BindLease(t)
      BY <2>1 DEF BindLease, Intents
  <2>2. CASE ObservePrincipal(t)
      BY <2>2 DEF ObservePrincipal, Intents
  <2>3. CASE EnterOp(t)
      BY <2>3 DEF EnterOp, Intents
  <2>4. CASE ClaimOperating(t)
      BY <2>4 DEF ClaimOperating, Intents, GateAdmits, FirstPoint
  <2>5. CASE CheckUnderOp(t)
      BY <2>5 DEF CheckUnderOp, Intents, ReleaseOperating, NotifyAll
  <2>6. CASE Body(t)
      BY <2>6 DEF Body, Intents, OwnsVault
  <2>7. CASE RebindLease(t)
      BY <2>7 DEF RebindLease, Intents
  <2>8. CASE EndOp(t)
      BY <2>8 DEF EndOp, Intents, ReleaseOperating, NotifyAll
  <2>9. CASE StatusUnderOp(t)
      BY <2>9 DEF StatusUnderOp, Intents
  <2>10. CASE PeekUnlocked(t)
      BY <2>10 DEF PeekUnlocked, Intents
  <2>11. CASE LoadSnapshot(t)
      BY <2>11 DEF LoadSnapshot, Intents
  <2>12. CASE CheckBeforeAssign(t)
      BY <2>12 DEF CheckBeforeAssign, Intents
  <2>13. CASE AssignUnlocked(t)
      BY <2>13 DEF AssignUnlocked, Intents, DropInner
  <2>14. CASE WriteSalt(t)
      BY <2>14 DEF WriteSalt, Intents
  <2>15. CASE SaveSnapshot(t)
      BY <2>15 DEF SaveSnapshot, Intents
  <2>16. CASE AssignLocked(t)
      BY <2>16 DEF AssignLocked, Intents
  <2> QED
      BY <1>3, <2>1, <2>2, <2>3, <2>4, <2>5, <2>6, <2>7, <2>8, <2>9, <2>10, <2>11, <2>12,
         <2>13, <2>14, <2>15, <2>16 DEF OpStep
<1>4. CASE UNCHANGED vars
      BY <1>4 DEF vars, Intents
<1> QED
    BY <1>1, <1>2, <1>3, <1>4 DEF Next, Continue

----------------------------------------------------------------------------
(* The vault: what the holder of the gate may rely on between two steps.   *)

\* What the code has established at each point about the vault, its files and the
\* principal it acts for.
VaultInv ==
    /\ \A t \in Threads :
        /\ pc[t] \in {"remove_snapshot", "remove_salt", "mark_reset"} => openFor = None
        /\ pc[t] \in {"unlock_check", "unlock_assign"} => files = VaultFiles
        /\ pc[t] \in {"unlock_assign", "init_save", "init_assign"} => openFor = None
        /\ pc[t] \in {"unlock_peek", "unlock_load", "unlock_check", "unlock_assign"}
            => job[t] = "unlock"
        /\ job[t] = "unlock" => who[t] \in Principals
    /\ OpenVaultHasFiles
    /\ OpKeepsItsVault

\* Every step keeps what its own point and the other threads' points rely on.
LEMMA VaultStep == TypeOK /\ GateInv /\ VaultInv /\ [Next]_vars => VaultInv'
<1> SUFFICES ASSUME TypeOK, GateInv, VaultInv, [Next]_vars
             PROVE  VaultInv'
    OBVIOUS
<1> USE ThreadsAssumption
    DEF TypeOK, GateInv, VaultInv, OpenVaultHasFiles, OpKeepsItsVault, Threads, Points,
        OpRegion, SealRegion, VaultFiles, gateVars, innerVars, authVars, callVars, Goto, Return
<1>1. ASSUME Start
      PROVE  VaultInv'
  <2>1. ASSUME NEW t \in Threads, NEW name \in Jobs, NEW point \in EntryPoints,
               NEW p \in Principals \cup {None}, Begin(t, name, point, p),
               name = "unlock" => p \in Principals
        PROVE  VaultInv'
        BY <2>1 DEF Begin, EntryPoints
  <2>2. ASSUME NEW p \in Principals, Login(p)
        PROVE  VaultInv'
        BY <2>2 DEF Login
  <2>3. CASE IdleElapses
        BY <2>3 DEF IdleElapses
  <2> QED
      BY <1>1, <2>1, <2>2, <2>3, StartCases
<1>2. ASSUME NEW t \in Threads, SealStep(t)
      PROVE  VaultInv'
  <2>1. CASE ClaimSealing(t)
      BY <2>1 DEF ClaimSealing, TakeSealing
  <2>2. CASE WakeSealer(t)
      BY <2>2 DEF WakeSealer, TakeSealing
  <2>3. CASE TryClaimSealing(t)
      BY <2>3 DEF TryClaimSealing, TakeSealing, GateAdmits
  <2>4. CASE RecheckIdle(t)
      BY <2>4 DEF RecheckIdle
  <2>5. CASE CloseSessions(t)
      BY <2>5 DEF CloseSessions, AfterClose, NothingToReset
  <2>6. CASE SealVault(t)
      BY <2>6 DEF SealVault, AssignInnerLocked
  <2>7. CASE RemoveSnapshot(t)
      BY <2>7 DEF RemoveSnapshot
  <2>8. CASE RemoveSalt(t)
      BY <2>8 DEF RemoveSalt
  <2>9. CASE MarkReset(t)
      BY <2>9 DEF MarkReset, AssignInnerLocked
  <2>10. CASE EndSeal(t)
      BY <2>10 DEF EndSeal, NotifyAll, WaitersAfterSeal, SaturatingDec
  <2>11. CASE Status(t)
      BY <2>11 DEF Status
  <2>12. CASE ClearNative(t)
      BY <2>12 DEF ClearNative
  <2>13. CASE MaybeIdleSeal(t)
      BY <2>13 DEF MaybeIdleSeal
  <2> QED
      BY <1>2, <2>1, <2>2, <2>3, <2>4, <2>5, <2>6, <2>7, <2>8, <2>9, <2>10, <2>11, <2>12, <2>13
         DEF SealStep
<1>3. ASSUME NEW t \in Threads, OpStep(t)
      PROVE  VaultInv'
  <2>1. CASE BindLease(t)
      BY <2>1 DEF BindLease
  <2>2. CASE ObservePrincipal(t)
      BY <2>2 DEF ObservePrincipal
  <2>3. CASE EnterOp(t)
      BY <2>3 DEF EnterOp
  <2>4. CASE ClaimOperating(t)
      BY <2>4 DEF ClaimOperating, GateAdmits, FirstPoint
  <2>5. CASE CheckUnderOp(t)
      BY <2>5 DEF CheckUnderOp, ReleaseOperating, NotifyAll
  <2>6. CASE Body(t)
      BY <2>6 DEF Body, OwnsVault
  <2>7. CASE RebindLease(t)
      BY <2>7 DEF RebindLease
  <2>8. CASE EndOp(t)
      BY <2>8 DEF EndOp, ReleaseOperating, NotifyAll
  <2>9. CASE StatusUnderOp(t)
      BY <2>9 DEF StatusUnderOp
  <2>10. CASE PeekUnlocked(t)
      BY <2>10 DEF PeekUnlocked
  <2>11. CASE LoadSnapshot(t)
      BY <2>11 DEF LoadSnapshot
  <2>12. CASE CheckBeforeAssign(t)
      BY <2>12 DEF CheckBeforeAssign
  <2>13. CASE AssignUnlocked(t)
      BY <2>13 DEF AssignUnlocked, DropInner
  <2>14. CASE WriteSalt(t)
      BY <2>14 DEF WriteSalt
  <2>15. CASE SaveSnapshot(t)
      BY <2>15 DEF SaveSnapshot
  <2>16. CASE AssignLocked(t)
      BY <2>16 DEF AssignLocked, AssignInnerLocked
  <2> QED
      BY <1>3, <2>1, <2>2, <2>3, <2>4, <2>5, <2>6, <2>7, <2>8, <2>9, <2>10, <2>11, <2>12,
         <2>13, <2>14, <2>15, <2>16 DEF OpStep
<1>4. CASE UNCHANGED vars
      BY <1>4 DEF vars
<1> QED
    BY <1>1, <1>2, <1>3, <1>4 DEF Next, Continue

----------------------------------------------------------------------------
(* The session: why only a cutoff that overtakes an unlock leaves a vault   *)
(* open without one.                                                       *)

\* A vault that no cutoff overtook is open over a session, and no cutoff that sealed
\* earlier is still about to clear it; only a cutoff ever clears.
SessionInv ==
    /\ openFor # None /\ ~overtaken => session # None /\ ~CutoffPastSeal
    /\ \A t \in Threads : pc[t] = "clear" => job[t] = "cutoff"

\* Every step keeps it: a cutoff gets past its seal only by closing the vault, and the
\* one step that opens the vault records whether a cutoff is past its seal by then.
LEMMA SessionStep == TypeOK /\ SessionInv /\ [Next]_vars => SessionInv'
<1> SUFFICES ASSUME TypeOK, SessionInv, [Next]_vars
             PROVE  SessionInv'
    OBVIOUS
<1> USE ThreadsAssumption
    DEF TypeOK, SessionInv, CutoffPastSeal, Threads, gateVars, innerVars, authVars, callVars,
        Goto, Return
<1>1. ASSUME Start
      PROVE  SessionInv'
  <2>1. ASSUME NEW t \in Threads, NEW name \in Jobs, NEW point \in EntryPoints,
               NEW p \in Principals \cup {None}, Begin(t, name, point, p)
        PROVE  SessionInv'
        BY <2>1 DEF Begin, EntryPoints
  <2>2. ASSUME NEW p \in Principals, Login(p)
        PROVE  SessionInv'
        BY <2>2 DEF Login
  <2>3. CASE IdleElapses
        BY <2>3 DEF IdleElapses
  <2> QED
      BY <1>1, <2>1, <2>2, <2>3, StartCases
<1>2. ASSUME NEW t \in Threads, SealStep(t)
      PROVE  SessionInv'
  <2>1. CASE ClaimSealing(t)
      BY <2>1 DEF ClaimSealing
  <2>2. CASE WakeSealer(t)
      BY <2>2 DEF WakeSealer
  <2>3. CASE TryClaimSealing(t)
      BY <2>3 DEF TryClaimSealing
  <2>4. CASE RecheckIdle(t)
      BY <2>4 DEF RecheckIdle
  <2>5. CASE CloseSessions(t)
      BY <2>5 DEF CloseSessions, AfterClose, NothingToReset
  <2>6. CASE SealVault(t)
      BY <2>6 DEF SealVault, AssignInnerLocked
  <2>7. CASE RemoveSnapshot(t)
      BY <2>7 DEF RemoveSnapshot
  <2>8. CASE RemoveSalt(t)
      BY <2>8 DEF RemoveSalt
  <2>9. CASE MarkReset(t)
      BY <2>9 DEF MarkReset, AssignInnerLocked
  <2>10. CASE EndSeal(t)
      BY <2>10 DEF EndSeal
  <2>11. CASE Status(t)
      BY <2>11 DEF Status
  <2>12. CASE ClearNative(t)
      BY <2>12 DEF ClearNative
  <2>13. CASE MaybeIdleSeal(t)
      BY <2>13 DEF MaybeIdleSeal
  <2> QED
      BY <1>2, <2>1, <2>2, <2>3, <2>4, <2>5, <2>6, <2>7, <2>8, <2>9, <2>10, <2>11,
         <2>12, <2>13 DEF SealStep
<1>3. ASSUME NEW t \in Threads, OpStep(t)
      PROVE  SessionInv'
  <2>1. CASE BindLease(t)
      BY <2>1 DEF BindLease
  <2>2. CASE ObservePrincipal(t)
      BY <2>2 DEF ObservePrincipal
  <2>3. CASE EnterOp(t)
      BY <2>3 DEF EnterOp
  <2>4. CASE ClaimOperating(t)
      BY <2>4 DEF ClaimOperating, FirstPoint
  <2>5. CASE CheckUnderOp(t)
      BY <2>5 DEF CheckUnderOp
  <2>6. CASE Body(t)
      BY <2>6 DEF Body
  <2>7. CASE RebindLease(t)
      BY <2>7 DEF RebindLease
  <2>8. CASE EndOp(t)
      BY <2>8 DEF EndOp
  <2>9. CASE StatusUnderOp(t)
      BY <2>9 DEF StatusUnderOp
  <2>10. CASE PeekUnlocked(t)
      BY <2>10 DEF PeekUnlocked
  <2>11. CASE LoadSnapshot(t)
      BY <2>11 DEF LoadSnapshot
  <2>12. CASE CheckBeforeAssign(t)
      BY <2>12 DEF CheckBeforeAssign
  <2>13. CASE AssignUnlocked(t)
      BY <2>13 DEF AssignUnlocked, BindingCurrent
  <2>14. CASE WriteSalt(t)
      BY <2>14 DEF WriteSalt
  <2>15. CASE SaveSnapshot(t)
      BY <2>15 DEF SaveSnapshot
  <2>16. CASE AssignLocked(t)
      BY <2>16 DEF AssignLocked, AssignInnerLocked
  <2> QED
      BY <1>3, <2>1, <2>2, <2>3, <2>4, <2>5, <2>6, <2>7, <2>8, <2>9, <2>10, <2>11,
         <2>12, <2>13, <2>14, <2>15, <2>16 DEF OpStep
<1>4. CASE UNCHANGED vars
      BY <1>4 DEF vars
<1> QED
    BY <1>1, <1>2, <1>3, <1>4 DEF Next, Continue

----------------------------------------------------------------------------
(* The results.                                                            *)

\* The inductive invariant.
IndInv ==
    /\ TypeOK
    /\ GateInv
    /\ IntentInv
    /\ ParkedSealerHasWaker
    /\ WaiterAccounting
    /\ VaultInv
    /\ SessionInv

\* The inductive invariant holds when the process starts.
LEMMA IndInvInit == Init => IndInv
<1> SUFFICES ASSUME Init
             PROVE  IndInv
    OBVIOUS
<1>1. TypeOK
      BY TypeInit
<1>2. GateInv /\ IntentInv /\ ParkedSealerHasWaker
      BY ThreadsAssumption DEF Init, GateInv, IntentInv, ParkedSealerHasWaker, OpRegion,
         SealRegion
<1>3. WaiterAccounting
  <2>1. Intents = {}
        BY DEF Init, Intents
  <2> QED
      BY <2>1, FS_EmptySet DEF Init, WaiterAccounting
<1>4. VaultInv
      BY DEF Init, VaultInv, OpenVaultHasFiles, OpKeepsItsVault
<1>5. SessionInv
      BY DEF Init, SessionInv
<1> QED
    BY <1>1, <1>2, <1>3, <1>4, <1>5 DEF IndInv

\* Every step of every handler keeps the inductive invariant.
LEMMA IndInvStep == IndInv /\ [Next]_vars => IndInv'
BY TypeStep, GateStep, IntentStep, WakerStep, CountStep, VaultStep, SessionStep DEF IndInv

\* The inductive invariant holds in every reachable state of the vault service.
THEOREM Invariance == Spec => []IndInv
BY IndInvInit, IndInvStep, PTL DEF Spec

\* Pointwise exclusion is exclusion of the two sets.
LEMMA GateInvExcludes == TypeOK /\ GateInv => GateExclusion
<1> SUFFICES ASSUME TypeOK, GateInv
             PROVE  GateExclusion
    OBVIOUS
<1>1. kind = "idle" => Operators = {} /\ Sealers = {} /\ owner = None
      BY DEF GateInv, Operators, Sealers
<1>2. kind = "operating" => Operators = {owner} /\ Sealers = {}
      BY DEF GateInv, Operators, Sealers
<1>3. ASSUME kind = "sealing"
      PROVE  Operators = {} /\ owner = None /\ \E t \in Threads : Sealers = {t}
  <2>1. PICK t \in Threads : pc[t] \in SealRegion
        BY <1>3 DEF GateInv
  <2>2. Sealers = {t}
        BY <2>1 DEF GateInv, Sealers
  <2> QED
      BY <1>3, <2>2 DEF GateInv, Operators
<1> QED
    BY <1>1, <1>2, <1>3 DEF GateExclusion

\* claim_operating and claim_sealing never let two threads in: operations and seals
\* exclude one another, and the gate word says who is inside.
THEOREM GateExclusive == Spec => []GateExclusion
BY Invariance, GateInvExcludes, PTL DEF IndInv

\* claim_sealing never sleeps through the release it waits for: while a sealer is
\* parked on the condvar the gate is held, and end_op or end_seal will notify it.
THEOREM NoLostWakeup == Spec => []ParkedSealerHasWaker
BY Invariance, PTL DEF IndInv

\* seal_waiters is exactly the number of SealGuards and parked sealers that owe a
\* debit, so saturating_sub never hides an error and no operation is refused for ever.
THEOREM WaitersCounted == Spec => []WaiterAccounting
BY Invariance, PTL DEF IndInv

\* Whatever reset_local, init and failed file operations run around an unlock, an
\* open vault has its salt and its snapshot on disk.
THEOREM OpenVaultOnDisk == Spec => []OpenVaultHasFiles
BY Invariance, PTL DEF IndInv, VaultInv

\* Nobody seals the vault, or opens it for another principal, between the owner check
\* of an operation (a lease included) and the end of that operation.
THEOREM OperationsKeepTheirVault == Spec => []OpKeepsItsVault
BY Invariance, PTL DEF IndInv, VaultInv

\* Where the vault is open and nobody is signed in, a cutoff overtook the unlock: it had
\* sealed, or cleared the session, before unlock_with_password assigned.  No other order
\* of the two handlers, of logins, leases or resets leaves a vault open without a session.
THEOREM OnlyOvertakenOutlivesSession == Spec => []OpenVaultHasSession
<1>1. SessionInv => OpenVaultHasSession
      BY DEF SessionInv, OpenVaultHasSession
<1> QED
    BY Invariance, <1>1, PTL DEF IndInv

\* The five together, which is what the run of the gate checks of claim_operating,
\* claim_sealing, end_op, end_seal and the assignments of `inner` under them.
THEOREM GateIsSound == Spec => []GateSound
<1>1. /\ GateExclusion /\ ParkedSealerHasWaker /\ WaiterAccounting
      /\ OpKeepsItsVault /\ OpenVaultHasSession
      => GateSound
    BY DEF GateSound
<1> QED
    BY GateExclusive, NoLostWakeup, WaitersCounted, OperationsKeepTheirVault,
       OnlyOvertakenOutlivesSession, <1>1, PTL

----------------------------------------------------------------------------
(* Who waits for whom.                                                     *)

\* `inner` stays locked across steps in two places: where enter_op re-enters it, and where
\* an unlock is about to assign.
HolderInv == holder # None => pc[holder] \in {"tick", "unlock_assign"}

LEMMA HolderStep == TypeOK /\ HolderInv /\ [Next]_vars => HolderInv'
<1> SUFFICES ASSUME TypeOK, HolderInv, [Next]_vars
             PROVE  HolderInv'
    OBVIOUS
<1> USE ThreadsAssumption
    DEF TypeOK, HolderInv, Threads, gateVars, innerVars, authVars, callVars, Goto, Return
<1>1. ASSUME Start
      PROVE  HolderInv'
  <2>1. ASSUME NEW t \in Threads, NEW name \in Jobs, NEW point \in EntryPoints,
               NEW p \in Principals \cup {None}, Begin(t, name, point, p)
        PROVE  HolderInv'
        BY <2>1 DEF Begin, EntryPoints
  <2>2. ASSUME NEW p \in Principals, Login(p)
        PROVE  HolderInv'
        BY <2>2 DEF Login
  <2>3. CASE IdleElapses
        BY <2>3 DEF IdleElapses
  <2> QED
      BY <1>1, <2>1, <2>2, <2>3, StartCases
<1>2. ASSUME NEW t \in Threads, SealStep(t)
      PROVE  HolderInv'
  <2>1. CASE ClaimSealing(t)
      BY <2>1 DEF ClaimSealing
  <2>2. CASE WakeSealer(t)
      BY <2>2 DEF WakeSealer
  <2>3. CASE TryClaimSealing(t)
      BY <2>3 DEF TryClaimSealing
  <2>4. CASE RecheckIdle(t)
      BY <2>4 DEF RecheckIdle
  <2>5. CASE CloseSessions(t)
      BY <2>5 DEF CloseSessions
  <2>6. CASE SealVault(t)
      BY <2>6 DEF SealVault
  <2>7. CASE RemoveSnapshot(t)
      BY <2>7 DEF RemoveSnapshot
  <2>8. CASE RemoveSalt(t)
      BY <2>8 DEF RemoveSalt
  <2>9. CASE MarkReset(t)
      BY <2>9 DEF MarkReset
  <2>10. CASE EndSeal(t)
      BY <2>10 DEF EndSeal
  <2>11. CASE Status(t)
      BY <2>11 DEF Status
  <2>12. CASE ClearNative(t)
      BY <2>12 DEF ClearNative
  <2>13. CASE MaybeIdleSeal(t)
      BY <2>13 DEF MaybeIdleSeal
  <2> QED
      BY <1>2, <2>1, <2>2, <2>3, <2>4, <2>5, <2>6, <2>7, <2>8, <2>9, <2>10, <2>11,
         <2>12, <2>13 DEF SealStep
<1>3. ASSUME NEW t \in Threads, OpStep(t)
      PROVE  HolderInv'
  <2>1. CASE BindLease(t)
      BY <2>1 DEF BindLease
  <2>2. CASE ObservePrincipal(t)
      BY <2>2 DEF ObservePrincipal
  <2>3. CASE EnterOp(t)
      BY <2>3 DEF EnterOp
  <2>4. CASE ClaimOperating(t)
      BY <2>4 DEF ClaimOperating
  <2>5. CASE CheckUnderOp(t)
      BY <2>5 DEF CheckUnderOp
  <2>6. CASE Body(t)
      BY <2>6 DEF Body
  <2>7. CASE RebindLease(t)
      BY <2>7 DEF RebindLease
  <2>8. CASE EndOp(t)
      BY <2>8 DEF EndOp
  <2>9. CASE StatusUnderOp(t)
      BY <2>9 DEF StatusUnderOp
  <2>10. CASE PeekUnlocked(t)
      BY <2>10 DEF PeekUnlocked
  <2>11. CASE LoadSnapshot(t)
      BY <2>11 DEF LoadSnapshot
  <2>12. CASE CheckBeforeAssign(t)
      BY <2>12 DEF CheckBeforeAssign
  <2>13. CASE AssignUnlocked(t)
      BY <2>13 DEF AssignUnlocked, DropInner
  <2>14. CASE WriteSalt(t)
      BY <2>14 DEF WriteSalt
  <2>15. CASE SaveSnapshot(t)
      BY <2>15 DEF SaveSnapshot
  <2>16. CASE AssignLocked(t)
      BY <2>16 DEF AssignLocked
  <2> QED
      BY <1>3, <2>1, <2>2, <2>3, <2>4, <2>5, <2>6, <2>7, <2>8, <2>9, <2>10, <2>11,
         <2>12, <2>13, <2>14, <2>15, <2>16 DEF OpStep
<1>4. CASE UNCHANGED vars
      BY <1>4 DEF vars
<1> QED
    BY <1>1, <1>2, <1>3, <1>4 DEF Next, Continue

LEMMA HolderHolds == Spec => []HolderInv
<1>1. Init => HolderInv
      BY DEF Init, HolderInv
<1>2. IndInv /\ HolderInv /\ [Next]_vars => HolderInv'
      BY HolderStep DEF IndInv
<1> QED
    BY <1>1, <1>2, Invariance, PTL DEF Spec

\* A thread that is blocked in the middle of a handler is blocked by `inner`: whoever it
\* waits for at the gate is inside the gate, and stands there only for `inner`.
LEMMA BlockedByInner ==
    ASSUME IndInv, \A t \in Threads : Blocked(t), NEW t \in Threads, pc[t] # "ready"
    PROVE  holder # None
<1>1. ASSUME NEW u \in Threads, pc[u] \in OpRegion \cup SealRegion
      PROVE  holder # None
  <2>1. Blocked(u)
        OBVIOUS
  <2> QED
      BY <1>1, <2>1 DEF Blocked, OpRegion, SealRegion
<1>2. CASE pc[t] = "await" /\ t \in parked
  <2>1. kind # "idle"
        BY <1>2 DEF IndInv, ParkedSealerHasWaker
  <2>2. \E u \in Threads : pc[u] \in OpRegion \cup SealRegion
        BY <2>1 DEF IndInv, TypeOK, GateInv
  <2> QED
      BY <1>1, <2>2
<1> QED
    BY <1>2 DEF Blocked

LEMMA NoOtherDeadlock == IndInv /\ HolderInv => DeadlockIsReentry
<1> SUFFICES ASSUME IndInv, HolderInv, \A t \in Threads : Blocked(t),
                    \E t \in Threads : pc[t] # "ready"
             PROVE  Wedged
    BY DEF DeadlockIsReentry
<1>1. holder # None
      BY BlockedByInner
<1>2. holder \in Threads
      BY <1>1 DEF IndInv, TypeOK
<1>3. pc[holder] # "unlock_assign"
  <2>1. Blocked(holder)
        BY <1>2
  <2> QED
      BY <2>1 DEF Blocked, TakesInner
<1> QED
    BY <1>1, <1>2, <1>3 DEF HolderInv, Wedged

\* The gate's mutex, its condvar, the claims and the mutex `inner` never make a circle, for
\* any number of threads; the only way for all of them to be stuck is enter_op locking
\* `inner` twice.
THEOREM OnlyReentryDeadlocks == Spec => []DeadlockIsReentry
BY Invariance, HolderHolds, NoOtherDeadlock, PTL

\* A seal that was asked for is never forgotten: until it has happened some thread can go
\* on, unless `inner` was entered twice.  With the scheduling of FairSpec this is what
\* SealIntentHonoured rests on.
THEOREM SealIntentIsServed ==
    Spec => [](seal_waiters > 0 => Wedged \/ \E t \in Threads : ~Blocked(t))
<1>1. ASSUME IndInv, DeadlockIsReentry, seal_waiters > 0
      PROVE  Wedged \/ \E t \in Threads : ~Blocked(t)
  <2>1. Intents # {}
        BY <1>1, FS_EmptySet DEF IndInv, WaiterAccounting
  <2>2. PICK t \in Threads : owns_waiter[t]
        BY <2>1 DEF Intents
  <2>3. pc[t] # "ready"
        BY <1>1, <2>2 DEF IndInv, IntentInv, SealRegion
  <2> QED
      BY <1>1, <2>3 DEF DeadlockIsReentry
<1> QED
    BY <1>1, Invariance, OnlyReentryDeadlocks, PTL

----------------------------------------------------------------------------
(* Refinement.                                                             *)

\* Without waiters there are no intents.
LEMMA NoWaitersNoIntents == TypeOK /\ WaiterAccounting /\ seal_waiters = 0 => Intents = {}
BY IntentsFinite, FS_EmptySet DEF WaiterAccounting

\* A step of the gate is a step of the protocol or none.
LEMMA ProtocolStep == IndInv /\ [Next]_vars => [Promise!Next]_(Promise!vars)
<1> SUFFICES ASSUME IndInv, [Next]_vars
             PROVE  Promise!Next \/ UNCHANGED <<Operators, Sealers, Intents, openFor>>
    BY DEF Promise!vars
<1> DEFINE Simulated == Promise!Next \/ UNCHANGED <<Operators, Sealers, Intents, openFor>>
<1> SUFFICES Simulated
    OBVIOUS
<1>0. TypeOK /\ GateInv /\ IntentInv /\ WaiterAccounting /\ VaultInv /\ GateExclusion
      BY GateInvExcludes DEF IndInv
<1> USE <1>0
    DEF TypeOK, Threads, gateVars, innerVars, authVars, callVars, Goto, Return
<1>1. ASSUME Start
      PROVE  UNCHANGED <<Operators, Sealers, Intents, openFor>>
  <2>1. ASSUME NEW t \in Threads, NEW name \in Jobs, NEW point \in EntryPoints,
               NEW p \in Principals \cup {None}, Begin(t, name, point, p)
        PROVE  UNCHANGED <<Operators, Sealers, Intents, openFor>>
        BY <2>1 DEF Begin, EntryPoints, Operators, Sealers, Intents, OpRegion, SealRegion
  <2>2. ASSUME NEW p \in Principals, Login(p)
        PROVE  UNCHANGED <<Operators, Sealers, Intents, openFor>>
        BY <2>2 DEF Login, Operators, Sealers, Intents
  <2>3. CASE IdleElapses
        BY <2>3 DEF IdleElapses, Operators, Sealers, Intents
  <2> QED
      BY <1>1, <2>1, <2>2, <2>3, StartCases
<1>2. ASSUME NEW t \in Threads, SealStep(t)
      PROVE  Simulated
  <2>1. CASE ClaimSealing(t)
    <3>1. t \notin Intents
          BY <2>1 DEF ClaimSealing, IntentInv, Intents, SealRegion
    <3>2. Intents' = Intents \cup {t} /\ Operators' = Operators /\ openFor' = openFor
          BY <2>1 DEF ClaimSealing, Operators, Sealers, Intents, OpRegion, SealRegion
    <3>3. CASE kind = "idle"
      <4>1. Sealers' = {t}
            BY <2>1, <3>3 DEF ClaimSealing, GateExclusion, Sealers, SealRegion
      <4> QED
          BY <3>2, <3>3, <4>1 DEF GateExclusion, Promise!Next, Promise!BeginSeal, Promise!Free
    <3>4. CASE kind # "idle"
      <4>1. Sealers' = Sealers
            BY <2>1, <3>4 DEF ClaimSealing, Sealers, SealRegion
      <4> QED
          BY <3>1, <3>2, <4>1 DEF Promise!Next, Promise!RequestSeal
    <3> QED
        BY <3>3, <3>4
  <2>2. CASE WakeSealer(t)
    <3>1. Intents' = Intents /\ Intents = Intents \cup {t} /\ Operators' = Operators /\
       openFor' = openFor
          BY <2>2 DEF WakeSealer, IntentInv, Operators, Sealers, Intents, OpRegion, SealRegion
    <3>2. CASE kind = "idle"
      <4>1. Sealers' = {t}
            BY <2>2, <3>2 DEF WakeSealer, GateExclusion, Sealers, SealRegion
      <4> QED
          BY <3>1, <3>2, <4>1 DEF GateExclusion, Promise!Next, Promise!BeginSeal, Promise!Free
    <3>3. CASE kind # "idle"
      <4>1. Sealers' = Sealers
            BY <2>2, <3>3 DEF WakeSealer, Sealers
      <4> QED
          BY <3>1, <4>1
    <3> QED
        BY <3>2, <3>3
  <2>3. CASE TryClaimSealing(t)
    <3>1. Intents' = Intents /\ Operators' = Operators /\ openFor' = openFor
          BY <2>3 DEF TryClaimSealing, IntentInv, Operators, Sealers, Intents, OpRegion,
             SealRegion
    <3>2. CASE GateAdmits
      <4>1. Sealers' = {t}
            BY <2>3, <3>2 DEF TryClaimSealing, GateAdmits, GateExclusion, Sealers, SealRegion
      <4>2. Operators = {} /\ Sealers = {} /\ Intents = {}
            BY <3>2, NoWaitersNoIntents DEF GateAdmits, GateExclusion
      <4> QED
          BY <3>1, <4>1, <4>2
          DEF Promise!Next, Promise!BeginOpportunisticSeal, Promise!Free
    <3>3. CASE ~GateAdmits
      <4>1. Sealers' = Sealers
            BY <2>3, <3>3 DEF TryClaimSealing, Sealers, SealRegion
      <4> QED
          BY <3>1, <4>1
    <3> QED
        BY <3>2, <3>3
  <2>4. CASE RecheckIdle(t)
      BY <2>4 DEF RecheckIdle, Operators, Sealers, Intents, OpRegion, SealRegion
  <2>5. CASE CloseSessions(t)
      BY <2>5 DEF CloseSessions, AfterClose, NothingToReset, Operators, Sealers, Intents,
         OpRegion, SealRegion
  <2>6. CASE SealVault(t)
    <3>1. t \in Sealers /\ openFor' = None /\ UNCHANGED <<Operators, Sealers, Intents>>
          BY <2>6 DEF SealVault, AssignInnerLocked, Operators, Sealers, Intents, OpRegion, SealRegion
    <3> QED
        BY <3>1 DEF Promise!Next, Promise!Seal
  <2>7. CASE RemoveSnapshot(t)
      BY <2>7 DEF RemoveSnapshot, Operators, Sealers, Intents, OpRegion, SealRegion
  <2>8. CASE RemoveSalt(t)
      BY <2>8 DEF RemoveSalt, Operators, Sealers, Intents, OpRegion, SealRegion
  <2>9. CASE MarkReset(t)
    <3>1. t \in Sealers /\ openFor' = None /\ UNCHANGED <<Operators, Sealers, Intents>>
          BY <2>9 DEF MarkReset, AssignInnerLocked, Operators, Sealers, Intents, OpRegion, SealRegion
    <3> QED
        BY <3>1 DEF Promise!Next, Promise!Seal
  <2>10. CASE EndSeal(t)
    <3>1. t \in Sealers /\ openFor' = openFor /\ Intents' = Intents \ {t}
          BY <2>10 DEF EndSeal, Operators, Sealers, Intents, OpRegion, SealRegion
    <3>2. Sealers' = {} /\ Operators' = Operators
          BY <2>10 DEF EndSeal, GateInv, Operators, Sealers, Intents, OpRegion, SealRegion
    <3> QED
        BY <3>1, <3>2 DEF Promise!Next, Promise!EndSeal
  <2>11. CASE Status(t)
      BY <2>11 DEF Status, Operators, Sealers, Intents, OpRegion, SealRegion
  <2>12. CASE ClearNative(t)
      BY <2>12 DEF ClearNative, Operators, Sealers, Intents, OpRegion, SealRegion
  <2>13. CASE MaybeIdleSeal(t)
      BY <2>13 DEF MaybeIdleSeal, Operators, Sealers, Intents, OpRegion, SealRegion
  <2> QED
      BY <1>2, <2>1, <2>2, <2>3, <2>4, <2>5, <2>6, <2>7, <2>8, <2>9, <2>10, <2>11, <2>12, <2>13
         DEF SealStep
<1>3. ASSUME NEW t \in Threads, OpStep(t)
      PROVE  Simulated
  <2>1. CASE BindLease(t)
      BY <2>1 DEF BindLease, Operators, Sealers, Intents, OpRegion, SealRegion
  <2>2. CASE ObservePrincipal(t)
      BY <2>2 DEF ObservePrincipal, Operators, Sealers, Intents, OpRegion, SealRegion
  <2>3. CASE EnterOp(t)
      BY <2>3 DEF EnterOp, Operators, Sealers, Intents, OpRegion, SealRegion
  <2>4. CASE ClaimOperating(t)
    <3>1. Intents' = Intents /\ Sealers' = Sealers /\ openFor' = openFor
          BY <2>4 DEF ClaimOperating, FirstPoint, Operators, Sealers, Intents, OpRegion,
             SealRegion
    <3>2. CASE GateAdmits
      <4>1. Operators' = {t}
            BY <2>4, <3>2 DEF ClaimOperating, FirstPoint, GateAdmits, GateExclusion, Operators,
               OpRegion
      <4>2. Operators = {} /\ Sealers = {} /\ Intents = {}
            BY <3>2, NoWaitersNoIntents DEF GateAdmits, GateExclusion
      <4> QED
          BY <3>1, <4>1, <4>2 DEF Promise!Next, Promise!BeginOp, Promise!Free
    <3>3. CASE ~GateAdmits
      <4>1. Operators' = Operators
            BY <2>4, <3>3 DEF ClaimOperating, Operators, OpRegion
      <4> QED
          BY <3>1, <4>1
    <3> QED
        BY <3>2, <3>3
  <2>5. CASE CheckUnderOp(t)
    <3>1. Intents' = Intents /\ Sealers' = Sealers /\ openFor' = openFor /\ t \in Operators
          BY <2>5 DEF CheckUnderOp, Operators, Sealers, Intents, OpRegion, SealRegion
    <3>2. Operators' = {} \/ Operators' = Operators
          BY <2>5 DEF CheckUnderOp, GateInv, Operators, OpRegion
    <3> QED
        BY <3>1, <3>2 DEF Promise!Next, Promise!EndOp
  <2>6. CASE Body(t)
      BY <2>6 DEF Body, OwnsVault, Operators, Sealers, Intents, OpRegion, SealRegion
  <2>7. CASE RebindLease(t)
      BY <2>7 DEF RebindLease, Operators, Sealers, Intents, OpRegion, SealRegion
  <2>8. CASE EndOp(t)
    <3>1. Intents' = Intents /\ Sealers' = Sealers /\ openFor' = openFor /\ t \in Operators
          BY <2>8 DEF EndOp, ReleaseOperating, Operators, Sealers, Intents, OpRegion, SealRegion
    <3>2. Operators' = {}
          BY <2>8 DEF EndOp, GateInv, Operators, OpRegion
    <3> QED
        BY <3>1, <3>2 DEF Promise!Next, Promise!EndOp
  <2>9. CASE StatusUnderOp(t)
      BY <2>9 DEF StatusUnderOp, Operators, Sealers, Intents, OpRegion, SealRegion
  <2>10. CASE PeekUnlocked(t)
      BY <2>10 DEF PeekUnlocked, Operators, Sealers, Intents, OpRegion, SealRegion
  <2>11. CASE LoadSnapshot(t)
      BY <2>11 DEF LoadSnapshot, Operators, Sealers, Intents, OpRegion, SealRegion
  <2>12. CASE CheckBeforeAssign(t)
      BY <2>12 DEF CheckBeforeAssign, Operators, Sealers, Intents, OpRegion, SealRegion
  <2>13. CASE AssignUnlocked(t)
    <3>1. t \in Operators /\ UNCHANGED <<Operators, Sealers, Intents>>
          BY <2>13 DEF AssignUnlocked, Operators, Sealers, Intents, OpRegion, SealRegion
    <3>2. openFor = None /\ openFor' \in Principals
          BY <2>13 DEF AssignUnlocked, VaultInv
    <3> QED
        BY <3>1, <3>2 DEF Promise!Next, Promise!OpenVault
  <2>14. CASE WriteSalt(t)
      BY <2>14 DEF WriteSalt, Operators, Sealers, Intents, OpRegion, SealRegion
  <2>15. CASE SaveSnapshot(t)
      BY <2>15 DEF SaveSnapshot, Operators, Sealers, Intents, OpRegion, SealRegion
  <2>16. CASE AssignLocked(t)
      BY <2>16 DEF AssignLocked, AssignInnerLocked, VaultInv, Operators, Sealers, Intents, OpRegion, SealRegion
  <2> QED
      BY <1>3, <2>1, <2>2, <2>3, <2>4, <2>5, <2>6, <2>7, <2>8, <2>9, <2>10, <2>11, <2>12,
         <2>13, <2>14, <2>15, <2>16 DEF OpStep
<1>4. CASE UNCHANGED vars
      BY <1>4 DEF vars, Operators, Sealers, Intents
<1> QED
    BY <1>1, <1>2, <1>3, <1>4 DEF Next, Continue

\* The mutex, the condvar and the waiter count of vault.rs implement the seal
\* protocol that their doc comments promise.
THEOREM GateImplementsProtocol == Spec => ImplementsSealProtocol
<1>1. Init => Promise!Init
      BY DEF Init, Promise!Init, Operators, Sealers, Intents, OpRegion, SealRegion
<1> QED
    BY <1>1, Invariance, ProtocolStep, PTL DEF Spec, ImplementsSealProtocol, Promise!Spec
============================================================================
