-------------------------- MODULE SshSessionsProofs -------------------------
(***************************************************************************)
(* Proofs about SshSessions for every set of open calls, of callers, of    *)
(* principals and of credentials.                                          *)
(***************************************************************************)
EXTENDS SshSessions, FiniteSetTheorems, TLAPS

CallTyped ==
    /\ pc \in [Threads -> Points]
    /\ job \in [Threads -> Jobs]
    /\ arg \in [Threads -> Openers \cup Keys \cup {None}]

\* An open call past its prepare has a target.
TargetInv ==
    \A o \in Openers :
        pc[o] \in {"lease", "tickets", "connect", "check", "register", "bind"}
            => target[o] \in Targets

\* A thread moves to a program point.
LEMMA GotoType ==
    ASSUME CallTyped, NEW t \in Threads, NEW point \in Points, Goto(t, point)
    PROVE  CallTyped'
BY DEF CallTyped, Goto

\* A thread is done with its command.
LEMMA FinishType ==
    ASSUME CallTyped, NEW t \in Threads, Finish(t)
    PROVE  CallTyped'
BY DEF CallTyped, Finish, Points, Jobs

\* It keeps the three variables typed.
LEMMA RemoveEndedType ==
    ASSUME NEW o \in Openers, RemoveEnded(o), sessions \subseteq Openers,
           dead \in [Openers -> BOOLEAN], helpers \subseteq Openers
    PROVE  /\ sessions' \subseteq Openers /\ helpers' \subseteq Openers
           /\ dead' \in [Openers -> BOOLEAN]
<1>1. CASE o \in sessions /\ dead[o]
    BY <1>1 DEF RemoveEnded, TakeOut
<1>2. CASE o \in sessions /\ ~dead[o]
  <2>1. {o} \cup helpers \subseteq Openers
      OBVIOUS
  <2>2. helpers' = helpers \cup {o}
      BY <1>2 DEF RemoveEnded
  <2>3. sessions' = sessions \ {o} /\ dead' = [dead EXCEPT ![o] = TRUE]
      BY <1>2 DEF RemoveEnded, TakeOut
  <2>4. sessions' \subseteq Openers
      BY <2>3
  <2>5. dead' \in [Openers -> BOOLEAN]
      BY <2>3
  <2> QED
      BY <2>1, <2>2, <2>4, <2>5
<1>3. CASE o \notin sessions
    BY <1>3 DEF RemoveEnded
<1> QED
    BY <1>1, <1>2, <1>3

\* Every step keeps every variable in its domain.
LEMMA TypeStep == TypeOK /\ TargetInv /\ [Next]_vars => TypeOK'
<1> SUFFICES ASSUME TypeOK, TargetInv, [Next]_vars
             PROVE  TypeOK'
    OBVIOUS
<1> USE ThreadsAssumption, GotoType, FinishType
    DEF TypeOK, Threads, Keys, authVars, vaultVars, mapVars, openVars, wireVars
<1>0. CallTyped
    BY DEF CallTyped
<1>1. ASSUME Start
      PROVE  TypeOK'
  <2>1. ASSUME NEW p \in Principals, Login(p)
        PROVE  TypeOK'
      BY <1>0, <2>1 DEF CallTyped, Points, Jobs, callVars, Login
  <2>2. CASE Unlock
      BY <1>0, <2>2 DEF CallTyped, Points, Jobs, callVars, Unlock
  <2>3. ASSUME NEW o \in Openers, NEW k \in Credentials, Prepare(o, k)
        PROVE  TypeOK'
      BY <2>3 DEF Prepare, Targets, Points, Jobs
  <2>4. ASSUME NEW c \in Callers, BeginLock(c)
        PROVE  TypeOK'
      BY <1>0, <2>4 DEF CallTyped, Points, Jobs, callVars, BeginLock, Begin
  <2>5. ASSUME NEW c \in Callers, BeginCutoff(c)
        PROVE  TypeOK'
      BY <1>0, <2>5 DEF CallTyped, Points, Jobs, callVars, BeginCutoff, Begin
  <2>6. ASSUME NEW c \in Callers, NEW k \in Credentials, BeginDelete(c, k)
        PROVE  TypeOK'
      BY <1>0, <2>6 DEF CallTyped, Points, Jobs, callVars, BeginDelete, Begin
  <2>7. ASSUME NEW c \in Callers, NEW o \in Openers, CloseSession(c, o)
        PROVE  TypeOK'
    <3>1. CASE o \in sessions /\ Bound(o)
      <4>1. CallTyped'
        <5>1. /\ pc' = [pc EXCEPT ![c] = "drain"]
              /\ job' = [job EXCEPT ![c] = "close"]
              /\ arg' = [arg EXCEPT ![c] = None]
            BY <3>1, <2>7 DEF CloseSession, RemoveAndClose
        <5> QED
            BY <1>0, <5>1 DEF Points, Jobs, CallTyped
      <4>2. {o} \in SUBSET Openers
            OBVIOUS
      <4>3. sessions' \subseteq Openers /\ todo' \in [Threads -> SUBSET Openers]
            BY <3>1, <4>2, <2>7, SMTT(30) DEF CloseSession, RemoveAndClose, TakeOut
      <4> QED
            BY <4>1, <4>3, <2>7 DEF CloseSession, CallTyped
    <3>2. CASE ~(o \in sessions /\ Bound(o))
          BY <3>2, <2>7 DEF CloseSession, callVars
    <3> QED
          BY <3>1, <3>2
  <2>8. ASSUME NEW c \in Callers, NEW o \in Openers, LookupSlot(c, o)
        PROVE  TypeOK'
      BY <1>0, <2>8 DEF CallTyped, Points, Jobs, callVars, LookupSlot, Begin
  <2> QED
      BY <1>1, <2>1, <2>2, <2>3, <2>4, <2>5, <2>6, <2>7, <2>8 DEF Start
<1>2. ASSUME NEW t \in Threads,
             LockStep(t)
      PROVE  TypeOK'
  <2>1. CASE CloseAll(t)
    <3>1. CallTyped'
          BY <1>0, <2>1 DEF Points, callVars, CallTyped, CloseAll, RaiseBarrier, TakeOut
    <3> QED
          BY <3>1, <2>1 DEF CallTyped, CloseAll, RaiseBarrier, TakeOut, Miss
  <2>2. CASE CloseSlot(t)
    <3>1. CallTyped'
          BY <1>0, <2>2 DEF Points, callVars, CallTyped, CloseSlot, AfterDrain
    <3>2. CASE todo[t] = {}
          BY <3>1, <3>2, <2>2 DEF CallTyped, CloseSlot
    <3>3. CASE todo[t] # {}
      <4>1. PICK o \in todo[t] :
                /\ todo' = [todo EXCEPT ![t] = todo[t] \ {o}]
                /\ dead' = [dead EXCEPT ![o] = TRUE]
                /\ IF dead[o] THEN UNCHANGED <<transport, closes>> ELSE CloseTransport(o)
            BY <3>3, <2>2 DEF CloseSlot
      <4>2. o \in Openers
            BY <4>1
      <4>3. /\ transport' \in [Openers -> {"none", "live", "ended", "closed"}]
            /\ closes' \in [Openers -> Nat]
        <5>1. CASE dead[o]
            BY <4>1, <5>1
        <5>2. CASE ~dead[o]
          <6>1. /\ transport' = [transport EXCEPT ![o] = "closed"]
                /\ closes' = [closes EXCEPT ![o] = closes[o] + 1]
              BY <4>1, <5>2 DEF CloseTransport
          <6> QED
              BY <4>2, <6>1
        <5> QED
            BY <5>1, <5>2
      <4>4. dead' \in [Openers -> BOOLEAN]
            BY <4>1, <4>2
      <4> DEFINE left == todo[t] \ {o}
      <4>5. left \in SUBSET Openers
            OBVIOUS
      <4>6. todo' = [todo EXCEPT ![t] = left]
            BY <4>1
      <4> HIDE DEF left
      <4>7. todo' \in [Threads -> SUBSET Openers]
            BY <4>5, <4>6
      <4> QED
            BY <3>1, <4>3, <4>4, <4>7, <2>2 DEF CallTyped, CloseSlot
    <3> QED
          BY <3>2, <3>3
  <2>3. CASE ClaimSealing(t)
    <3>1. CallTyped'
          BY <1>0, <2>3 DEF Points, callVars, CallTyped, ClaimSealing
    <3> QED
          BY <3>1, <2>3 DEF CallTyped, ClaimSealing
  <2>4. CASE Seal(t)
    <3>1. CallTyped'
          BY <1>0, <2>4 DEF Points, callVars, CallTyped, Seal
    <3> QED
          BY <3>1, <2>4 DEF CallTyped, Seal
  <2> QED
      BY <1>2, <2>1, <2>2, <2>3, <2>4 DEF LockStep
<1>3. ASSUME NEW o \in Openers,
             OpenStep(o) \/ TellSink(o) \/ HelperCloses(o) \/ PeerEnds(o) \/ SinkFails(o)
      PROVE  TypeOK'
  <2>1. CASE Lease(o)
    <3>1. CallTyped'
          BY <1>0, <2>1 DEF Points, callVars, CallTyped, Lease, IdleSeal, ForeignVault
    <3> QED
          BY <3>1, <2>1 DEF CallTyped, Lease, IdleSeal, ForeignVault
  <2>2. CASE TakeTickets(o)
    <3>1. CallTyped'
          BY <1>0, <2>2 DEF Points, TakeTickets
    <3>2. cred_epoch[KeyOf(o)] \in Nat
          BY <2>2 DEF TakeTickets, TargetInv, Targets, KeyOf
    <3>3. gen_ticket' \in [Openers -> Nat]
          BY <2>2 DEF TakeTickets
    <3>4. cred_ticket' \in [Openers -> Nat]
          BY <3>2, <2>2 DEF TakeTickets
    <3> QED
          BY <3>1, <3>3, <3>4, <2>2 DEF CallTyped, TakeTickets
  <2>3. CASE Connect(o)
    <3>1. CallTyped'
          BY <1>0, <2>3 DEF Points, callVars, CallTyped, Connect
    <3> QED
          BY <3>1, <2>3 DEF CallTyped, Connect
  <2>4. CASE CheckConnected(o)
    <3>1. CallTyped'
          BY <1>0, <2>4 DEF Points, CheckConnected
    <3>2. /\ transport' \in [Openers -> {"none", "live", "ended", "closed"}]
          /\ closes' \in [Openers -> Nat]
          BY <2>4, SMTT(30) DEF CheckConnected, CloseRejected, CloseTransport
    <3> QED
          BY <3>1, <3>2, <2>4 DEF CallTyped, CheckConnected
  <2>5. CASE Register(o)
    <3>1. CallTyped'
          BY <1>0, <2>5 DEF Points, Register
    <3>2. /\ transport' \in [Openers -> {"none", "live", "ended", "closed"}]
          /\ closes' \in [Openers -> Nat]
          BY <2>5, SMTT(30) DEF Register, CloseRejected, CloseTransport
    <3> QED
          BY <3>1, <3>2, <2>5 DEF CallTyped, Register
  <2>6. CASE BindSink(o)
    <3>1. CallTyped'
          BY <1>0, <2>6 DEF CallTyped, Points, BindSink
    <3>2. sink' \in [Openers -> {"pending", "ending", "bound", "failed"}]
          BY <2>6 DEF BindSink
    <3>3. CASE RemoveEnded(o)
      <4>1. /\ sessions' \subseteq Openers /\ helpers' \subseteq Openers
            /\ dead' \in [Openers -> BOOLEAN]
            BY <3>3, RemoveEndedType
      <4> QED
            BY <3>1, <3>2, <4>1, <2>6 DEF CallTyped, BindSink
    <3>4. CASE UNCHANGED <<sessions, dead, helpers>>
          BY <3>1, <3>2, <3>4, <2>6 DEF CallTyped, BindSink
    <3> QED
          BY <3>3, <3>4, <2>6 DEF BindSink
  <2>7. CASE TellSink(o)
    <3>1. CallTyped'
          BY <1>0, <2>7 DEF CallTyped, Points, TellSink, OnClosedWhenBound, callVars
    <3>2. sink' \in [Openers -> {"pending", "ending", "bound", "failed"}]
          BY <2>7 DEF TellSink, OnClosedWhenBound
    <3>3. CASE RemoveEnded(o)
      <4>1. /\ sessions' \subseteq Openers /\ helpers' \subseteq Openers
            /\ dead' \in [Openers -> BOOLEAN]
            BY <3>3, RemoveEndedType
      <4> QED
            BY <3>1, <3>2, <4>1, <2>7 DEF CallTyped, TellSink, OnClosedWhenBound
    <3>4. CASE UNCHANGED <<sessions, dead, helpers>>
          BY <3>1, <3>2, <3>4, <2>7 DEF CallTyped, TellSink, OnClosedWhenBound
    <3> QED
          BY <3>3, <3>4, <2>7 DEF TellSink, OnClosedWhenBound
  <2>8. CASE HelperCloses(o)
    <3>1. CallTyped'
          BY <1>0, <2>8 DEF Points, callVars, CallTyped, HelperCloses, CloseTransport
    <3> QED
          BY <3>1, <2>8 DEF CallTyped, HelperCloses, CloseTransport
  <2>9. CASE PeerEnds(o)
    <3>1. CallTyped'
          BY <1>0, <2>9 DEF Points, callVars, CallTyped, PeerEnds
    <3> QED
          BY <3>1, <2>9 DEF CallTyped, PeerEnds
  <2>10. CASE SinkFails(o)
    <3>1. CallTyped'
          BY <1>0, <2>10 DEF CallTyped, Points, SinkFails, callVars
    <3>2. sink' \in [Openers -> {"pending", "ending", "bound", "failed"}]
          BY <2>10 DEF SinkFails
    <3>3. CASE RemoveEnded(o)
      <4>1. /\ sessions' \subseteq Openers /\ helpers' \subseteq Openers
            /\ dead' \in [Openers -> BOOLEAN]
            BY <3>3, RemoveEndedType
      <4> QED
            BY <3>1, <3>2, <4>1, <2>10 DEF CallTyped, SinkFails
    <3>4. CASE UNCHANGED <<sessions, dead, helpers>>
          BY <3>1, <3>2, <3>4, <2>10 DEF CallTyped, SinkFails
    <3> QED
          BY <3>3, <3>4, <2>10 DEF SinkFails
  <2> QED
      BY <1>3, <2>1, <2>2, <2>3, <2>4, <2>5, <2>6, <2>7, <2>8, <2>9, <2>10 DEF OpenStep
<1>4. ASSUME NEW c \in Callers,
             CallerStep(c)
      PROVE  TypeOK'
  <2>1. CASE ClearNative(c)
    <3>1. CallTyped'
          BY <1>0, <2>1 DEF Points, callVars, CallTyped, ClearNative
    <3> QED
          BY <3>1, <2>1 DEF CallTyped, ClearNative
  <2>2. CASE Delete(c)
    <3>1. CallTyped'
          BY <1>0, <2>2 DEF Points, callVars, CallTyped, Delete, IdleSeal, ForeignVault
    <3> QED
          BY <3>1, <2>2 DEF CallTyped, Delete, IdleSeal, ForeignVault
  <2>3. CASE RevokeCredential(c)
    <3>1. CallTyped'
          BY <1>0, <2>3 DEF Points, RevokeCredential
    <3>2. cred_epoch' \in [Keys -> Nat]
      <4> DEFINE k == arg[c]
      <4>1. cred_epoch' = [cred_epoch EXCEPT ![k] = cred_epoch[k] + 1]
            BY <2>3 DEF RevokeCredential, BumpCredential
      <4>2. CASE k \in Keys
            BY <4>1, <4>2
      <4>3. CASE k \notin Keys
            BY <4>1, <4>3
      <4> QED
            BY <4>2, <4>3
    <3>3. sessions' \subseteq Openers /\ todo' \in [Threads -> SUBSET Openers]
          BY <2>3 DEF RevokeCredential, TakeOut
    <3> QED
          BY <3>1, <3>2, <3>3, <2>3 DEF CallTyped, RevokeCredential, Miss
  <2>4. CASE Erase(c)
    <3>1. CallTyped'
          BY <1>0, <2>4 DEF Points, callVars, CallTyped, Erase
    <3> QED
          BY <3>1, <2>4 DEF CallTyped, Erase
  <2>5. CASE RevalidateIo(c)
    <3>1. CallTyped'
      <4>1. CASE (dead[arg[c]] \/ ~Bound(arg[c])) /\ arg[c] \in sessions
          <5>1. /\ pc' = [pc EXCEPT ![c] = "drain"]
                /\ job' = [job EXCEPT ![c] = "close"]
                /\ arg' = [arg EXCEPT ![c] = None]
              BY <4>1, <2>5 DEF RevalidateIo, RemoveAndClose
          <5> QED
              BY <1>0, <5>1 DEF Points, Jobs, CallTyped
      <4>2. CASE ~((dead[arg[c]] \/ ~Bound(arg[c])) /\ arg[c] \in sessions)
            BY <1>0, <4>2, <2>5 DEF RevalidateIo, RemoveAndClose, CallTyped, Points
      <4> QED
            BY <4>1, <4>2
    <3> QED
          BY <3>1, <2>5, SMTT(30) DEF CallTyped, RevalidateIo, RemoveAndClose, TakeOut
  <2> QED
      BY <1>4, <2>1, <2>2, <2>3, <2>4, <2>5 DEF CallerStep
<1>5. CASE UNCHANGED vars
      BY <1>5 DEF vars, callVars
<1> QED
    BY <1>1, <1>2, <1>3, <1>4, <1>5 DEF Next, Disturb
\* An open call keeps its target.
LEMMA TargetStep == TypeOK /\ TargetInv /\ [Next]_vars => TargetInv'
<1> SUFFICES ASSUME TypeOK, TargetInv, [Next]_vars
             PROVE  TargetInv'
    OBVIOUS
<1> USE ThreadsAssumption
    DEF TypeOK, TargetInv, Threads, Points, authVars, vaultVars, mapVars, openVars, wireVars,
        callVars, Goto, Finish
<1>1. ASSUME Start
      PROVE  TargetInv'
  <2>1. ASSUME NEW p \in Principals, Login(p)
        PROVE  TargetInv'
      BY <2>1 DEF Login
  <2>2. CASE Unlock
      BY <2>2 DEF Unlock
  <2>3. ASSUME NEW o \in Openers, NEW k \in Credentials, Prepare(o, k)
        PROVE  TargetInv'
      BY <2>3 DEF Prepare, Targets
  <2>4. ASSUME NEW c \in Callers, BeginLock(c)
        PROVE  TargetInv'
      BY <2>4 DEF BeginLock, Begin
  <2>5. ASSUME NEW c \in Callers, BeginCutoff(c)
        PROVE  TargetInv'
      BY <2>5 DEF BeginCutoff, Begin
  <2>6. ASSUME NEW c \in Callers, NEW k \in Credentials, BeginDelete(c, k)
        PROVE  TargetInv'
      BY <2>6 DEF BeginDelete, Begin
  <2>7. ASSUME NEW c \in Callers, NEW o \in Openers, CloseSession(c, o)
        PROVE  TargetInv'
      BY <2>7 DEF CloseSession, RemoveAndClose, TakeOut
  <2>8. ASSUME NEW c \in Callers, NEW o \in Openers, LookupSlot(c, o)
        PROVE  TargetInv'
      BY <2>8 DEF LookupSlot, Begin
  <2> QED
      BY <1>1, <2>1, <2>2, <2>3, <2>4, <2>5, <2>6, <2>7, <2>8 DEF Start
<1>2. ASSUME NEW t \in Threads,
             LockStep(t)
      PROVE  TargetInv'
  <2>1. CASE CloseAll(t)
      BY <2>1 DEF CloseAll, RaiseBarrier, TakeOut
  <2>2. CASE CloseSlot(t)
      BY <2>2 DEF CloseSlot, AfterDrain, CloseTransport
  <2>3. CASE ClaimSealing(t)
      BY <2>3 DEF ClaimSealing
  <2>4. CASE Seal(t)
      BY <2>4 DEF Seal
  <2> QED
      BY <1>2, <2>1, <2>2, <2>3, <2>4 DEF LockStep
<1>3. ASSUME NEW o \in Openers,
             OpenStep(o) \/ TellSink(o) \/ HelperCloses(o) \/ PeerEnds(o) \/ SinkFails(o)
      PROVE  TargetInv'
  <2>1. CASE Lease(o)
      BY <2>1 DEF Lease, IdleSeal, ForeignVault
  <2>2. CASE TakeTickets(o)
      BY <2>2 DEF TakeTickets
  <2>3. CASE Connect(o)
      BY <2>3 DEF Connect
  <2>4. CASE CheckConnected(o)
      BY <2>4 DEF CheckConnected, CloseRejected, CloseTransport
  <2>5. CASE Register(o)
      BY <2>5 DEF Register, TicketsCurrent, CloseRejected, CloseTransport
  <2>6. CASE BindSink(o)
      BY <2>6 DEF BindSink
  <2>7. CASE TellSink(o)
      BY <2>7 DEF TellSink
  <2>8. CASE HelperCloses(o)
      BY <2>8 DEF HelperCloses, CloseTransport
  <2>9. CASE PeerEnds(o)
      BY <2>9 DEF PeerEnds
  <2>10. CASE SinkFails(o)
      BY <2>10 DEF SinkFails
  <2> QED
      BY <1>3, <2>1, <2>2, <2>3, <2>4, <2>5, <2>6, <2>7, <2>8, <2>9, <2>10 DEF OpenStep
<1>4. ASSUME NEW c \in Callers,
             CallerStep(c)
      PROVE  TargetInv'
  <2>1. CASE ClearNative(c)
      BY <2>1 DEF ClearNative
  <2>2. CASE Delete(c)
      BY <2>2 DEF Delete, IdleSeal, ForeignVault
  <2>3. CASE RevokeCredential(c)
      BY <2>3 DEF RevokeCredential, BumpCredential, TakeOut
  <2>4. CASE Erase(c)
      BY <2>4 DEF Erase
  <2>5. CASE RevalidateIo(c)
      BY <2>5 DEF RevalidateIo, RemoveAndClose, TakeOut
  <2> QED
      BY <1>4, <2>1, <2>2, <2>3, <2>4, <2>5 DEF CallerStep
<1>5. CASE UNCHANGED vars
      BY <1>5 DEF vars
<1> QED
    BY <1>1, <1>2, <1>3, <1>4, <1>5 DEF Next, Disturb

\* The initial state of a freshly started process is well typed.
LEMMA TypeInit == Init => TypeOK /\ TargetInv
BY ThreadsAssumption DEF Init, TypeOK, TargetInv, Threads, Points, Jobs, Keys

\* Every variable of the registry, of the open calls and of their transports stays in
\* its domain, for any number of open calls and callers.
THEOREM TypeCorrect == Spec => []TypeOK
<1>1. TypeOK /\ TargetInv /\ [Next]_vars => (TypeOK /\ TargetInv)'
    BY TypeStep, TargetStep
<1> QED
    BY <1>1, TypeInit, PTL DEF Spec

-----------------------------------------------------------------------------
(* The generation barrier.                                                   *)

Connecting(o) == pc[o] \in {"connect", "check", "register"}

\* Tickets are never ahead of what they were read from; a registered slot belongs to
\* an open call that is past its insert and whose tickets are still current.
BarrierInv ==
    \A o \in Openers :
        /\ Connecting(o) =>
                gen_ticket[o] <= generation /\ cred_ticket[o] <= cred_epoch[KeyOf(o)]
        /\ o \in sessions =>
                pc[o] \in {"bind", "done"} /\ target[o] \in Targets /\ Fresh(o)

\* No open call comes back from its end, and none connects that was not connecting.
Onward ==
    \A o \in Openers :
        /\ Connecting(o)' => Connecting(o)
        /\ pc[o] \in {"bind", "done"} => pc'[o] \in {"bind", "done"}

\* What reads no ticket, raises no barrier and registers nothing keeps BarrierInv.
LEMMA BarrierFrame ==
    ASSUME BarrierInv, Onward, sessions' \subseteq sessions,
           UNCHANGED <<generation, cred_epoch, target, gen_ticket, cred_ticket>>
    PROVE  BarrierInv'
<1>1. \A o \in Openers : KeyOf(o)' = KeyOf(o)
    BY DEF KeyOf
<1> QED
    BY <1>1 DEF BarrierInv, Onward, Connecting, Fresh

\* Every step keeps the barrier: what holds an older ticket is not registered.
LEMMA BarrierStep == TypeOK /\ TargetInv /\ BarrierInv /\ [Next]_vars => BarrierInv'
<1> SUFFICES ASSUME TypeOK, TargetInv, BarrierInv, [Next]_vars
             PROVE  BarrierInv'
    OBVIOUS
<1> USE ThreadsAssumption, BarrierFrame
    DEF TypeOK, Threads, Points, authVars, vaultVars, mapVars, openVars, wireVars, callVars
<1>1. ASSUME Start
      PROVE  BarrierInv'
  <2>1. ASSUME NEW p \in Principals, Login(p)
        PROVE  BarrierInv'
    <3>1. Onward
          BY <2>1 DEF Onward, Connecting, Goto, Finish, Login
    <3>2. sessions' \subseteq sessions
          BY <2>1 DEF Login
    <3> QED
          BY <3>1, <3>2, <2>1 DEF Login
  <2>2. CASE Unlock
    <3>1. Onward
          BY <2>2 DEF Onward, Connecting, Goto, Finish, Unlock
    <3>2. sessions' \subseteq sessions
          BY <2>2 DEF Unlock
    <3> QED
          BY <3>1, <3>2, <2>2 DEF Unlock
  <2>3. ASSUME NEW o \in Openers, NEW k \in Credentials, Prepare(o, k)
        PROVE  BarrierInv'
    <3>1. pc[o] = "ready" /\ target' = [target EXCEPT ![o] = target'[o]]
          BY <2>3 DEF Prepare
    <3>2. \A x \in Openers \ {o} : KeyOf(x)' = KeyOf(x) /\ target'[x] = target[x] /\ pc'[x] = pc[x]
          BY <2>3 DEF Prepare, KeyOf
    <3>3. o \notin sessions /\ pc'[o] = "lease"
          BY <3>1, <2>3 DEF BarrierInv, Prepare
    <3> QED
          BY <3>2, <3>3, <2>3 DEF Prepare, BarrierInv, Connecting, Fresh
  <2>4. ASSUME NEW c \in Callers, BeginLock(c)
        PROVE  BarrierInv'
    <3>1. Onward
          BY <2>4 DEF Onward, Connecting, Goto, Finish, BeginLock, Begin
    <3>2. sessions' \subseteq sessions
          BY <2>4 DEF BeginLock, Begin
    <3> QED
          BY <3>1, <3>2, <2>4 DEF BeginLock, Begin
  <2>5. ASSUME NEW c \in Callers, BeginCutoff(c)
        PROVE  BarrierInv'
    <3>1. Onward
          BY <2>5 DEF Onward, Connecting, Goto, Finish, BeginCutoff, Begin
    <3>2. sessions' \subseteq sessions
          BY <2>5 DEF BeginCutoff, Begin
    <3> QED
          BY <3>1, <3>2, <2>5 DEF BeginCutoff, Begin
  <2>6. ASSUME NEW c \in Callers, NEW k \in Credentials, BeginDelete(c, k)
        PROVE  BarrierInv'
    <3>1. Onward
          BY <2>6 DEF Onward, Connecting, Goto, Finish, BeginDelete, Begin
    <3>2. sessions' \subseteq sessions
          BY <2>6 DEF BeginDelete, Begin
    <3> QED
          BY <3>1, <3>2, <2>6 DEF BeginDelete, Begin
  <2>7. ASSUME NEW c \in Callers, NEW o \in Openers, CloseSession(c, o)
        PROVE  BarrierInv'
    <3>1. Onward
          BY <2>7 DEF Onward, Connecting, Goto, Finish, CloseSession, RemoveAndClose, TakeOut
    <3>2. sessions' \subseteq sessions
          BY <2>7 DEF CloseSession, RemoveAndClose, TakeOut
    <3> QED
          BY <3>1, <3>2, <2>7 DEF CloseSession, RemoveAndClose, TakeOut
  <2>8. ASSUME NEW c \in Callers, NEW o \in Openers, LookupSlot(c, o)
        PROVE  BarrierInv'
    <3>1. Onward
          BY <2>8 DEF Onward, Connecting, Goto, Finish, LookupSlot, Begin
    <3>2. sessions' \subseteq sessions
          BY <2>8 DEF LookupSlot, Begin
    <3> QED
          BY <3>1, <3>2, <2>8 DEF LookupSlot, Begin
  <2> QED
      BY <1>1, <2>1, <2>2, <2>3, <2>4, <2>5, <2>6, <2>7, <2>8 DEF Start
<1>2. ASSUME NEW t \in Threads,
             LockStep(t)
      PROVE  BarrierInv'
  <2>1. CASE CloseAll(t)
    <3>1. Onward
          BY <2>1 DEF Onward, Connecting, Goto, CloseAll
    <3>2. sessions' = {} /\ generation' = generation + 1
          BY <2>1 DEF CloseAll, RaiseBarrier, TakeOut
    <3>3. \A o \in Openers : KeyOf(o)' = KeyOf(o)
          BY <2>1 DEF CloseAll, KeyOf
    <3> QED
          BY <3>1, <3>2, <3>3, <2>1 DEF CloseAll, BarrierInv, Onward, Connecting
  <2>2. CASE CloseSlot(t)
    <3>1. Onward
          BY <2>2 DEF Onward, Connecting, Goto, Finish, CloseSlot, AfterDrain, CloseTransport
    <3>2. sessions' \subseteq sessions
          BY <2>2 DEF CloseSlot, AfterDrain, CloseTransport
    <3> QED
          BY <3>1, <3>2, <2>2 DEF CloseSlot, AfterDrain, CloseTransport
  <2>3. CASE ClaimSealing(t)
    <3>1. Onward
          BY <2>3 DEF Onward, Connecting, Goto, Finish, ClaimSealing
    <3>2. sessions' \subseteq sessions
          BY <2>3 DEF ClaimSealing
    <3> QED
          BY <3>1, <3>2, <2>3 DEF ClaimSealing
  <2>4. CASE Seal(t)
    <3>1. Onward
          BY <2>4 DEF Onward, Connecting, Goto, Finish, Seal
    <3>2. sessions' \subseteq sessions
          BY <2>4 DEF Seal
    <3> QED
          BY <3>1, <3>2, <2>4 DEF Seal
  <2> QED
      BY <1>2, <2>1, <2>2, <2>3, <2>4 DEF LockStep
<1>3. ASSUME NEW o \in Openers,
             OpenStep(o) \/ TellSink(o) \/ HelperCloses(o) \/ PeerEnds(o) \/ SinkFails(o)
      PROVE  BarrierInv'
  <2>1. CASE Lease(o)
    <3>1. Onward
          BY <2>1 DEF Onward, Connecting, Goto, Finish, Lease, IdleSeal, ForeignVault
    <3>2. sessions' \subseteq sessions
          BY <2>1 DEF Lease, IdleSeal, ForeignVault
    <3> QED
          BY <3>1, <3>2, <2>1 DEF Lease, IdleSeal, ForeignVault
  <2>2. CASE TakeTickets(o)
    <3>1. \A x \in Openers : KeyOf(x)' = KeyOf(x)
          BY <2>2 DEF TakeTickets, KeyOf
    <3>2. o \notin sessions
          BY <2>2 DEF TakeTickets, BarrierInv
    <3>3. \A x \in Openers \ {o} :
              /\ pc'[x] = pc[x]
              /\ gen_ticket'[x] = gen_ticket[x] /\ cred_ticket'[x] = cred_ticket[x]
          BY <2>2 DEF TakeTickets, Goto, Finish
    <3>4. CASE Bound(o)
      <4>1. gen_ticket'[o] = generation /\ cred_ticket'[o] = cred_epoch[KeyOf(o)]
            BY <3>4, <2>2 DEF TakeTickets
      <4>2. cred_epoch[KeyOf(o)] \in Nat
            BY <2>2 DEF TakeTickets, TargetInv, Targets, KeyOf, Keys
      <4> QED
            BY <3>1, <3>2, <3>3, <4>1, <4>2, <2>2 DEF TakeTickets, BarrierInv, Connecting,
               Fresh
    <3>5. CASE ~Bound(o)
      <4>1. Onward
            BY <3>5, <2>2 DEF Onward, Connecting, Finish, TakeTickets
      <4> QED
            BY <3>5, <4>1, <2>2 DEF TakeTickets
    <3> QED
          BY <3>4, <3>5
  <2>3. CASE Connect(o)
    <3>1. Onward
          BY <2>3 DEF Onward, Connecting, Goto, Finish, Connect
    <3>2. sessions' \subseteq sessions
          BY <2>3 DEF Connect
    <3> QED
          BY <3>1, <3>2, <2>3 DEF Connect
  <2>4. CASE CheckConnected(o)
    <3>1. Onward
          BY <2>4 DEF Onward, Connecting, Goto, Finish, CheckConnected, CloseRejected,
             CloseTransport
    <3>2. sessions' \subseteq sessions
          BY <2>4 DEF CheckConnected, CloseRejected, CloseTransport
    <3> QED
          BY <3>1, <3>2, <2>4 DEF CheckConnected, CloseRejected, CloseTransport
  <2>5. CASE Register(o)
    <3>1. Onward
          BY <2>5 DEF Onward, Connecting, Goto, Finish, Register
    <3>2. CASE sessions' = sessions
          BY <3>1, <3>2, <2>5 DEF Register
    <3>3. CASE TicketsCurrent(o) /\ sessions' = sessions \cup {o} /\ Goto(o, "bind")
      <4>1. \A x \in Openers : KeyOf(x)' = KeyOf(x)
            BY <2>5 DEF Register, KeyOf
      <4>2. Fresh(o) /\ target[o] \in Targets /\ pc'[o] = "bind"
            BY <3>3, <2>5 DEF TicketsCurrent, Fresh, TargetInv, Goto, Register
      <4> QED
            BY <3>1, <3>3, <4>1, <4>2, <2>5 DEF Register, BarrierInv, Onward, Connecting, Fresh
    <3> QED
          BY <3>2, <3>3, <2>5 DEF Register
  <2>6. CASE BindSink(o)
    <3>1. Onward
          BY <2>6 DEF Onward, Connecting, Finish, BindSink
    <3>2. sessions' \subseteq sessions
          BY <2>6 DEF BindSink, RemoveEnded, TakeOut
    <3> QED
          BY <3>1, <3>2, <2>6 DEF BindSink
  <2>7. CASE TellSink(o)
    <3>1. Onward
          BY <2>7 DEF Onward, Connecting, Finish, TellSink, OnClosedWhenBound
    <3>2. sessions' \subseteq sessions
          BY <2>7 DEF TellSink, OnClosedWhenBound, RemoveEnded, TakeOut
    <3> QED
          BY <3>1, <3>2, <2>7 DEF TellSink, OnClosedWhenBound
  <2>8. CASE HelperCloses(o)
    <3>1. Onward
          BY <2>8 DEF Onward, Connecting, Goto, Finish, HelperCloses, CloseTransport
    <3>2. sessions' \subseteq sessions
          BY <2>8 DEF HelperCloses, CloseTransport
    <3> QED
          BY <3>1, <3>2, <2>8 DEF HelperCloses, CloseTransport
  <2>9. CASE PeerEnds(o)
    <3>1. Onward
          BY <2>9 DEF Onward, Connecting, Goto, Finish, PeerEnds
    <3>2. sessions' \subseteq sessions
          BY <2>9 DEF PeerEnds
    <3> QED
          BY <3>1, <3>2, <2>9 DEF PeerEnds
  <2>10. CASE SinkFails(o)
    <3>1. Onward
          BY <2>10 DEF Onward, Connecting, Finish, SinkFails
    <3>2. sessions' \subseteq sessions
          BY <2>10 DEF SinkFails, RemoveEnded, TakeOut
    <3> QED
          BY <3>1, <3>2, <2>10 DEF SinkFails
  <2> QED
      BY <1>3, <2>1, <2>2, <2>3, <2>4, <2>5, <2>6, <2>7, <2>8, <2>9, <2>10 DEF OpenStep
<1>4. ASSUME NEW c \in Callers,
             CallerStep(c)
      PROVE  BarrierInv'
  <2>1. CASE ClearNative(c)
    <3>1. Onward
          BY <2>1 DEF Onward, Connecting, Goto, Finish, ClearNative
    <3>2. sessions' \subseteq sessions
          BY <2>1 DEF ClearNative
    <3> QED
          BY <3>1, <3>2, <2>1 DEF ClearNative
  <2>2. CASE Delete(c)
    <3>1. Onward
          BY <2>2 DEF Onward, Connecting, Goto, Finish, Delete, IdleSeal, ForeignVault
    <3>2. sessions' \subseteq sessions
          BY <2>2 DEF Delete, IdleSeal, ForeignVault
    <3> QED
          BY <3>1, <3>2, <2>2 DEF Delete, IdleSeal, ForeignVault
  <2>3. CASE RevokeCredential(c)
    <3>1. Onward
          BY <2>3 DEF Onward, Connecting, Goto, RevokeCredential
    <3>2. \A o \in Openers : KeyOf(o)' = KeyOf(o)
          BY <2>3 DEF RevokeCredential, KeyOf
    <3>3. sessions' = sessions \ {o \in sessions : KeyOf(o) = arg[c]}
          BY <2>3 DEF RevokeCredential, TakeOut
    <3>4. \A k \in Keys : /\ k # arg[c] => cred_epoch'[k] = cred_epoch[k]
                          /\ cred_epoch'[k] >= cred_epoch[k]
          BY <2>3 DEF RevokeCredential, BumpCredential
    <3>5. \A o \in Openers : Connecting(o) \/ o \in sessions => KeyOf(o) \in Keys
          BY DEF BarrierInv, TargetInv, Connecting, KeyOf, Targets, Keys
    <3>6. /\ cred_epoch \in [Keys -> Nat] /\ cred_epoch' \in [Keys -> Nat]
          /\ cred_ticket \in [Openers -> Nat]
          BY TypeStep
    <3>7. ASSUME NEW o \in Openers, Connecting(o)'
          PROVE  gen_ticket'[o] <= generation' /\ cred_ticket'[o] <= cred_epoch'[KeyOf(o)']
      <4>1. gen_ticket[o] <= generation /\ cred_ticket[o] <= cred_epoch[KeyOf(o)] /\ Connecting(o)
            BY <3>1, <3>7 DEF BarrierInv, Onward
      <4>2. cred_epoch'[KeyOf(o)] >= cred_epoch[KeyOf(o)] /\ KeyOf(o) \in Keys
            BY <3>4, <3>5, <4>1
      <4>3. cred_ticket[o] <= cred_epoch'[KeyOf(o)]
            BY <3>6, <4>1, <4>2
      <4> QED
            BY <3>2, <4>1, <4>3, <2>3 DEF RevokeCredential
    <3>8. ASSUME NEW o \in Openers, o \in sessions'
          PROVE  pc'[o] \in {"bind", "done"} /\ target'[o] \in Targets /\ Fresh(o)'
      <4>1. o \in sessions /\ KeyOf(o) # arg[c]
            BY <3>3, <3>8
      <4> QED
            BY <3>1, <3>2, <3>4, <3>5, <4>1, <2>3 DEF BarrierInv, Onward, Fresh,
               RevokeCredential
    <3> QED
          BY <3>7, <3>8 DEF BarrierInv
  <2>4. CASE Erase(c)
    <3>1. Onward
          BY <2>4 DEF Onward, Connecting, Goto, Finish, Erase
    <3>2. sessions' \subseteq sessions
          BY <2>4 DEF Erase
    <3> QED
          BY <3>1, <3>2, <2>4 DEF Erase
  <2>5. CASE RevalidateIo(c)
    <3>1. Onward
          BY <2>5 DEF Onward, Connecting, Goto, Finish, RevalidateIo, RemoveAndClose, TakeOut
    <3>2. sessions' \subseteq sessions
          BY <2>5 DEF RevalidateIo, RemoveAndClose, TakeOut
    <3> QED
          BY <3>1, <3>2, <2>5 DEF RevalidateIo, RemoveAndClose, TakeOut
  <2> QED
      BY <1>4, <2>1, <2>2, <2>3, <2>4, <2>5 DEF CallerStep
<1>5. CASE UNCHANGED vars
  <2>1. Onward
      BY <1>5 DEF vars, callVars, Onward, Connecting
  <2> QED
      BY <2>1, <1>5 DEF vars
<1> QED
    BY <1>1, <1>2, <1>3, <1>4, <1>5 DEF Next, Disturb

\* The initial state registers nothing and no open call connects.
LEMMA BarrierInit == Init => BarrierInv
BY ThreadsAssumption DEF Init, BarrierInv, Connecting, Threads

\* The three invariants together are inductive.
LEMMA BarrierInvariant == Spec => [](TypeOK /\ TargetInv /\ BarrierInv)
<1>1. TypeOK /\ TargetInv /\ BarrierInv /\ [Next]_vars => (TypeOK /\ TargetInv /\ BarrierInv)'
    BY TypeStep, TargetStep, BarrierStep
<1> QED
    BY <1>1, TypeInit, BarrierInit, PTL DEF Spec

\* The generation barrier, for every number of open calls, callers, principals and
\* credentials: no registered terminal holds a ticket that is older than the last
\* close_all or the last deletion of its credential.
THEOREM BarrierHolds == Spec => []NoSessionBehindBarrier
<1>1. TypeOK /\ BarrierInv => NoSessionBehindBarrier
    BY DEF TypeOK, BarrierInv, NoSessionBehindBarrier
<1> QED
    BY <1>1, BarrierInvariant, PTL

Revokes(t) == CloseAll(t) \/ RevokeCredential(t)

\* A thread about to revoke moves on only by its own revocation.
RevokesItself ==
    \A t \in Threads :
        pc[t] \in {"first_close_all", "close_all", "revoke"} => pc'[t] = pc[t] \/ Revokes(t)

\* Nobody moves a thread past its revocation but the thread.
LEMMA RevokesItselfStep == TypeOK /\ [Next]_vars => RevokesItself
<1> SUFFICES ASSUME TypeOK, [Next]_vars
             PROVE  RevokesItself
    OBVIOUS
<1> USE ThreadsAssumption DEF TypeOK, Threads, RevokesItself
<1>1. ASSUME Start
      PROVE  RevokesItself
  <2>1. ASSUME NEW p \in Principals, Login(p)
        PROVE  RevokesItself
      BY <2>1 DEF callVars, Goto, Finish, Login
  <2>2. CASE Unlock
      BY <2>2 DEF callVars, Goto, Finish, Unlock
  <2>3. ASSUME NEW o \in Openers, NEW k \in Credentials, Prepare(o, k)
        PROVE  RevokesItself
      BY <2>3 DEF callVars, Goto, Finish, Prepare
  <2>4. ASSUME NEW c \in Callers, BeginLock(c)
        PROVE  RevokesItself
      BY <2>4 DEF callVars, Goto, Finish, BeginLock, Begin
  <2>5. ASSUME NEW c \in Callers, BeginCutoff(c)
        PROVE  RevokesItself
      BY <2>5 DEF callVars, Goto, Finish, BeginCutoff, Begin
  <2>6. ASSUME NEW c \in Callers, NEW k \in Credentials, BeginDelete(c, k)
        PROVE  RevokesItself
      BY <2>6 DEF callVars, Goto, Finish, BeginDelete, Begin
  <2>7. ASSUME NEW c \in Callers, NEW o \in Openers, CloseSession(c, o)
        PROVE  RevokesItself
      BY <2>7 DEF callVars, Goto, Finish, CloseSession, RemoveAndClose
  <2>8. ASSUME NEW c \in Callers, NEW o \in Openers, LookupSlot(c, o)
        PROVE  RevokesItself
      BY <2>8 DEF callVars, Goto, Finish, LookupSlot, Begin
  <2> QED
      BY <1>1, <2>1, <2>2, <2>3, <2>4, <2>5, <2>6, <2>7, <2>8 DEF Start
<1>2. ASSUME NEW t \in Threads,
             LockStep(t)
      PROVE  RevokesItself
  <2>1. CASE CloseAll(t)
      BY <2>1 DEF Revokes, Goto, CloseAll
  <2>2. CASE CloseSlot(t)
      BY <2>2 DEF callVars, Goto, Finish, CloseSlot
  <2>3. CASE ClaimSealing(t)
      BY <2>3 DEF callVars, Goto, Finish, ClaimSealing
  <2>4. CASE Seal(t)
      BY <2>4 DEF callVars, Goto, Finish, Seal
  <2> QED
      BY <1>2, <2>1, <2>2, <2>3, <2>4 DEF LockStep
<1>3. ASSUME NEW o \in Openers,
             OpenStep(o) \/ TellSink(o) \/ HelperCloses(o) \/ PeerEnds(o) \/ SinkFails(o)
      PROVE  RevokesItself
  <2>1. CASE Lease(o)
      BY <2>1 DEF callVars, Goto, Finish, Lease, IdleSeal
  <2>2. CASE TakeTickets(o)
      BY <2>2 DEF callVars, Goto, Finish, TakeTickets
  <2>3. CASE Connect(o)
      BY <2>3 DEF callVars, Goto, Finish, Connect
  <2>4. CASE CheckConnected(o)
      BY <2>4 DEF callVars, Goto, Finish, CheckConnected
  <2>5. CASE Register(o)
      BY <2>5 DEF callVars, Goto, Finish, Register
  <2>6. CASE BindSink(o)
      BY <2>6 DEF callVars, Goto, Finish, BindSink
  <2>7. CASE TellSink(o)
      BY <2>7 DEF callVars, Goto, Finish, TellSink
  <2>8. CASE HelperCloses(o)
      BY <2>8 DEF callVars, Goto, Finish, HelperCloses
  <2>9. CASE PeerEnds(o)
      BY <2>9 DEF callVars, Goto, Finish, PeerEnds
  <2>10. CASE SinkFails(o)
      BY <2>10 DEF callVars, Goto, Finish, SinkFails
  <2> QED
      BY <1>3, <2>1, <2>2, <2>3, <2>4, <2>5, <2>6, <2>7, <2>8, <2>9, <2>10 DEF OpenStep
<1>4. ASSUME NEW c \in Callers,
             CallerStep(c)
      PROVE  RevokesItself
  <2>1. CASE ClearNative(c)
      BY <2>1 DEF callVars, Goto, Finish, ClearNative
  <2>2. CASE Delete(c)
      BY <2>2 DEF callVars, Goto, Finish, Delete, IdleSeal
  <2>3. CASE RevokeCredential(c)
      BY <2>3 DEF Revokes, Goto, RevokeCredential
  <2>4. CASE Erase(c)
      BY <2>4 DEF callVars, Goto, Finish, Erase
  <2>5. CASE RevalidateIo(c)
      BY <2>5 DEF callVars, Goto, Finish, RevalidateIo, RemoveAndClose
  <2> QED
      BY <1>4, <2>1, <2>2, <2>3, <2>4, <2>5 DEF CallerStep
<1>5. CASE UNCHANGED vars
      BY <1>5 DEF vars, callVars
<1> QED
    BY <1>1, <1>2, <1>3, <1>4, <1>5 DEF Next, Disturb

\* close_all leaves no registered slot and no open call with a current ticket.
LEMMA CloseAllReaches ==
    ASSUME TypeOK, BarrierInv, NEW t \in Threads, CloseAll(t)
    PROVE  Admitted' = {} /\ sessions' = {}
<1>1. sessions' = {} /\ generation' = generation + 1 /\ gen_ticket' = gen_ticket
    BY DEF CloseAll, TakeOut, RaiseBarrier, openVars
<1>2. ASSUME NEW o \in Openers, o \in Admitted'
      PROVE  FALSE
  <2>1. Connecting(o)' /\ gen_ticket'[o] = generation'
      BY <1>2 DEF Admitted, Fresh, Connecting
  <2>2. Connecting(o)
      BY <2>1, ThreadsAssumption DEF Connecting, CloseAll, Goto, TypeOK, Threads
  <2>3. gen_ticket[o] <= generation
      BY <2>2 DEF BarrierInv
  <2> QED
      BY <1>1, <2>1, <2>3 DEF TypeOK
<1>3. Admitted' \subseteq Openers
    BY DEF Admitted
<1> QED
    BY <1>1, <1>2, <1>3

\* close_for_principal_credential leaves nobody with the key and a current ticket.
LEMMA RevokeReaches ==
    ASSUME TypeOK, TargetInv, BarrierInv, NEW c \in Threads, RevokeCredential(c)
    PROVE  \A o \in Admitted' \cup sessions' : KeyOf(o)' # arg[c]
<1>1. \A o \in Openers : KeyOf(o)' = KeyOf(o)
    BY DEF RevokeCredential, KeyOf, openVars
<1>2. ASSUME NEW o \in sessions'
      PROVE  KeyOf(o)' # arg[c]
    BY <1>1, <1>2 DEF RevokeCredential, TakeOut, TypeOK
<1>3. ASSUME NEW o \in Admitted', KeyOf(o) = arg[c]
      PROVE  FALSE
  <2>1. o \in Openers /\ Connecting(o)' /\ cred_ticket'[o] = cred_epoch'[KeyOf(o)']
      BY <1>3 DEF Admitted, Fresh, Connecting
  <2>2. Connecting(o)
      BY <2>1, ThreadsAssumption DEF Connecting, RevokeCredential, Goto, TypeOK, Threads
  <2>3. cred_ticket[o] <= cred_epoch[KeyOf(o)]
      BY <2>1, <2>2 DEF BarrierInv
  <2>4. KeyOf(o) \in Keys
      BY <2>1, <2>2 DEF TargetInv, Connecting, KeyOf, Targets, Keys
  <2>5. cred_epoch'[KeyOf(o)] = cred_epoch[KeyOf(o)] + 1
      BY <1>3, <2>4 DEF RevokeCredential, BumpCredential, TypeOK
  <2>6. cred_ticket' = cred_ticket
      BY DEF RevokeCredential, openVars
  <2> QED
      BY <1>1, <2>1, <2>3, <2>4, <2>5, <2>6 DEF TypeOK
<1>4. \A o \in Admitted' : o \in Openers
    BY DEF Admitted
<1> QED
    BY <1>1, <1>2, <1>3, <1>4

\* A revocation reaches the open calls under way, whatever their number.
THEOREM RevocationReaches == Spec => RevocationReachesConnecting
<1> DEFINE A == \A t \in Threads :
                  /\ pc[t] \in {"first_close_all", "close_all"} /\ pc'[t] # pc[t]
                         => Admitted' = {} /\ sessions' = {}
                  /\ pc[t] = "revoke" /\ pc'[t] # pc[t]
                         => \A o \in Admitted' \cup sessions' : KeyOf(o)' # arg[t]
<1>1. ASSUME TypeOK, TargetInv, BarrierInv, [Next]_vars
      PROVE  A
  <2>1. SUFFICES ASSUME NEW t \in Threads
        PROVE  /\ pc[t] \in {"first_close_all", "close_all"} /\ pc'[t] # pc[t]
                      => Admitted' = {} /\ sessions' = {}
               /\ pc[t] = "revoke" /\ pc'[t] # pc[t]
                      => \A o \in Admitted' \cup sessions' : KeyOf(o)' # arg[t]
      OBVIOUS
  <2>2. pc[t] \in {"first_close_all", "close_all", "revoke"} => pc'[t] = pc[t] \/ Revokes(t)
      BY <1>1, RevokesItselfStep DEF RevokesItself
  <2>3. CASE CloseAll(t)
      BY <1>1, <2>3, CloseAllReaches DEF CloseAll
  <2>4. CASE RevokeCredential(t)
      BY <1>1, <2>4, RevokeReaches DEF RevokeCredential
  <2> QED
      BY <2>2, <2>3, <2>4 DEF Revokes
<1>2. TypeOK /\ TargetInv /\ BarrierInv /\ [Next]_vars => [A]_vars
    BY <1>1
<1>3. Spec => [][A]_vars
    BY <1>2, BarrierInvariant, PTL DEF Spec
<1> QED
    BY <1>3 DEF RevocationReachesConnecting

-----------------------------------------------------------------------------
(* The registry implements SessionBarrier.                                   *)

\* The four kinds of abstract step, by what they do to the open calls that are admitted
\* and to those that are registered.
LEMMA StuttersWhen ==
    ASSUME Admitted' = Admitted, sessions' = sessions,
           \A x \in Admitted \cup sessions : KeyOf(x)' = KeyOf(x)
    PROVE  UNCHANGED Barrier!vars
BY DEF Barrier!vars

LEMMA DropsWhen ==
    ASSUME NEW o \in Openers, KeyOf(o) \in Keys,
           Admitted' = Admitted \ {o}, sessions' = sessions \ {o},
           \A x \in Admitted \cup sessions : KeyOf(x)' = KeyOf(x)
    PROVE  Barrier!Next
<1>1. PICK k \in Keys : k = KeyOf(o)
    OBVIOUS
<1>2. Barrier!Drop(<<o, k>>)
    BY <1>1 DEF Barrier!Drop
<1> QED
    BY <1>2 DEF Barrier!Next

LEMMA AdmitsWhen ==
    ASSUME NEW o \in Openers, KeyOf(o) \in Keys, o \notin Admitted \cup sessions,
           Admitted' = Admitted \cup {o}, sessions' = sessions,
           \A x \in Openers : KeyOf(x)' = KeyOf(x), sessions \subseteq Openers
    PROVE  Barrier!Next
<1>1. Admitted \subseteq Openers
    BY DEF Admitted
<1>2. PICK k \in Keys : k = KeyOf(o)
    OBVIOUS
<1>3. Barrier!Admit(o, k)
    BY <1>1, <1>2 DEF Barrier!Admit
<1> QED
    BY <1>3 DEF Barrier!Next

LEMMA RegistersWhen ==
    ASSUME NEW o \in Openers, KeyOf(o) \in Keys, o \in Admitted,
           Admitted' = Admitted \ {o}, sessions' = sessions \cup {o},
           \A x \in Openers : KeyOf(x)' = KeyOf(x), sessions \subseteq Openers
    PROVE  Barrier!Next
<1>1. Admitted \subseteq Openers
    BY DEF Admitted
<1>2. PICK k \in Keys : k = KeyOf(o)
    OBVIOUS
<1>3. Barrier!Register(<<o, k>>)
    BY <1>1, <1>2 DEF Barrier!Register
<1> QED
    BY <1>3 DEF Barrier!Next

\* The key of an open call that connects or is registered is a key.
LEMMA AdmittedKeys ==
    ASSUME TargetInv, BarrierInv
    PROVE  \A o \in Openers : o \in sessions \/ Connecting(o) => KeyOf(o) \in Keys
BY DEF TargetInv, BarrierInv, Connecting, KeyOf, Targets, Keys

\* Admitted is decided by where the open calls are, as long as no ticket changes.
LEMMA KeepsTickets ==
    ASSUME UNCHANGED <<generation, cred_epoch, target, gen_ticket, cred_ticket>>
    PROVE  /\ \A x \in Openers : KeyOf(x)' = KeyOf(x) /\ (Fresh(x)' <=> Fresh(x))
           /\ Admitted' = {x \in Openers : Connecting(x)' /\ Fresh(x)}
           /\ Admitted = {x \in Openers : Connecting(x) /\ Fresh(x)}
<1>1. \A x \in Openers : KeyOf(x)' = KeyOf(x)
    BY DEF KeyOf
<1>2. \A x \in Openers : Fresh(x)' <=> Fresh(x)
    BY <1>1 DEF Fresh
<1> QED
    BY <1>1, <1>2 DEF Admitted, Connecting

\* A step that moves no open call into or out of its connect registers nothing.
LEMMA SilentStep ==
    ASSUME TypeOK, UNCHANGED <<generation, cred_epoch, target, gen_ticket, cred_ticket>>,
           sessions' = sessions, \A x \in Openers : Connecting(x)' <=> Connecting(x)
    PROVE  [Barrier!Next]_Barrier!vars
<1>1. sessions \subseteq Openers /\ Admitted \subseteq Openers
    BY DEF TypeOK, Admitted
<1>2. Admitted' = Admitted
    BY KeepsTickets
<1> QED
    BY <1>1, <1>2, KeepsTickets, StuttersWhen

\* A step that takes out one open call, or none, drops it or stutters.
LEMMA LeavesOne ==
    ASSUME TypeOK, TargetInv, BarrierInv, NEW o \in Openers,
           UNCHANGED <<generation, cred_epoch, target, gen_ticket, cred_ticket>>,
           sessions' \in {sessions, sessions \ {o}},
           \A x \in Openers \ {o} : Connecting(x)' <=> Connecting(x),
           Connecting(o)' => Connecting(o)
    PROVE  [Barrier!Next]_Barrier!vars
<1>1. sessions \subseteq Openers /\ Admitted \subseteq Openers
    BY DEF TypeOK, Admitted
<1>2. Admitted' \in {Admitted, Admitted \ {o}}
    BY KeepsTickets
<1>3. \A x \in Openers : x \in sessions => ~Connecting(x)
    BY DEF BarrierInv, Connecting
<1>4. \A x \in Openers : x \in Admitted => Connecting(x)
    BY DEF Admitted, Connecting
<1>5. CASE Admitted' = Admitted /\ sessions' = sessions
    BY <1>1, <1>5, KeepsTickets, StuttersWhen
<1>6. CASE ~(Admitted' = Admitted /\ sessions' = sessions)
  <2>1. Admitted' = Admitted \ {o} /\ sessions' = sessions \ {o}
      BY <1>1, <1>2, <1>3, <1>4, <1>6
  <2>2. KeyOf(o) \in Keys
      BY <1>2, <1>4, <1>6, AdmittedKeys
  <2> QED
      BY <1>1, <2>1, <2>2, KeepsTickets, DropsWhen
<1> QED
    BY <1>5, <1>6

\* Every step of the registry is a step of the barrier or none.
LEMMA BarrierSimulation ==
    TypeOK /\ TargetInv /\ BarrierInv /\ [Next]_vars => [Barrier!Next]_Barrier!vars
<1> SUFFICES ASSUME TypeOK, TargetInv, BarrierInv, [Next]_vars
             PROVE  [Barrier!Next]_Barrier!vars
    OBVIOUS
<1> USE ThreadsAssumption
    DEF TypeOK, Threads, authVars, vaultVars, mapVars, openVars, wireVars, callVars
<1>1. ASSUME Start
      PROVE  [Barrier!Next]_Barrier!vars
  <2>1. ASSUME NEW p \in Principals, Login(p)
        PROVE  [Barrier!Next]_Barrier!vars
    <3>1. \A x \in Openers : Connecting(x)' <=> Connecting(x)
          BY <2>1 DEF Connecting, Goto, Finish, Login
    <3> QED
          BY <3>1, SilentStep, <2>1 DEF Login
  <2>2. CASE Unlock
    <3>1. \A x \in Openers : Connecting(x)' <=> Connecting(x)
          BY <2>2 DEF Connecting, Goto, Finish, Unlock
    <3> QED
          BY <3>1, SilentStep, <2>2 DEF Unlock
  <2>3. ASSUME NEW o \in Openers, NEW k \in Credentials, Prepare(o, k)
        PROVE  [Barrier!Next]_Barrier!vars
    <3>1. \A x \in Openers : Connecting(x)' <=> Connecting(x)
          BY <2>3 DEF Connecting, Prepare
    <3>2. o \notin sessions /\ ~Connecting(o)
          BY <2>3 DEF BarrierInv, Connecting, Prepare
    <3>3. \A x \in Openers \ {o} : KeyOf(x)' = KeyOf(x)
          BY <2>3 DEF KeyOf, Prepare
    <3>4. Admitted' = Admitted /\ sessions' = sessions
          BY <3>1, <3>2, <3>3, <2>3 DEF Admitted, Connecting, Fresh, Prepare
    <3>5. o \notin Admitted /\ Admitted \subseteq Openers
          BY <3>2 DEF Admitted, Connecting
    <3> QED
          BY <3>2, <3>3, <3>4, <3>5, StuttersWhen
  <2>4. ASSUME NEW c \in Callers, BeginLock(c)
        PROVE  [Barrier!Next]_Barrier!vars
    <3>1. \A x \in Openers : Connecting(x)' <=> Connecting(x)
          BY <2>4 DEF Connecting, Goto, Finish, BeginLock, Begin
    <3> QED
          BY <3>1, SilentStep, <2>4 DEF BeginLock, Begin
  <2>5. ASSUME NEW c \in Callers, BeginCutoff(c)
        PROVE  [Barrier!Next]_Barrier!vars
    <3>1. \A x \in Openers : Connecting(x)' <=> Connecting(x)
          BY <2>5 DEF Connecting, Goto, Finish, BeginCutoff, Begin
    <3> QED
          BY <3>1, SilentStep, <2>5 DEF BeginCutoff, Begin
  <2>6. ASSUME NEW c \in Callers, NEW k \in Credentials, BeginDelete(c, k)
        PROVE  [Barrier!Next]_Barrier!vars
    <3>1. \A x \in Openers : Connecting(x)' <=> Connecting(x)
          BY <2>6 DEF Connecting, Goto, Finish, BeginDelete, Begin
    <3> QED
          BY <3>1, SilentStep, <2>6 DEF BeginDelete, Begin
  <2>7. ASSUME NEW c \in Callers, NEW o \in Openers, CloseSession(c, o)
        PROVE  [Barrier!Next]_Barrier!vars
    <3>1. \A x \in Openers : Connecting(x)' <=> Connecting(x)
          BY <2>7 DEF Connecting, Finish, CloseSession, RemoveAndClose
    <3>2. sessions' \in {sessions, sessions \ {o}}
          BY <2>7 DEF CloseSession, RemoveAndClose, TakeOut
    <3> QED
          BY <3>1, <3>2, LeavesOne, <2>7 DEF CloseSession
  <2>8. ASSUME NEW c \in Callers, NEW o \in Openers, LookupSlot(c, o)
        PROVE  [Barrier!Next]_Barrier!vars
    <3>1. \A x \in Openers : Connecting(x)' <=> Connecting(x)
          BY <2>8 DEF Connecting, Goto, Finish, LookupSlot, Begin
    <3> QED
          BY <3>1, SilentStep, <2>8 DEF LookupSlot, Begin
  <2> QED
      BY <1>1, <2>1, <2>2, <2>3, <2>4, <2>5, <2>6, <2>7, <2>8 DEF Start
<1>2. ASSUME NEW t \in Threads,
             LockStep(t)
      PROVE  [Barrier!Next]_Barrier!vars
  <2>1. CASE CloseAll(t)
    <3>1. Admitted' = {} /\ sessions' = {}
          BY <2>1, CloseAllReaches
    <3>2. Barrier!RevokeAll
          BY <3>1 DEF Barrier!RevokeAll
    <3> QED
          BY <3>2 DEF Barrier!Next
  <2>2. CASE CloseSlot(t)
    <3>1. \A x \in Openers : Connecting(x)' <=> Connecting(x)
          BY <2>2 DEF Connecting, Goto, Finish, CloseSlot, AfterDrain, CloseTransport
    <3> QED
          BY <3>1, SilentStep, <2>2 DEF CloseSlot, AfterDrain, CloseTransport
  <2>3. CASE ClaimSealing(t)
    <3>1. \A x \in Openers : Connecting(x)' <=> Connecting(x)
          BY <2>3 DEF Connecting, Goto, Finish, ClaimSealing
    <3> QED
          BY <3>1, SilentStep, <2>3 DEF ClaimSealing
  <2>4. CASE Seal(t)
    <3>1. \A x \in Openers : Connecting(x)' <=> Connecting(x)
          BY <2>4 DEF Connecting, Goto, Finish, Seal
    <3> QED
          BY <3>1, SilentStep, <2>4 DEF Seal
  <2> QED
      BY <1>2, <2>1, <2>2, <2>3, <2>4 DEF LockStep
<1>3. ASSUME NEW o \in Openers,
             OpenStep(o) \/ TellSink(o) \/ HelperCloses(o) \/ PeerEnds(o) \/ SinkFails(o)
      PROVE  [Barrier!Next]_Barrier!vars
  <2>1. CASE Lease(o)
    <3>1. \A x \in Openers : Connecting(x)' <=> Connecting(x)
          BY <2>1 DEF Connecting, Goto, Finish, Lease, IdleSeal, ForeignVault
    <3> QED
          BY <3>1, SilentStep, <2>1 DEF Lease, IdleSeal, ForeignVault
  <2>2. CASE TakeTickets(o)
    <3>1. CASE ~Bound(o)
      <4>1. \A x \in Openers : Connecting(x)' <=> Connecting(x)
            BY <3>1, <2>2 DEF Connecting, Finish, TakeTickets
      <4> QED
            BY <3>1, <4>1, SilentStep, <2>2 DEF TakeTickets
    <3>2. CASE Bound(o)
      <4>1. \A x \in Openers : KeyOf(x)' = KeyOf(x)
            BY <2>2 DEF TakeTickets, KeyOf
      <4>2. \A x \in Openers \ {o} :
                /\ Connecting(x)' <=> Connecting(x)
                /\ Fresh(x)' <=> Fresh(x)
            BY <4>1, <2>2 DEF TakeTickets, Goto, Finish, Connecting, Fresh
      <4>3. ~Connecting(o) /\ Connecting(o)' /\ o \notin sessions
            BY <3>2, <2>2 DEF TakeTickets, Goto, Connecting, BarrierInv
      <4>4. Fresh(o)'
            BY <3>2, <4>1, <2>2 DEF TakeTickets, Fresh
      <4>5. Admitted' = Admitted \cup {o} /\ o \notin Admitted
            BY <4>2, <4>3, <4>4 DEF Admitted, Connecting
      <4>6. KeyOf(o) \in Keys
            BY <2>2 DEF TakeTickets, TargetInv, KeyOf, Targets, Keys
      <4> QED
            BY <4>1, <4>3, <4>5, <4>6, AdmitsWhen, <2>2 DEF TakeTickets
    <3> QED
          BY <3>1, <3>2
  <2>3. CASE Connect(o)
    <3>1. /\ \A x \in Openers \ {o} : Connecting(x)' <=> Connecting(x)
          /\ Connecting(o)
          BY <2>3 DEF Connecting, Goto, Finish, Connect
    <3> QED
          BY <3>1, LeavesOne, <2>3 DEF Connect
  <2>4. CASE CheckConnected(o)
    <3>1. /\ \A x \in Openers \ {o} : Connecting(x)' <=> Connecting(x)
          /\ Connecting(o)
          BY <2>4 DEF Connecting, Goto, Finish, CheckConnected
    <3> QED
          BY <3>1, LeavesOne, <2>4 DEF CheckConnected
  <2>5. CASE Register(o)
    <3>1. /\ \A x \in Openers \ {o} : Connecting(x)' <=> Connecting(x)
          /\ Connecting(o) /\ ~Connecting(o)'
          BY <2>5 DEF Connecting, Goto, Finish, Register
    <3>2. CASE sessions' = sessions
          BY <3>1, <3>2, LeavesOne, <2>5 DEF Register
    <3>3. CASE TicketsCurrent(o) /\ sessions' = sessions \cup {o}
      <4>1. UNCHANGED <<generation, cred_epoch, target, gen_ticket, cred_ticket>>
            BY <2>5 DEF Register
      <4>2. Fresh(o)
            BY <3>3 DEF TicketsCurrent, Fresh
      <4>3. Admitted' = Admitted \ {o} /\ o \in Admitted
            BY <3>1, <4>1, <4>2, KeepsTickets
      <4> QED
            BY <3>1, <3>3, <4>1, <4>3, KeepsTickets, AdmittedKeys, RegistersWhen
    <3> QED
          BY <3>2, <3>3, <2>5 DEF Register
  <2>6. CASE BindSink(o)
    <3>1. \A x \in Openers : Connecting(x)' <=> Connecting(x)
          BY <2>6 DEF Connecting, Finish, BindSink, RemoveEnded
    <3>2. sessions' \in {sessions, sessions \ {o}}
          BY <2>6 DEF BindSink, RemoveEnded, TakeOut
    <3> QED
          BY <3>1, <3>2, LeavesOne, <2>6 DEF BindSink
  <2>7. CASE TellSink(o)
    <3>1. \A x \in Openers : Connecting(x)' <=> Connecting(x)
          BY <2>7 DEF Connecting, Finish, TellSink, OnClosedWhenBound, RemoveEnded
    <3>2. sessions' \in {sessions, sessions \ {o}}
          BY <2>7 DEF TellSink, OnClosedWhenBound, RemoveEnded, TakeOut
    <3> QED
          BY <3>1, <3>2, LeavesOne, <2>7 DEF TellSink
  <2>8. CASE HelperCloses(o)
    <3>1. \A x \in Openers : Connecting(x)' <=> Connecting(x)
          BY <2>8 DEF Connecting, Goto, Finish, HelperCloses, CloseTransport
    <3> QED
          BY <3>1, SilentStep, <2>8 DEF HelperCloses, CloseTransport
  <2>9. CASE PeerEnds(o)
    <3>1. \A x \in Openers : Connecting(x)' <=> Connecting(x)
          BY <2>9 DEF Connecting, Goto, Finish, PeerEnds
    <3> QED
          BY <3>1, SilentStep, <2>9 DEF PeerEnds
  <2>10. CASE SinkFails(o)
    <3>1. \A x \in Openers : Connecting(x)' <=> Connecting(x)
          BY <2>10 DEF Connecting, Finish, SinkFails, RemoveEnded
    <3>2. sessions' \in {sessions, sessions \ {o}}
          BY <2>10 DEF SinkFails, RemoveEnded, TakeOut
    <3> QED
          BY <3>1, <3>2, LeavesOne, <2>10 DEF SinkFails
  <2> QED
      BY <1>3, <2>1, <2>2, <2>3, <2>4, <2>5, <2>6, <2>7, <2>8, <2>9, <2>10 DEF OpenStep
<1>4. ASSUME NEW c \in Callers,
             CallerStep(c)
      PROVE  [Barrier!Next]_Barrier!vars
  <2>1. CASE ClearNative(c)
    <3>1. \A x \in Openers : Connecting(x)' <=> Connecting(x)
          BY <2>1 DEF Connecting, Goto, Finish, ClearNative
    <3> QED
          BY <3>1, SilentStep, <2>1 DEF ClearNative
  <2>2. CASE Delete(c)
    <3>1. \A x \in Openers : Connecting(x)' <=> Connecting(x)
          BY <2>2 DEF Connecting, Goto, Finish, Delete, IdleSeal, ForeignVault
    <3> QED
          BY <3>1, SilentStep, <2>2 DEF Delete, IdleSeal, ForeignVault
  <2>3. CASE RevokeCredential(c)
    <3>1. \A o \in Openers : /\ KeyOf(o)' = KeyOf(o)
                             /\ Connecting(o)' <=> Connecting(o)
          BY <2>3 DEF RevokeCredential, KeyOf, Connecting, Goto
    <3>2. \A k \in Keys : k # arg[c] => cred_epoch'[k] = cred_epoch[k]
          BY <2>3 DEF RevokeCredential, BumpCredential
    <3>3. \A o \in Admitted' \cup sessions' : KeyOf(o) # arg[c]
          BY <3>1, <2>3, RevokeReaches DEF Admitted, RevokeCredential, TakeOut
    <3>4. \A o \in Openers : Connecting(o) /\ KeyOf(o) # arg[c] => (Fresh(o)' <=> Fresh(o))
          BY <3>1, <3>2, AdmittedKeys, <2>3 DEF Fresh, RevokeCredential
    <3>5. Admitted' = {o \in Admitted : KeyOf(o) # arg[c]}
          BY <3>1, <3>3, <3>4 DEF Admitted, Connecting
    <3>6. sessions' = {o \in sessions : KeyOf(o) # arg[c]}
          BY <2>3 DEF RevokeCredential, TakeOut
    <3>7. CASE arg[c] \in Keys
      <4>1. PICK k \in Keys : k = arg[c]
            BY <3>7
      <4>2. Barrier!RevokeKey(k)
            BY <3>1, <3>5, <3>6, <4>1 DEF Barrier!RevokeKey, Admitted
      <4> QED
            BY <4>2 DEF Barrier!Next
    <3>8. CASE arg[c] \notin Keys
      <4>1. Admitted' = Admitted /\ sessions' = sessions
            BY <3>5, <3>6, <3>8, AdmittedKeys DEF Admitted, Connecting
      <4> QED
            BY <3>1, <4>1, StuttersWhen DEF Admitted
    <3> QED
          BY <3>7, <3>8
  <2>4. CASE Erase(c)
    <3>1. \A x \in Openers : Connecting(x)' <=> Connecting(x)
          BY <2>4 DEF Connecting, Goto, Finish, Erase
    <3> QED
          BY <3>1, SilentStep, <2>4 DEF Erase
  <2>5. CASE RevalidateIo(c)
    <3>1. \A x \in Openers : Connecting(x)' <=> Connecting(x)
          BY <2>5 DEF Connecting, Goto, Finish, RevalidateIo, RemoveAndClose
    <3>2. CASE sessions' = sessions
          BY <3>1, <3>2, SilentStep, <2>5 DEF RevalidateIo
    <3>3. CASE sessions' # sessions
      <4>1. arg[c] \in sessions /\ sessions' = sessions \ {arg[c]}
            BY <3>3, <2>5 DEF RevalidateIo, RemoveAndClose, TakeOut
      <4> QED
            BY <3>1, <4>1, LeavesOne, <2>5 DEF RevalidateIo
    <3> QED
          BY <3>2, <3>3
  <2> QED
      BY <1>4, <2>1, <2>2, <2>3, <2>4, <2>5 DEF CallerStep
<1>5. CASE UNCHANGED vars
      BY <1>5, SilentStep DEF vars, callVars, Connecting
<1> QED
    BY <1>1, <1>2, <1>3, <1>4, <1>5 DEF Next, Disturb

\* Nothing is admitted and nothing is registered in a freshly started process.
LEMMA BarrierSimulationInit == Init => Barrier!Init
BY ThreadsAssumption DEF Init, Barrier!Init, Admitted, Threads

\* The registry implements the abstract barrier for every instance: tickets that are only
\* compared at the insert have the effect of a revocation that reaches at once every
\* session and every open call it concerns.
THEOREM RegistryImplementsBarrier == Spec => ImplementsBarrier
<1>1. TypeOK /\ TargetInv /\ BarrierInv /\ [Next]_vars => [Barrier!Next]_Barrier!vars
    BY BarrierSimulation
<1>2. Spec => [][Barrier!Next]_Barrier!vars
    BY <1>1, BarrierInvariant, PTL DEF Spec
<1>3. Spec => Barrier!Init
    BY BarrierSimulationInit DEF Spec
<1> QED
    BY <1>2, <1>3 DEF ImplementsBarrier, Barrier!Spec

-----------------------------------------------------------------------------
(* One closer for each transport.                                            *)

\* Who may have to close the transport of o: its open call, the registry, the helper
\* thread, or a thread that drains.
Calling(o) == pc[o] \in {"check", "register"}
Drained(o) == \E t \in Threads : o \in todo[t]

NoOwner(o) == ~Calling(o) /\ o \notin sessions /\ o \notin helpers /\ ~Drained(o)

OneOwner(o) ==
    \/ Calling(o) /\ o \notin sessions /\ o \notin helpers /\ ~Drained(o)
    \/ ~Calling(o) /\ o \in sessions /\ o \notin helpers /\ ~Drained(o)
    \/ ~Calling(o) /\ o \notin sessions /\ o \in helpers /\ ~Drained(o)
    \/ /\ ~Calling(o) /\ o \notin sessions /\ o \notin helpers
       /\ \E t \in Threads : o \in todo[t] /\ \A u \in Threads : o \in todo[u] => u = t

Early == {"ready", "lease", "tickets", "connect"}
Draining == {"first_drain", "drain"}

\* Only a thread that drains has something to drain.
TodoInv == \A t \in Threads : pc[t] \notin Draining => todo[t] = {}

\* A slot that is marked dead is with the helper or closed.
CloserOf(o) ==
    /\ pc[o] \in Early => transport[o] = "none"
    /\ transport[o] = "none" => NoOwner(o) /\ closes[o] = 0 /\ ~dead[o]
    /\ transport[o] \in {"live", "ended"} =>
          OneOwner(o) /\ closes[o] = 0 /\ (dead[o] => o \in helpers)
    /\ transport[o] = "closed" => NoOwner(o) /\ closes[o] = 1

CloserInv == TodoInv /\ \A o \in Openers : CloserOf(o)

\* Nobody takes a transport over or closes it, and no open call begins again.
Steady(o) ==
    /\ Calling(o)' <=> Calling(o)
    /\ pc'[o] \in Early => pc[o] \in Early
    /\ transport'[o] = transport[o] /\ closes'[o] = closes[o] /\ dead'[o] = dead[o]
    /\ o \in sessions' <=> o \in sessions
    /\ o \in helpers' <=> o \in helpers
    /\ \A t \in Threads : o \in todo'[t] <=> o \in todo[t]

LEMMA SteadyCloser ==
    ASSUME NEW o \in Openers, CloserOf(o), Steady(o)
    PROVE  CloserOf(o)'
BY DEF CloserOf, Steady, NoOwner, OneOwner, Drained, Calling

\* A thread that neither begins nor ends to drain leaves TodoInv as it is.
LEMMA TodoFrame ==
    ASSUME TodoInv, UNCHANGED todo,
           \A t \in Threads : pc[t] \in Draining => pc'[t] \in Draining
    PROVE  TodoInv'
BY DEF TodoInv

\* What is in the registry goes to the helper thread.
LEMMA EndedCloser ==
    ASSUME TypeOK, CloserInv, NEW o \in Openers, RemoveEnded(o),
           UNCHANGED <<transport, closes, todo>>,
           \A x \in Openers : (Calling(x)' <=> Calling(x)) /\ (pc'[x] \in Early => pc[x] \in Early)
    PROVE  \A x \in Openers : CloserOf(x)'
<1>1. ASSUME NEW x \in Openers, x # o \/ o \notin sessions
      PROVE  CloserOf(x)'
  <2>1. Steady(x)
      BY <1>1 DEF RemoveEnded, TakeOut, Steady, TypeOK
  <2> QED
      BY <2>1, SteadyCloser DEF CloserInv
<1>2. CASE o \in sessions
  <2>1. ~dead[o] /\ transport[o] \in {"live", "ended"} /\ ~Calling(o) /\ ~Drained(o)
      BY <1>2 DEF CloserInv, CloserOf, NoOwner, OneOwner, TypeOK
  <2>2. sessions' = sessions \ {o} /\ helpers' = helpers \cup {o} /\ dead'[o]
      BY <1>2, <2>1 DEF RemoveEnded, TakeOut, TypeOK
  <2>3. ~Calling(o)' /\ ~Drained(o)' /\ o \notin sessions' /\ o \in helpers'
      BY <2>1, <2>2 DEF Drained
  <2>4. closes[o] = 0 /\ (pc[o] \in Early => transport[o] = "none")
      BY <2>1 DEF CloserInv, CloserOf
  <2>5. CloserOf(o)'
      BY <2>1, <2>2, <2>3, <2>4 DEF CloserOf, OneOwner
  <2> QED
      BY <1>1, <2>5
<1> QED
    BY <1>1, <1>2

\* A thread takes some sessions out of the registry to close them.
LEMMA TakenCloser ==
    ASSUME TypeOK, CloserInv, NEW t \in Threads, NEW S \in SUBSET sessions,
           pc[t] \notin Draining, pc'[t] \in Draining,
           sessions' = sessions \ S, todo' = [todo EXCEPT ![t] = S],
           UNCHANGED <<transport, closes, dead, helpers>>,
           \A u \in Threads : u # t => pc'[u] = pc[u],
           pc[t] \notin {"check", "register"}
    PROVE  CloserInv'
<1>1. TodoInv'
    BY DEF CloserInv, TodoInv, TypeOK
<1>2. todo[t] = {}
    BY DEF CloserInv, TodoInv
<1>3. ASSUME NEW o \in Openers
      PROVE  CloserOf(o)'
  <2>1. (Calling(o)' <=> Calling(o)) /\ (pc'[o] \in Early => pc[o] \in Early)
      BY DEF Calling, Threads, Draining, Early
  <2>2. CASE o \notin S
    <3>1. Steady(o)
        BY <1>2, <2>1, <2>2 DEF Steady, TypeOK
    <3> QED
        BY <3>1, SteadyCloser DEF CloserInv
  <2>3. CASE o \in S
    <3>1. /\ ~dead[o] /\ transport[o] \in {"live", "ended"} /\ ~Calling(o) /\ ~Drained(o)
          /\ o \notin helpers /\ closes[o] = 0 /\ (pc[o] \in Early => transport[o] = "none")
        BY <2>3 DEF CloserInv, CloserOf, NoOwner, OneOwner, TypeOK
    <3>2. o \in todo'[t] /\ \A u \in Threads : o \in todo'[u] => u = t
        BY <2>3, <3>1 DEF TypeOK, Drained
    <3>3. OneOwner(o)'
        BY <2>1, <2>3, <3>1, <3>2 DEF OneOwner
    <3> QED
        BY <2>1, <3>1, <3>3 DEF CloserOf
  <2> QED
      BY <2>2, <2>3
<1> QED
    BY <1>1, <1>3 DEF CloserInv

\* Whoever answers for a transport closes it and lets go of it.
LEMMA ClosedCloser ==
    ASSUME TypeOK, NEW o \in Openers, CloserOf(o), transport[o] \in {"live", "ended"},
           transport'[o] = "closed", closes'[o] = closes[o] + 1, NoOwner(o)', pc'[o] \notin Early
    PROVE  CloserOf(o)'
BY DEF CloserOf

\* Every step keeps one closer for each transport.
LEMMA CloserStep == TypeOK /\ CloserInv /\ [Next]_vars => CloserInv'
<1> SUFFICES ASSUME TypeOK, CloserInv, [Next]_vars
             PROVE  CloserInv'
    OBVIOUS
<1> USE ThreadsAssumption DEF authVars, vaultVars, mapVars, openVars, wireVars, callVars
<1> DEFINE Still == UNCHANGED <<sessions, helpers, todo, transport, closes, dead>>
           Moves == \A t \in Threads :
                       /\ pc[t] \in Draining => pc'[t] \in Draining
                       /\ t \in Openers => /\ Calling(t)' <=> Calling(t)
                                           /\ pc'[t] \in Early => pc[t] \in Early
<1>0. ASSUME Still, Moves
      PROVE  CloserInv'
  <2>1. \A o \in Openers : Steady(o)
      BY <1>0 DEF Steady, Threads
  <2> QED
      BY <1>0, <2>1, SteadyCloser, TodoFrame DEF CloserInv
<1>1. ASSUME Start
      PROVE  CloserInv'
  <2>1. ASSUME NEW p \in Principals, Login(p)
        PROVE  CloserInv'
      BY <1>0, <2>1 DEF Login, Calling
  <2>2. CASE Unlock
      BY <1>0, <2>2 DEF Unlock, Calling
  <2>3. ASSUME NEW o \in Openers, NEW k \in Credentials, Prepare(o, k)
        PROVE  CloserInv'
      BY <1>0, <2>3 DEF Prepare, Calling, Early, Draining, TypeOK, Threads
  <2>4. ASSUME NEW c \in Callers, BeginLock(c) \/ BeginCutoff(c)
        PROVE  CloserInv'
      BY <1>0, <2>4 DEF BeginLock, BeginCutoff, Begin, Calling, Early, Draining, TypeOK, Threads
  <2>5. ASSUME NEW c \in Callers, NEW k \in Credentials, BeginDelete(c, k)
        PROVE  CloserInv'
      BY <1>0, <2>5 DEF BeginDelete, Begin, Calling, Early, Draining, TypeOK, Threads
  <2>6. ASSUME NEW c \in Callers, NEW o \in Openers, CloseSession(c, o)
        PROVE  CloserInv'
    <3>1. CASE o \in sessions /\ Bound(o)
      <4>1. /\ pc[c] = "ready" /\ sessions' = sessions \ {o} /\ todo' = [todo EXCEPT ![c] = {o}]
            /\ pc' = [pc EXCEPT ![c] = "drain"]
            /\ UNCHANGED <<transport, closes, dead, helpers>>
          BY <2>6, <3>1 DEF CloseSession, RemoveAndClose, TakeOut
      <4>2. {o} \in SUBSET sessions /\ c \in Threads
          BY <3>1 DEF Threads
      <4> QED
          BY <4>1, <4>2, TakenCloser DEF TypeOK, Draining
    <3>2. CASE ~(o \in sessions /\ Bound(o))
        BY <1>0, <2>6, <3>2 DEF CloseSession, Calling
    <3> QED
        BY <3>1, <3>2
  <2>7. ASSUME NEW c \in Callers, NEW o \in Openers, LookupSlot(c, o)
        PROVE  CloserInv'
      BY <1>0, <2>7 DEF LookupSlot, Begin, Calling, Early, Draining, TypeOK, Threads
  <2> QED
      BY <1>1, <2>1, <2>2, <2>3, <2>4, <2>5, <2>6, <2>7 DEF Start
<1>2. ASSUME NEW o \in Openers, PeerEnds(o) \/ SinkFails(o)
      PROVE  CloserInv'
  <2>1. CASE PeerEnds(o)
    <3>1. \A x \in Openers \ {o} : Steady(x)
        BY <2>1 DEF PeerEnds, Steady, Calling, TypeOK
    <3>2. CloserOf(o)'
        BY <2>1 DEF PeerEnds, CloserInv, CloserOf, OneOwner, Calling, Drained, TypeOK
    <3>3. TodoInv'
        BY <2>1, TodoFrame DEF PeerEnds, CloserInv
    <3> QED
        BY <3>1, <3>2, <3>3, SteadyCloser DEF CloserInv
  <2>2. CASE SinkFails(o)
    <3>1. CASE sink[o] = "bound"
      <4>1. TodoInv'
          BY <2>2, TodoFrame DEF SinkFails, CloserInv
      <4> QED
          BY <2>2, <3>1, <4>1, EndedCloser DEF SinkFails, CloserInv, Calling
    <3>2. CASE sink[o] # "bound"
        BY <1>0, <2>2, <3>2 DEF SinkFails, Calling
    <3> QED
        BY <3>1, <3>2
  <2> QED
      BY <1>2, <2>1, <2>2
<1>3. ASSUME NEW t \in Threads, LockStep(t)
      PROVE  CloserInv'
  <2>1. CASE CloseAll(t)
    <3>1. /\ pc[t] \in {"first_close_all", "close_all"} /\ pc'[t] \in Draining
          /\ \A u \in Threads : u # t => pc'[u] = pc[u]
        BY <2>1 DEF CloseAll, Goto, Draining, TypeOK
    <3>2. /\ sessions' = sessions \ sessions /\ todo' = [todo EXCEPT ![t] = sessions]
          /\ UNCHANGED <<transport, closes, dead, helpers>>
        BY <2>1 DEF CloseAll, TakeOut
    <3>3. pc[t] \notin Draining /\ sessions \in SUBSET sessions
        BY <3>1 DEF Draining
    <3> QED
        BY <3>1, <3>2, <3>3, TakenCloser
  <2>2. CASE CloseSlot(t)
    <3>1. CASE todo[t] = {}
      <4>1. Still /\ pc[t] \in Draining
          BY <2>2, <3>1 DEF CloseSlot, Draining
      <4>2. \A u \in Threads : u # t => pc'[u] = pc[u]
          BY <2>2, <3>1 DEF CloseSlot, Finish, Goto, TypeOK
      <4>3. t \in Openers => ~Calling(t) /\ ~Calling(t)' /\ pc'[t] \notin Early
          BY <2>2, <3>1, <4>1
             DEF CloseSlot, Finish, Goto, AfterDrain, Calling, Early, Draining, TypeOK
      <4>4. \A x \in Openers : Steady(x)
          BY <4>1, <4>2, <4>3 DEF Steady, Calling, Threads
      <4>5. TodoInv'
          BY <3>1, <4>1, <4>2 DEF CloserInv, TodoInv
      <4> QED
          BY <4>4, <4>5, SteadyCloser DEF CloserInv
    <3>2. ASSUME NEW o \in todo[t],
                 todo' = [todo EXCEPT ![t] = @ \ {o}], dead' = [dead EXCEPT ![o] = TRUE],
                 IF dead[o] THEN UNCHANGED <<transport, closes>> ELSE CloseTransport(o),
                 UNCHANGED <<pc, sessions, helpers>>
          PROVE  CloserInv'
      <4>1. o \in Openers
          BY <3>2 DEF TypeOK
      <4>2. /\ transport[o] \in {"live", "ended"} /\ ~dead[o] /\ o \notin sessions
            /\ o \notin helpers /\ ~Calling(o) /\ \A u \in Threads : o \in todo[u] => u = t
          BY <4>1 DEF CloserInv, CloserOf, NoOwner, OneOwner, Drained, TypeOK
      <4>3. /\ transport' = [transport EXCEPT ![o] = "closed"]
            /\ closes' = [closes EXCEPT ![o] = closes[o] + 1]
          BY <3>2, <4>2 DEF CloseTransport
      <4>4. NoOwner(o)'
          BY <3>2, <4>1, <4>2 DEF NoOwner, Drained, Calling, TypeOK
      <4>5. pc'[o] \notin Early
          BY <3>2, <4>1, <4>2 DEF CloserInv, CloserOf
      <4>6. CloserOf(o)'
          BY <4>1, <4>2, <4>3, <4>4, <4>5, ClosedCloser DEF TypeOK, CloserInv
      <4>7. \A x \in Openers \ {o} : Steady(x)
          BY <3>2, <4>3 DEF Steady, Calling, TypeOK
      <4>8. TodoInv'
          BY <3>2 DEF CloserInv, TodoInv, TypeOK
      <4> QED
          BY <4>6, <4>7, <4>8, SteadyCloser DEF CloserInv
    <3> QED
        BY <2>2, <3>1, <3>2 DEF CloseSlot
  <2>3. CASE ClaimSealing(t)
      BY <1>0, <2>3 DEF ClaimSealing, Goto, Calling, Early, Draining, TypeOK, Threads
  <2>4. CASE Seal(t)
      BY <1>0, <2>4 DEF Seal, Goto, Finish, Calling, Early, Draining, TypeOK, Threads
  <2> QED
      BY <1>3, <2>1, <2>2, <2>3, <2>4 DEF LockStep
<1>4. ASSUME NEW o \in Openers, OpenStep(o)
      PROVE  CloserInv'
  <2>1. CASE Lease(o)
      BY <1>0, <2>1 DEF Lease, IdleSeal, Goto, Finish, Calling, Early, Draining, TypeOK, Threads
  <2>2. CASE TakeTickets(o)
      BY <1>0, <2>2 DEF TakeTickets, Goto, Finish, Calling, Early, Draining, TypeOK, Threads
  <2>3. CASE Connect(o)
    <3>1. CASE UNCHANGED transport /\ Finish(o)
        BY <1>0, <2>3, <3>1 DEF Connect, Finish, Calling, Early, Draining, TypeOK, Threads
    <3>2. CASE transport' = [transport EXCEPT ![o] = "live"] /\ Goto(o, "check")
      <4>1. pc[o] = "connect" /\ UNCHANGED <<sessions, helpers, todo, closes, dead>>
          BY <2>3 DEF Connect
      <4>2. NoOwner(o) /\ closes[o] = 0 /\ ~dead[o]
          BY <4>1 DEF CloserInv, CloserOf, Early
      <4>3. pc' = [pc EXCEPT ![o] = "check"]
          BY <3>2 DEF Goto
      <4>4. OneOwner(o)' /\ transport'[o] = "live"
          BY <3>2, <4>1, <4>2, <4>3 DEF NoOwner, OneOwner, Calling, Drained, TypeOK, Threads
      <4>5. CloserOf(o)'
          BY <4>1, <4>2, <4>3, <4>4 DEF CloserOf, Early, TypeOK, Threads
      <4>6. \A x \in Openers \ {o} : Steady(x)
          BY <3>2, <4>1, <4>3 DEF Steady, Calling, TypeOK, Threads
      <4>7. TodoInv'
          BY <4>1, <4>3, TodoFrame DEF CloserInv, Draining, TypeOK, Threads
      <4> QED
          BY <4>5, <4>6, <4>7, SteadyCloser DEF CloserInv
    <3> QED
        BY <2>3, <3>1, <3>2 DEF Connect
  <2>4. ASSUME CloseRejected(o), Finish(o), Calling(o),
               UNCHANGED <<sessions, helpers, todo, dead>>
        PROVE  CloserInv'
    <3>1. /\ transport[o] \in {"live", "ended"} /\ ~Drained(o) /\ o \notin sessions
          /\ o \notin helpers
        BY <2>4 DEF CloserInv, CloserOf, NoOwner, OneOwner, TypeOK
    <3>2. /\ transport' = [transport EXCEPT ![o] = "closed"]
          /\ closes' = [closes EXCEPT ![o] = closes[o] + 1]
          /\ pc' = [pc EXCEPT ![o] = "done"]
        BY <2>4 DEF CloseRejected, CloseTransport, Finish
    <3>3. NoOwner(o)' /\ pc'[o] \notin Early
        BY <2>4, <3>1, <3>2 DEF NoOwner, Drained, Calling, Early, TypeOK, Threads
    <3>4. CloserOf(o)'
        BY <3>1, <3>2, <3>3, ClosedCloser DEF TypeOK, CloserInv
    <3>5. \A x \in Openers \ {o} : Steady(x)
        BY <2>4, <3>2 DEF Steady, Calling, TypeOK, Threads
    <3>6. TodoInv'
        BY <2>4, <3>2, TodoFrame DEF CloserInv, Draining, Calling, TypeOK, Threads
    <3> QED
        BY <3>4, <3>5, <3>6, SteadyCloser DEF CloserInv
  <2>5. CASE CheckConnected(o)
    <3>1. CASE Bound(o)
        BY <1>0, <2>5, <3>1
           DEF CheckConnected, Goto, Calling, Early, Draining, TypeOK, Threads
    <3>2. CASE ~Bound(o)
        BY <2>4, <2>5, <3>2 DEF CheckConnected, Calling
    <3> QED
        BY <3>1, <3>2
  <2>6. CASE Register(o)
    <3>1. CASE CloseRejected(o) /\ Finish(o) /\ UNCHANGED sessions
        BY <2>4, <2>6, <3>1 DEF Register, Calling
    <3>2. CASE sessions' = sessions \cup {o} /\ Goto(o, "bind") /\ UNCHANGED <<transport, closes>>
      <4>1. /\ pc[o] = "register" /\ pc' = [pc EXCEPT ![o] = "bind"]
            /\ UNCHANGED <<helpers, todo, transport, closes, dead>>
          BY <2>6, <3>2 DEF Register, Goto
      <4>2. /\ transport[o] \in {"live", "ended"} /\ ~Drained(o) /\ o \notin helpers
            /\ ~dead[o] /\ closes[o] = 0
          BY <4>1 DEF CloserInv, CloserOf, NoOwner, OneOwner, Calling, TypeOK
      <4>3. OneOwner(o)' /\ pc'[o] \notin Early
          BY <3>2, <4>1, <4>2 DEF OneOwner, Drained, Calling, Early, TypeOK, Threads
      <4>4. CloserOf(o)'
          BY <4>1, <4>2, <4>3 DEF CloserOf
      <4>5. \A x \in Openers \ {o} : Steady(x)
          BY <3>2, <4>1 DEF Steady, Calling, TypeOK, Threads
      <4>6. TodoInv'
          BY <4>1, TodoFrame DEF CloserInv, Draining, TypeOK, Threads
      <4> QED
          BY <4>4, <4>5, <4>6, SteadyCloser DEF CloserInv
    <3> QED
        BY <2>6, <3>1, <3>2 DEF Register
  <2>7. CASE BindSink(o)
    <3>1. /\ pc[o] = "bind" /\ pc' = [pc EXCEPT ![o] = "done"]
          /\ UNCHANGED <<transport, closes, todo>>
        BY <2>7 DEF BindSink, Finish
    <3>2. /\ \A x \in Openers :
              (Calling(x)' <=> Calling(x)) /\ (pc'[x] \in Early => pc[x] \in Early)
          /\ \A t \in Threads : pc[t] \in Draining => pc'[t] \in Draining
        BY <3>1 DEF Calling, Early, Draining, TypeOK, Threads
    <3>3. CASE RemoveEnded(o)
        BY <3>1, <3>2, <3>3, EndedCloser, TodoFrame DEF CloserInv
    <3>4. CASE UNCHANGED <<sessions, dead, helpers>>
        BY <1>0, <3>1, <3>2, <3>4
    <3> QED
        BY <2>7, <3>3, <3>4 DEF BindSink
  <2> QED
      BY <1>4, <2>1, <2>2, <2>3, <2>5, <2>6, <2>7 DEF OpenStep
<1>5. ASSUME NEW o \in Openers, TellSink(o)
      PROVE  CloserInv'
  <2>1. UNCHANGED <<transport, closes, todo, pc>>
      BY <1>5 DEF TellSink
  <2>2. CASE RemoveEnded(o)
      BY <2>1, <2>2, EndedCloser, TodoFrame DEF CloserInv, Calling
  <2>3. CASE UNCHANGED <<sessions, dead, helpers>>
      BY <1>0, <2>1, <2>3 DEF Calling
  <2> QED
      BY <1>5, <2>2, <2>3 DEF TellSink, OnClosedWhenBound
<1>6. ASSUME NEW o \in Openers, HelperCloses(o)
      PROVE  CloserInv'
  <2>1. /\ o \in helpers /\ helpers' = helpers \ {o}
        /\ transport' = [transport EXCEPT ![o] = "closed"]
        /\ closes' = [closes EXCEPT ![o] = closes[o] + 1]
        /\ UNCHANGED <<sessions, todo, dead, pc>>
      BY <1>6 DEF HelperCloses, CloseTransport
  <2>2. transport[o] \in {"live", "ended"} /\ ~Drained(o) /\ o \notin sessions /\ ~Calling(o)
      BY <2>1 DEF CloserInv, CloserOf, NoOwner, OneOwner, TypeOK
  <2>3. NoOwner(o)' /\ pc'[o] \notin Early
      BY <2>1, <2>2 DEF NoOwner, Drained, Calling, CloserInv, CloserOf
  <2>4. CloserOf(o)'
      BY <2>1, <2>2, <2>3, ClosedCloser DEF TypeOK, CloserInv
  <2>5. \A x \in Openers \ {o} : Steady(x)
      BY <2>1 DEF Steady, Calling, TypeOK
  <2>6. TodoInv'
      BY <2>1, TodoFrame DEF CloserInv
  <2> QED
      BY <2>4, <2>5, <2>6, SteadyCloser DEF CloserInv
<1>7. ASSUME NEW c \in Callers, CallerStep(c)
      PROVE  CloserInv'
  <2>1. CASE ClearNative(c)
      BY <1>0, <2>1 DEF ClearNative, Finish, Calling, Early, Draining, TypeOK, Threads
  <2>2. CASE Delete(c)
      BY <1>0, <2>2 DEF Delete, IdleSeal, Goto, Finish, Calling, Early, Draining, TypeOK, Threads
  <2>3. CASE RevokeCredential(c)
    <3> DEFINE doomed == {o \in sessions : KeyOf(o) = arg[c]}
    <3>1. /\ pc[c] = "revoke" /\ sessions' = sessions \ doomed
          /\ todo' = [todo EXCEPT ![c] = doomed] /\ pc' = [pc EXCEPT ![c] = "drain"]
          /\ UNCHANGED <<transport, closes, dead, helpers>>
        BY <2>3 DEF RevokeCredential, TakeOut, Goto
    <3>2. doomed \in SUBSET sessions /\ c \in Threads
        BY DEF Threads
    <3> HIDE DEF doomed
    <3> QED
        BY <3>1, <3>2, TakenCloser DEF TypeOK, Draining
  <2>4. CASE Erase(c)
      BY <1>0, <2>4 DEF Erase, Finish, Calling, Early, Draining, TypeOK, Threads
  <2>5. CASE RevalidateIo(c)
    <3>1. CASE RemoveAndClose(c, arg[c]) /\ arg[c] \in sessions
      <4>1. /\ pc[c] \in {"check_before", "check_after"} /\ sessions' = sessions \ {arg[c]}
            /\ todo' = [todo EXCEPT ![c] = {arg[c]}] /\ pc' = [pc EXCEPT ![c] = "drain"]
            /\ UNCHANGED <<transport, closes, dead, helpers>>
          BY <2>5, <3>1 DEF RevalidateIo, RemoveAndClose, TakeOut
      <4>2. {arg[c]} \in SUBSET sessions /\ c \in Threads
          BY <3>1 DEF Threads
      <4> QED
          BY <4>1, <4>2, TakenCloser DEF TypeOK, Draining
    <3>2. CASE ~(RemoveAndClose(c, arg[c]) /\ arg[c] \in sessions)
        BY <1>0, <2>5, <3>2
           DEF RevalidateIo, RemoveAndClose, Finish, Goto, Calling, Early, Draining, TypeOK, Threads
    <3> QED
        BY <3>1, <3>2
  <2> QED
      BY <1>7, <2>1, <2>2, <2>3, <2>4, <2>5 DEF CallerStep
<1>8. CASE UNCHANGED vars
    BY <1>0, <1>8 DEF vars, Calling
<1> QED
    BY <1>1, <1>2, <1>3, <1>4, <1>5, <1>6, <1>7, <1>8 DEF Next, Disturb

LEMMA CloserInit == Init => CloserInv
BY ThreadsAssumption
   DEF Init, CloserInv, TodoInv, CloserOf, NoOwner, Calling, Drained, Threads

\* A set with one member has that cardinality.
LEMMA OneMember ==
    ASSUME NEW S, NEW x, S = {x}
    PROVE  Cardinality(S) = 1
BY FS_Singleton

LEMMA OwnersCounted ==
    ASSUME CloserInv, NEW o \in Openers
    PROVE  /\ OneOwner(o) => Cardinality(Owners(o)) = 1
           /\ NoOwner(o) => Owners(o) = {}
<1>1. Owners(o) = {w \in {<<"open", o>>} : Calling(o)}
                  \cup {w \in {<<"registry", o>>} : o \in sessions}
                  \cup {w \in {<<"helper", o>>} : o \in helpers}
                  \cup {<<"drain", t>> : t \in {t \in Threads : o \in todo[t]}}
    BY DEF Owners, Calling
<1>2. NoOwner(o) => Owners(o) = {}
    BY <1>1 DEF NoOwner, Drained
<1>3. CASE OneOwner(o)
  <2>1. CASE ~Drained(o)
    <3>1. \E x : Owners(o) = {x}
        BY <1>1, <1>3, <2>1 DEF OneOwner, Drained
    <3> QED
        BY <1>2, <3>1, OneMember DEF NoOwner
  <2>2. CASE Drained(o)
    <3>1. /\ ~Calling(o) /\ o \notin sessions /\ o \notin helpers
          /\ \E t \in Threads : o \in todo[t] /\ \A u \in Threads : o \in todo[u] => u = t
        BY <1>3, <2>2 DEF OneOwner
    <3>2. PICK t \in Threads : o \in todo[t] /\ \A u \in Threads : o \in todo[u] => u = t
        BY <3>1
    <3>3. Owners(o) = {<<"drain", t>>}
        BY <1>1, <3>1, <3>2
    <3> QED
        BY <1>2, <3>3, OneMember
  <2> QED
      BY <2>1, <2>2
<1> QED
    BY <1>2, <1>3

\* No transport leaks and none is closed twice, for every number of open calls and of
\* threads that race for it: until it is closed exactly one party answers for it.
THEOREM OneCloser == Spec => []OneCloserPerTransport
<1>1. CloserInv => OneCloserPerTransport
    BY OwnersCounted DEF CloserInv, CloserOf, OneCloserPerTransport
<1>2. TypeOK /\ TargetInv /\ BarrierInv /\ CloserInv /\ [Next]_vars => CloserInv'
    BY CloserStep
<1> QED
    BY <1>1, <1>2, CloserInit, BarrierInvariant, PTL DEF Spec

-----------------------------------------------------------------------------
(* Who holds the vault's gate.                                               *)

\* t holds the gate: it seals, or deletes.
InGate(t) ==
    \/ pc[t] \in {"close_all", "seal", "revoke", "erase"}
    \/ pc[t] = "drain" /\ job[t] # "close"

\* What a thread that holds the gate does is what the gate says; a close, which needs no
\* gate, is never at a point of the others.
GateOf(t) ==
    /\ InGate(t) => gate # "idle"
    /\ pc[t] \in {"close_all", "seal"} => gate = "sealing"
    /\ pc[t] \in {"revoke", "erase"} => gate = "operating"
    /\ pc[t] \in {"delete", "revoke", "erase"} => job[t] = "delete"
    /\ pc[t] = "drain" /\ gate = "operating" => job[t] \in {"close", "delete"}
    /\ pc[t] \in {"first_close_all", "first_drain"} => job[t] = "cutoff"
    /\ pc[t] \in {"lease", "claim", "close_all", "seal"} => job[t] # "close"

\* A gate that is not idle has exactly one holder.
GateInv ==
    /\ \A t \in Threads : GateOf(t)
    /\ \A t, u \in Threads : InGate(t) /\ InGate(u) => t = u
    /\ gate # "idle" => \E t \in Threads : InGate(t)

\* A thread moves: it takes the gate when it is idle, and gives it back when it holds it.
LEMMA GateMove ==
    ASSUME GateInv, NEW t \in Threads, GateOf(t)',
           \A u \in Threads : u # t => pc'[u] = pc[u] /\ job'[u] = job[u],
           \/ gate' = gate /\ (InGate(t)' <=> InGate(t))
           \/ gate = "idle" /\ InGate(t)'
           \/ InGate(t) /\ ~InGate(t)' /\ gate' = "idle"
    PROVE  GateInv'
<1>1. \A u \in Threads : u # t => (InGate(u)' <=> InGate(u))
    BY DEF InGate
<1>2. CASE gate' = gate /\ (InGate(t)' <=> InGate(t))
  <2>1. \A u \in Threads : InGate(u)' <=> InGate(u)
      BY <1>1, <1>2
  <2>2. \A u \in Threads : GateOf(u)'
      BY <1>2, <2>1 DEF GateInv, GateOf
  <2> QED
      BY <1>2, <2>1, <2>2 DEF GateInv
<1>3. CASE gate = "idle" /\ InGate(t)'
  <2>1. \A u \in Threads : ~InGate(u)
      BY <1>3 DEF GateInv, GateOf
  <2>2. \A u \in Threads : u # t => GateOf(u)'
      BY <1>1, <2>1 DEF GateInv, GateOf, InGate
  <2> QED
      BY <1>1, <1>3, <2>1, <2>2 DEF GateInv
<1>4. CASE InGate(t) /\ ~InGate(t)' /\ gate' = "idle"
  <2>1. \A u \in Threads : ~InGate(u)'
      BY <1>1, <1>4 DEF GateInv
  <2>2. \A u \in Threads : u # t => GateOf(u)'
      BY <1>4, <2>1 DEF GateInv, GateOf, InGate
  <2> QED
      BY <1>4, <2>1, <2>2 DEF GateInv
<1> QED
    BY <1>2, <1>3, <1>4

\* Every step keeps the gate's one holder.
LEMMA GateStep == TypeOK /\ GateInv /\ [Next]_vars => GateInv'
<1> SUFFICES ASSUME TypeOK, GateInv, [Next]_vars
             PROVE  GateInv'
    OBVIOUS
<1> USE DEF callVars, Goto, Finish
<1>0. ASSUME UNCHANGED <<gate, pc, job>>
      PROVE  GateInv'
    BY <1>0 DEF GateInv, GateOf, InGate
<1>1. ASSUME NEW t \in Threads, IdleSeal(t), pc[t] \in {"lease", "delete"}
      PROVE  GateInv'
  <2>1. gate = "idle" /\ \A u \in Threads : u # t => pc'[u] = pc[u] /\ job'[u] = job[u]
      BY <1>1 DEF IdleSeal, TypeOK
  <2>2. GateOf(t)' /\ InGate(t)'
      BY <1>1 DEF IdleSeal, GateInv, GateOf, InGate, TypeOK
  <2> QED
      BY <2>1, <2>2, GateMove
<1>2. ASSUME NEW t \in Threads, UNCHANGED gate, ~InGate(t), ~InGate(t)', GateOf(t)',
             \A u \in Threads : u # t => pc'[u] = pc[u] /\ job'[u] = job[u]
      PROVE  GateInv'
    BY <1>2, GateMove
<1>3. ASSUME NEW t \in Threads, LockStep(t)
      PROVE  GateInv'
  <2>1. CASE CloseAll(t)
    <3>1. GateOf(t)' /\ (InGate(t)' <=> InGate(t))
        BY <2>1 DEF CloseAll, GateInv, GateOf, InGate, TypeOK, vaultVars
    <3>2. gate' = gate /\ \A u \in Threads : u # t => pc'[u] = pc[u] /\ job'[u] = job[u]
        BY <2>1 DEF CloseAll, TypeOK, vaultVars
    <3> QED
        BY <3>1, <3>2, GateMove
  <2>2. CASE CloseSlot(t)
    <3>1. gate' = gate /\ \A u \in Threads : u # t => pc'[u] = pc[u] /\ job'[u] = job[u]
        BY <2>2 DEF CloseSlot, TypeOK, vaultVars
    <3>2. CASE UNCHANGED callVars
        BY <1>0, <3>1, <3>2
    <3>3. CASE job[t] = "close" /\ Finish(t)
        BY <1>2, <2>2, <3>1, <3>3 DEF CloseSlot, GateInv, GateOf, InGate, TypeOK
    <3>4. CASE job[t] # "close" /\ Goto(t, AfterDrain(t))
      <4>1. pc[t] \in {"first_drain", "drain"} /\ job'[t] = job[t] /\ pc'[t] = AfterDrain(t)
          BY <2>2, <3>4 DEF CloseSlot, TypeOK
      <4>2. CASE pc[t] = "first_drain"
        <5>1. pc'[t] = "claim" /\ job'[t] # "close"
            BY <3>4, <4>1, <4>2 DEF AfterDrain, GateInv, GateOf
        <5>2. GateOf(t)' /\ ~InGate(t) /\ ~InGate(t)'
            BY <4>2, <5>1 DEF GateOf, InGate
        <5> QED
            BY <1>2, <3>1, <5>2
      <4>3. CASE pc[t] = "drain"
        <5>1. gate # "idle" /\ (gate = "operating" => job[t] = "delete")
            BY <3>4, <4>3 DEF GateInv, GateOf, InGate
        <5>2. \/ pc'[t] = "erase" /\ job[t] = "delete" /\ gate = "operating"
              \/ pc'[t] = "seal" /\ gate = "sealing"
            BY <4>1, <4>3, <5>1 DEF AfterDrain, TypeOK
        <5>3. GateOf(t)' /\ InGate(t) /\ InGate(t)'
            BY <3>1, <3>4, <4>1, <4>3, <5>2 DEF GateOf, InGate
        <5> QED
            BY <3>1, <5>3, GateMove
      <4> QED
          BY <4>1, <4>2, <4>3
    <3> QED
        BY <2>2, <3>2, <3>3, <3>4 DEF CloseSlot
  <2>3. CASE ClaimSealing(t)
    <3>1. gate = "idle" /\ \A u \in Threads : u # t => pc'[u] = pc[u] /\ job'[u] = job[u]
        BY <2>3 DEF ClaimSealing, TypeOK
    <3>2. GateOf(t)' /\ InGate(t)'
        BY <2>3 DEF ClaimSealing, GateInv, GateOf, InGate, TypeOK
    <3> QED
        BY <3>1, <3>2, GateMove
  <2>4. CASE Seal(t)
    <3>1. gate' = "idle" /\ \A u \in Threads : u # t => pc'[u] = pc[u] /\ job'[u] = job[u]
        BY <2>4 DEF Seal, TypeOK
    <3>2. GateOf(t)' /\ InGate(t) /\ ~InGate(t)'
        BY <2>4 DEF Seal, GateInv, GateOf, InGate, TypeOK
    <3> QED
        BY <3>1, <3>2, GateMove
  <2> QED
      BY <1>3, <2>1, <2>2, <2>3, <2>4 DEF LockStep
<1>4. ASSUME NEW c \in Callers, CallerStep(c)
      PROVE  GateInv'
  <2>0. c \in Threads
      BY DEF Threads
  <2>1. CASE ClearNative(c)
      BY <1>2, <2>0, <2>1 DEF ClearNative, GateInv, GateOf, InGate, TypeOK, vaultVars
  <2>2. CASE Delete(c)
    <3>1. CASE IdleSeal(c)
        BY <1>1, <2>0, <2>2, <3>1 DEF Delete
    <3>2. CASE gate = "idle" /\ gate' = "operating" /\ Goto(c, "revoke")
      <4>1. job[c] = "delete"
          BY <2>0, <2>2 DEF Delete, GateInv, GateOf
      <4> QED
          BY <2>0, <3>2, <4>1, GateMove DEF GateOf, InGate, TypeOK
    <3>3. CASE UNCHANGED gate /\ (Goto(c, "claim") \/ Finish(c))
        BY <1>2, <2>0, <2>2, <3>3 DEF Delete, GateInv, GateOf, InGate, TypeOK
    <3> QED
        BY <2>2, <3>1, <3>2, <3>3 DEF Delete
  <2>3. CASE RevokeCredential(c)
      BY <2>0, <2>3, GateMove
         DEF RevokeCredential, GateInv, GateOf, InGate, TypeOK, vaultVars
  <2>4. CASE Erase(c)
      BY <2>0, <2>4, GateMove DEF Erase, GateInv, GateOf, InGate, TypeOK
  <2>5. CASE RevalidateIo(c)
      BY <1>2, <2>0, <2>5
         DEF RevalidateIo, RemoveAndClose, GateInv, GateOf, InGate, TypeOK, vaultVars
  <2> QED
      BY <1>4, <2>1, <2>2, <2>3, <2>4, <2>5 DEF CallerStep
<1>5. ASSUME NEW o \in Openers, OpenStep(o) \/ TellSink(o) \/ HelperCloses(o)
      PROVE  GateInv'
  <2>0. o \in Threads
      BY DEF Threads
  <2>1. CASE Lease(o)
    <3>1. CASE IdleSeal(o)
        BY <1>1, <2>0, <2>1, <3>1 DEF Lease
    <3>2. CASE UNCHANGED gate /\ (Goto(o, "claim") \/ Goto(o, "tickets") \/ Finish(o))
        BY <1>2, <2>0, <2>1, <3>2 DEF Lease, GateInv, GateOf, InGate, TypeOK
    <3> QED
        BY <2>1, <3>1, <3>2 DEF Lease
  <2>2. CASE TakeTickets(o) \/ Connect(o) \/ CheckConnected(o) \/ Register(o) \/ BindSink(o)
    <3>1. /\ UNCHANGED gate /\ pc[o] \in {"tickets", "connect", "check", "register", "bind"}
          /\ \A u \in Threads : u # o => pc'[u] = pc[u] /\ job'[u] = job[u]
          /\ pc'[o] \in {"connect", "check", "register", "bind", "done"}
        BY <2>0, <2>2
           DEF TakeTickets, Connect, CheckConnected, Register, BindSink, TypeOK, vaultVars
    <3> QED
        BY <1>2, <2>0, <3>1 DEF GateOf, InGate
  <2>3. CASE TellSink(o) \/ HelperCloses(o)
      BY <1>0, <2>3 DEF TellSink, HelperCloses, vaultVars
  <2> QED
      BY <1>5, <2>1, <2>2, <2>3 DEF OpenStep
<1>6. CASE Start
  <2>1. ASSUME NEW t \in Threads, NEW name \in Jobs \ {"close"}, NEW about,
               NEW point \in {"claim", "first_close_all", "delete", "check_before"},
               point = "delete" => name = "delete",
               point = "first_close_all" => name = "cutoff", Begin(t, name, point, about)
        PROVE  GateInv'
    <3>1. /\ UNCHANGED gate /\ pc[t] = "ready" /\ pc'[t] = point /\ job'[t] = name
          /\ \A u \in Threads : u # t => pc'[u] = pc[u] /\ job'[u] = job[u]
        BY <2>1 DEF Begin, TypeOK, vaultVars
    <3>2. GateOf(t)' /\ ~InGate(t) /\ ~InGate(t)'
        BY <2>1, <3>1 DEF GateOf, InGate
    <3> QED
        BY <1>2, <3>1, <3>2
  <2>2. ASSUME NEW c \in Callers
        PROVE  /\ c \in Threads
               /\ {"lock", "cutoff", "delete", "write"} \subseteq Jobs \ {"close"}
      BY DEF Threads, Jobs
  <2>3. ASSUME NEW c \in Callers, BeginLock(c)
        PROVE  GateInv'
      BY <2>1, <2>2, <2>3 DEF BeginLock
  <2>4. ASSUME NEW c \in Callers, BeginCutoff(c)
        PROVE  GateInv'
      BY <2>1, <2>2, <2>4 DEF BeginCutoff
  <2>5. ASSUME NEW c \in Callers, NEW k \in Credentials, BeginDelete(c, k)
        PROVE  GateInv'
      BY <2>1, <2>2, <2>5 DEF BeginDelete
  <2>6. ASSUME NEW c \in Callers, NEW o \in Openers, LookupSlot(c, o)
        PROVE  GateInv'
      BY <2>1, <2>2, <2>6 DEF LookupSlot
  <2>7. ASSUME NEW c \in Callers, NEW o \in Openers, CloseSession(c, o)
        PROVE  GateInv'
      BY <1>0, <1>2, <2>2, <2>7
         DEF CloseSession, RemoveAndClose, GateOf, InGate, TypeOK, vaultVars
  <2>8. ASSUME NEW o \in Openers, NEW k \in Credentials, Prepare(o, k)
        PROVE  GateInv'
    <3>1. /\ UNCHANGED gate /\ o \in Threads /\ pc[o] = "ready" /\ pc'[o] = "lease"
          /\ job'[o] = "open" /\ \A u \in Threads : u # o => pc'[u] = pc[u] /\ job'[u] = job[u]
        BY <2>8 DEF Prepare, TypeOK, vaultVars, Threads
    <3> QED
        BY <1>2, <3>1 DEF GateOf, InGate
  <2>9. CASE Unlock \/ \E p \in Principals : Login(p)
      BY <1>0, <2>9 DEF Unlock, Login, vaultVars
  <2> QED
      BY <1>6, <2>3, <2>4, <2>5, <2>6, <2>7, <2>8, <2>9 DEF Start
<1>7. CASE Disturb
    BY <1>0, <1>7 DEF Disturb, PeerEnds, SinkFails, vaultVars
<1>8. CASE UNCHANGED vars
    BY <1>0, <1>8 DEF vars, vaultVars
<1> QED
    BY <1>3, <1>4, <1>5, <1>6, <1>7, <1>8 DEF Next

LEMMA GateInit == Init => GateInv
BY DEF Init, GateInv, GateOf, InGate

-----------------------------------------------------------------------------
(* A lease stands until a lock or a deletion, or misses it.                  *)

\* The open call has leased its key and can still register, or has registered.
Holding(o) == pc[o] = "tickets" \/ (Connecting(o) /\ Fresh(o)) \/ o \in sessions

\* t is past the close_all of a seal, or past the revocation of a deletion.
SealedUnder(t) ==
    pc[t] = "seal" \/ (pc[t] = "drain" /\ gate = "sealing" /\ job[t] # "close")
ErasedUnder(t) ==
    pc[t] = "erase" \/ (pc[t] = "drain" /\ gate = "operating" /\ job[t] # "close")

\* Who did not miss a lock holds a key of the vault that is open, and nobody seals that
\* vault behind its close_all; who did not miss a deletion holds a key that is stored,
\* and nobody erases that key behind its revocation.
LeaseInv ==
    \A o \in Openers : Holding(o) =>
        /\ "lock" \notin missed[o] =>
              openFor = target[o].principal /\ \A t \in Threads : ~SealedUnder(t)
        /\ "deletion" \notin missed[o] =>
              KeyOf(o) \in stored /\ \A t \in Threads : ErasedUnder(t) => arg[t] # KeyOf(o)

\* Nobody is in the middle of a revocation who was not.
NoneUnder ==
    \A t \in Threads :
        /\ SealedUnder(t)' => SealedUnder(t)
        /\ ErasedUnder(t)' => ErasedUnder(t) /\ arg'[t] = arg[t]

\* Nobody holds a lease who did not hold it.
NoneHolds ==
    \A o \in Openers :
        Holding(o)' => Holding(o) /\ target'[o] = target[o] /\ missed[o] \subseteq missed'[o]

LEMMA LeaseFrame ==
    ASSUME LeaseInv, NoneUnder, NoneHolds, UNCHANGED <<openFor, stored>>
    PROVE  LeaseInv'
<1> SUFFICES ASSUME NEW o \in Openers, Holding(o)'
             PROVE  /\ "lock" \notin missed'[o] =>
                          /\ openFor' = target'[o].principal
                          /\ \A t \in Threads : ~SealedUnder(t)'
                    /\ "deletion" \notin missed'[o] =>
                          /\ KeyOf(o)' \in stored'
                          /\ \A t \in Threads : ErasedUnder(t)' => arg'[t] # KeyOf(o)'
    BY DEF LeaseInv
<1>1. Holding(o) /\ target'[o] = target[o] /\ missed[o] \subseteq missed'[o]
    BY DEF NoneHolds
<1>2. KeyOf(o)' = KeyOf(o)
    BY <1>1 DEF KeyOf
<1> QED
    BY <1>1, <1>2 DEF LeaseInv, NoneUnder

\* What takes no ticket, raises no barrier and registers nothing gives nobody a lease.
LEMMA NoneHoldsFrame ==
    ASSUME UNCHANGED <<generation, cred_epoch, target, gen_ticket, cred_ticket, missed>>,
           sessions' \subseteq sessions,
           \A o \in Openers :
               (Connecting(o)' => Connecting(o)) /\ (pc'[o] = "tickets" => pc[o] = "tickets")
    PROVE  NoneHolds
BY DEF NoneHolds, Holding, Fresh, KeyOf

\* Threads that do not move, move elsewhere, or drain a close are in no revocation.
LEMMA NoneUnderFrame ==
    ASSUME UNCHANGED gate,
           \A t \in Threads :
               \/ pc'[t] = pc[t] /\ job'[t] = job[t] /\ arg'[t] = arg[t]
               \/ pc'[t] \notin {"drain", "seal", "erase"}
               \/ pc'[t] = "drain" /\ job'[t] = "close"
    PROVE  NoneUnder
BY DEF NoneUnder, SealedUnder, ErasedUnder

\* Nobody is in a revocation when the gate is idle, nor right after it is taken.
LEMMA GateTaken ==
    ASSUME TypeOK, GateInv, gate = "idle", NEW t \in Threads,
           pc'[t] \notin {"drain", "seal", "erase"},
           \A u \in Threads : u # t => pc'[u] = pc[u] /\ job'[u] = job[u]
    PROVE  NoneUnder
<1>1. \A u \in Threads : ~InGate(u)
    BY DEF GateInv, GateOf
<1> QED
    BY <1>1 DEF NoneUnder, SealedUnder, ErasedUnder, InGate

\* close_all: whoever could still register under an older ticket can no more, and whoever
\* reads its tickets from now on has missed the lock.
LEMMA LeaseCloseAll ==
    ASSUME TypeOK, BarrierInv, GateInv, LeaseInv, NEW t \in Threads, CloseAll(t)
    PROVE  LeaseInv'
<1> USE DEF TypeOK, authVars, vaultVars, mapVars, wireVars, callVars
<1>1. /\ sessions' = {} /\ generation' = generation + 1
      /\ UNCHANGED <<cred_epoch, target, gen_ticket, cred_ticket, gate, openFor, stored, job, arg>>
      /\ pc' = [pc EXCEPT ![t] = IF pc[t] = "close_all" THEN "drain" ELSE "first_drain"]
      /\ missed' = [o \in Openers |->
                        IF o \in Unticketed THEN missed[o] \cup {"lock"} ELSE missed[o]]
    BY DEF CloseAll, RaiseBarrier, TakeOut, Miss, Goto
<1>2. ASSUME NEW o \in Openers, Holding(o)'
      PROVE  pc[o] = "tickets" /\ "lock" \in missed'[o] /\ KeyOf(o)' = KeyOf(o)
  <2>1. ~(Connecting(o)' /\ Fresh(o)')
      BY <1>1 DEF Connecting, Fresh, BarrierInv
  <2>2. pc'[o] = "tickets"
      BY <1>1, <1>2, <2>1 DEF Holding
  <2>3. pc[o] = "tickets"
      BY <1>1, <2>2
  <2>4. KeyOf(o)' = KeyOf(o)
      BY <1>1 DEF KeyOf
  <2> QED
      BY <1>1, <2>3, <2>4 DEF Unticketed
<1>3. ASSUME NEW o \in Openers, Holding(o)', "deletion" \notin missed'[o]
      PROVE  KeyOf(o)' \in stored' /\ \A u \in Threads : ErasedUnder(u)' => arg'[u] # KeyOf(o)'
  <2>1. Holding(o) /\ "deletion" \notin missed[o] /\ KeyOf(o)' = KeyOf(o)
      BY <1>1, <1>2, <1>3 DEF Holding
  <2>2. KeyOf(o) \in stored /\ \A u \in Threads : ErasedUnder(u) => arg[u] # KeyOf(o)
      BY <2>1 DEF LeaseInv
  <2>3. \A u \in Threads : ErasedUnder(u)' => ErasedUnder(u)
      BY <1>1 DEF ErasedUnder, GateInv, GateOf, CloseAll
  <2> QED
      BY <1>1, <2>1, <2>2, <2>3
<1> QED
    BY <1>2, <1>3 DEF LeaseInv

\* The same for a deletion and its key.
LEMMA LeaseRevoke ==
    ASSUME TypeOK, TargetInv, BarrierInv, GateInv, LeaseInv,
           NEW c \in Callers, RevokeCredential(c)
    PROVE  LeaseInv'
<1> USE DEF TypeOK, authVars, vaultVars, mapVars, wireVars, callVars
<1> DEFINE doomed == {x \in Openers : KeyOf(x) = arg[c]}
<1>1. /\ pc[c] = "revoke" /\ sessions' = sessions \ doomed
      /\ cred_epoch' = [cred_epoch EXCEPT ![arg[c]] = cred_epoch[arg[c]] + 1]
      /\ UNCHANGED <<generation, target, gen_ticket, cred_ticket, gate, openFor, stored, job, arg>>
      /\ pc' = [pc EXCEPT ![c] = "drain"]
      /\ missed' = [o \in Openers |->
                        IF o \in {x \in Unticketed : KeyOf(x) = arg[c]}
                        THEN missed[o] \cup {"deletion"} ELSE missed[o]]
    BY DEF RevokeCredential, BumpCredential, TakeOut, Miss, Goto
<1>2. gate = "operating" /\ c \in Threads
    BY <1>1 DEF GateInv, GateOf, Threads
<1>3. \A o \in Openers : KeyOf(o)' = KeyOf(o) /\ missed[o] \subseteq missed'[o]
    BY <1>1 DEF KeyOf
<1>4. ASSUME NEW o \in Openers, Connecting(o)', Fresh(o)'
      PROVE  Connecting(o) /\ Fresh(o) /\ KeyOf(o) # arg[c]
  <2>1. Connecting(o) /\ cred_ticket[o] <= cred_epoch[KeyOf(o)]
      BY <1>1, <1>4 DEF Connecting, BarrierInv
  <2>2. KeyOf(o) \in Keys
      BY <2>1 DEF Connecting, TargetInv, KeyOf, Targets, Keys
  <2>3. cred_ticket[o] = cred_epoch'[KeyOf(o)] /\ gen_ticket[o] = generation
      BY <1>1, <1>3, <1>4 DEF Fresh
  <2>4. KeyOf(o) # arg[c]
      BY <1>1, <2>1, <2>2, <2>3
  <2> QED
      BY <1>1, <2>1, <2>2, <2>3, <2>4 DEF Fresh
<1>5. ASSUME NEW o \in Openers, Holding(o)'
      PROVE  Holding(o) /\ (KeyOf(o) = arg[c] => "deletion" \in missed'[o])
  <2>1. CASE pc'[o] = "tickets"
      BY <1>1, <2>1 DEF Unticketed, Holding
  <2>2. CASE Connecting(o)' /\ Fresh(o)'
      BY <1>4, <2>2 DEF Holding
  <2>3. CASE o \in sessions'
      BY <1>1, <2>3 DEF Holding
  <2> QED
      BY <1>5, <2>1, <2>2, <2>3 DEF Holding
<1>6. /\ \A t \in Threads : SealedUnder(t)' => SealedUnder(t)
      /\ \A t \in Threads : ErasedUnder(t)' => ErasedUnder(t) \/ t = c
    BY <1>1, <1>2 DEF SealedUnder, ErasedUnder
<1>7. ASSUME NEW o \in Openers, Holding(o)', "lock" \notin missed'[o]
      PROVE  openFor' = target'[o].principal /\ \A t \in Threads : ~SealedUnder(t)'
    BY <1>1, <1>3, <1>5, <1>6, <1>7 DEF LeaseInv
<1>8. ASSUME NEW o \in Openers, Holding(o)', "deletion" \notin missed'[o]
      PROVE  KeyOf(o)' \in stored' /\ \A t \in Threads : ErasedUnder(t)' => arg'[t] # KeyOf(o)'
    BY <1>1, <1>3, <1>5, <1>6, <1>8 DEF LeaseInv
<1> QED
    BY <1>7, <1>8 DEF LeaseInv

\* Every step keeps the leases: a terminal on a key of a vault that is locked, or on a key
\* that is erased, missed it between its lease and its tickets.
LEMMA LeaseStep ==
    TypeOK /\ TargetInv /\ BarrierInv /\ GateInv /\ LeaseInv /\ [Next]_vars => LeaseInv'
<1> SUFFICES ASSUME TypeOK, TargetInv, BarrierInv, GateInv, LeaseInv, [Next]_vars
             PROVE  LeaseInv'
    OBVIOUS
<1> USE ThreadsAssumption DEF callVars, Goto, Finish
<1>1. ASSUME UNCHANGED <<gate, openFor, stored, generation, cred_epoch, target, gen_ticket,
                         cred_ticket, missed>>,
             sessions' \subseteq sessions,
             \A o \in Openers :
                (Connecting(o)' => Connecting(o)) /\ (pc'[o] = "tickets" => pc[o] = "tickets"),
             \A t \in Threads :
                \/ pc'[t] = pc[t] /\ job'[t] = job[t] /\ arg'[t] = arg[t]
                \/ pc'[t] \notin {"drain", "seal", "erase"}
                \/ pc'[t] = "drain" /\ job'[t] = "close"
      PROVE  LeaseInv'
    BY <1>1, NoneHoldsFrame, NoneUnderFrame, LeaseFrame
<1>2. ASSUME NEW t \in Threads, gate = "idle", pc'[t] \in {"close_all", "revoke"},
             pc' = [pc EXCEPT ![t] = pc'[t]],
             UNCHANGED <<openFor, stored, generation, cred_epoch, target, gen_ticket,
                         cred_ticket, missed, sessions, job>>
      PROVE  LeaseInv'
  <2>1. NoneUnder
      BY <1>2, GateTaken DEF TypeOK
  <2>2. NoneHolds
      BY <1>2, NoneHoldsFrame DEF Connecting, TypeOK, Threads
  <2> QED
      BY <1>2, <2>1, <2>2, LeaseFrame
<1>3. CASE Start
  <2>1. CASE Unlock
    <3>1. /\ openFor = None /\ UNCHANGED <<gate, stored, generation, cred_epoch, sessions, target,
                                         gen_ticket, cred_ticket, missed, pc, job, arg>>
        BY <2>1 DEF Unlock, mapVars, openVars
    <3>2. \A o \in Openers : Holding(o) => "lock" \in missed[o]
        BY <3>1 DEF LeaseInv, Holding, Connecting, TargetInv, BarrierInv, Targets
    <3>3. \A o \in Openers : (Holding(o)' <=> Holding(o)) /\ KeyOf(o)' = KeyOf(o)
        BY <3>1 DEF Holding, Connecting, Fresh, KeyOf
    <3>4. \A t \in Threads : ErasedUnder(t)' <=> ErasedUnder(t)
        BY <3>1 DEF ErasedUnder
    <3> QED
        BY <3>1, <3>2, <3>3, <3>4 DEF LeaseInv
  <2>2. ASSUME NEW o \in Openers, NEW k \in Credentials, Prepare(o, k)
        PROVE  LeaseInv'
    <3>1. /\ pc[o] = "ready" /\ pc' = [pc EXCEPT ![o] = "lease"]
          /\ job' = [job EXCEPT ![o] = "open"] /\ \A x \in Openers \ {o} : target'[x] = target[x]
          /\ UNCHANGED <<gate, openFor, stored, generation, cred_epoch, sessions,
                         gen_ticket, cred_ticket, missed, arg>>
        BY <2>2 DEF Prepare, vaultVars, mapVars, TypeOK
    <3>2. ~Holding(o)' /\ o \in Threads
        BY <3>1 DEF Holding, Connecting, BarrierInv, TypeOK, Threads
    <3>3. \A x \in Openers \ {o} : Holding(x)' => Holding(x)
        BY <3>1 DEF Holding, Connecting, Fresh, KeyOf, TypeOK, Threads
    <3>4. NoneHolds
        BY <3>1, <3>2, <3>3 DEF NoneHolds
    <3>5. NoneUnder
        BY <3>1, <3>2, NoneUnderFrame DEF TypeOK
    <3> QED
        BY <3>1, <3>4, <3>5, LeaseFrame
  <2>3. ASSUME NEW p \in Principals, Login(p)
        PROVE  LeaseInv'
      BY <1>1, <2>3 DEF Login, vaultVars, mapVars, openVars, Connecting
  <2>4. ASSUME NEW c \in Callers, NEW name, NEW about,
               NEW point \in {"claim", "first_close_all", "delete", "check_before"},
               Begin(c, name, point, about)
        PROVE  LeaseInv'
    <3>1. pc' = [pc EXCEPT ![c] = point] /\ UNCHANGED <<vaultVars, mapVars, openVars>>
        BY <2>4 DEF Begin
    <3>2. \A t \in Threads : t # c => pc'[t] = pc[t] /\ job'[t] = job[t] /\ arg'[t] = arg[t]
        BY <2>4 DEF Begin, TypeOK
    <3>3. \A o \in Openers : pc'[o] = pc[o]
        BY <3>1 DEF TypeOK
    <3>4. pc'[c] \notin {"drain", "seal", "erase"}
        BY <3>1 DEF TypeOK, Threads
    <3> QED
        BY <1>1, <3>1, <3>2, <3>3, <3>4 DEF vaultVars, mapVars, openVars, Connecting
  <2>5. ASSUME NEW c \in Callers, NEW o \in Openers, CloseSession(c, o)
        PROVE  LeaseInv'
      BY <1>1, <2>5
         DEF CloseSession, RemoveAndClose, TakeOut, vaultVars, openVars, Connecting, TypeOK, Threads
  <2> QED
      BY <1>3, <2>1, <2>2, <2>3, <2>4, <2>5
         DEF Start, BeginLock, BeginCutoff, BeginDelete, LookupSlot
<1>4. ASSUME NEW t \in Threads, LockStep(t)
      PROVE  LeaseInv'
  <2>1. CASE CloseAll(t)
      BY <2>1, LeaseCloseAll
  <2>2. CASE CloseSlot(t)
    <3>1. /\ UNCHANGED <<gate, openFor, stored, generation, cred_epoch, sessions, target,
                         gen_ticket, cred_ticket, missed>>
          /\ \A u \in Threads : u # t => pc'[u] = pc[u] /\ job'[u] = job[u] /\ arg'[u] = arg[u]
          /\ \/ pc'[t] = pc[t] /\ job'[t] = job[t] /\ arg'[t] = arg[t]
             \/ pc'[t] \in {"ready", "done"}
             \/ /\ pc[t] \in {"first_drain", "drain"} /\ job[t] # "close" /\ pc'[t] = AfterDrain(t)
                /\ job'[t] = job[t] /\ arg'[t] = arg[t]
        BY <2>2 DEF CloseSlot, vaultVars, mapVars, openVars, TypeOK
    <3>2. pc[t] = "drain" /\ pc'[t] = AfterDrain(t) /\ job[t] # "close" =>
              \/ pc'[t] = "erase" /\ gate = "operating"
              \/ pc'[t] = "seal" /\ gate = "sealing"
      <4>1. pc[t] = "drain" /\ job[t] # "close" =>
                gate # "idle" /\ (gate = "operating" => job[t] = "delete")
          BY DEF GateInv, GateOf, InGate
      <4> QED
          BY <4>1 DEF AfterDrain, TypeOK
    <3>3. pc[t] = "first_drain" /\ pc'[t] = AfterDrain(t) => pc'[t] = "claim"
        BY DEF AfterDrain, GateInv, GateOf
    <3>4. NoneUnder
        BY <3>1, <3>2, <3>3 DEF NoneUnder, SealedUnder, ErasedUnder
    <3>5. NoneHolds
      <4>1. \A o \in Openers : pc'[o] = pc[o] \/ pc'[o] \in {"ready", "done", "claim", "erase", "seal"}
          BY <3>1, <3>2, <3>3 DEF Threads
      <4> QED
          BY <3>1, <4>1, NoneHoldsFrame DEF Connecting
    <3> QED
        BY <3>1, <3>4, <3>5, LeaseFrame
  <2>3. CASE ClaimSealing(t)
      BY <1>2, <2>3 DEF ClaimSealing, mapVars, openVars, TypeOK
  <2>4. CASE Seal(t)
    <3>1. /\ pc[t] = "seal" /\ pc'[t] \in {"clear", "ready", "done"}
          /\ \A u \in Threads : u # t => pc'[u] = pc[u] /\ job'[u] = job[u] /\ arg'[u] = arg[u]
          /\ UNCHANGED <<stored, generation, cred_epoch, sessions, target,
                         gen_ticket, cred_ticket, missed>>
        BY <2>4 DEF Seal, mapVars, openVars, TypeOK
    <3>2. \A u \in Threads : u # t => ~InGate(u)
        BY <3>1 DEF GateInv, InGate
    <3>3. \A u \in Threads : ~SealedUnder(u)' /\ ~ErasedUnder(u)'
        BY <3>1, <3>2 DEF SealedUnder, ErasedUnder, InGate
    <3>4. \A o \in Openers : (Holding(o)' => Holding(o)) /\ KeyOf(o)' = KeyOf(o)
        BY <3>1 DEF Holding, Connecting, Fresh, KeyOf, Threads
    <3>5. \A o \in Openers : Holding(o) => "lock" \in missed[o]
        BY <3>1 DEF LeaseInv, SealedUnder
    <3> QED
        BY <3>1, <3>3, <3>4, <3>5 DEF LeaseInv
  <2> QED
      BY <1>4, <2>1, <2>2, <2>3, <2>4 DEF LockStep
<1>5. ASSUME NEW c \in Callers, CallerStep(c)
      PROVE  LeaseInv'
  <2>0. c \in Threads
      BY DEF Threads
  <2>1. CASE ClearNative(c)
      BY <1>1, <2>1 DEF ClearNative, vaultVars, mapVars, openVars, Connecting, TypeOK, Threads
  <2>2. CASE Delete(c)
    <3>1. CASE gate = "idle" /\ pc'[c] \in {"close_all", "revoke"}
        BY <1>2, <2>0, <2>2, <3>1 DEF Delete, IdleSeal, mapVars, openVars, TypeOK
    <3>2. CASE UNCHANGED gate /\ pc'[c] \in {"claim", "ready", "done"}
        BY <1>1, <2>0, <2>2, <3>2
           DEF Delete, IdleSeal, mapVars, openVars, Connecting, TypeOK, Threads
    <3> QED
        BY <2>0, <2>2, <3>1, <3>2 DEF Delete, IdleSeal, TypeOK
  <2>3. CASE RevokeCredential(c)
      BY <2>3, LeaseRevoke
  <2>4. CASE Erase(c)
    <3>1. /\ pc[c] = "erase" /\ stored \ {arg[c]} \subseteq stored' /\ pc'[c] \in {"ready", "done"}
          /\ \A u \in Threads : u # c => pc'[u] = pc[u] /\ job'[u] = job[u] /\ arg'[u] = arg[u]
          /\ UNCHANGED <<openFor, generation, cred_epoch, sessions, target,
                         gen_ticket, cred_ticket, missed>>
        BY <2>0, <2>4 DEF Erase, mapVars, openVars, TypeOK
    <3>2. \A u \in Threads : u # c => ~InGate(u)
        BY <2>0, <3>1 DEF GateInv, InGate
    <3>3. \A u \in Threads : ~SealedUnder(u)' /\ ~ErasedUnder(u)'
        BY <3>1, <3>2 DEF SealedUnder, ErasedUnder, InGate
    <3>4. \A o \in Openers : (Holding(o)' => Holding(o)) /\ KeyOf(o)' = KeyOf(o)
        BY <3>1 DEF Holding, Connecting, Fresh, KeyOf, Threads
    <3>5. \A o \in Openers : Holding(o) =>
              /\ "lock" \notin missed[o] => openFor = target[o].principal
              /\ "deletion" \notin missed[o] => KeyOf(o) \in stored /\ arg[c] # KeyOf(o)
        BY <2>0, <3>1 DEF LeaseInv, ErasedUnder
    <3> QED
        BY <3>1, <3>3, <3>4, <3>5 DEF LeaseInv
  <2>5. CASE RevalidateIo(c)
    <3>1. /\ UNCHANGED <<gate, openFor, stored, generation, cred_epoch, target,
                         gen_ticket, cred_ticket, missed>>
          /\ sessions' \subseteq sessions
          /\ \A u \in Threads : u # c => pc'[u] = pc[u] /\ job'[u] = job[u] /\ arg'[u] = arg[u]
          /\ pc'[c] \in {"check_after", "ready", "done"} \/ (pc'[c] = "drain" /\ job'[c] = "close")
        BY <2>0, <2>5
           DEF RevalidateIo, RemoveAndClose, TakeOut, vaultVars, openVars, TypeOK, Threads
    <3>2. \A o \in Openers : pc'[o] = pc[o]
        BY <3>1 DEF Threads
    <3> QED
        BY <1>1, <3>1, <3>2 DEF Connecting
  <2> QED
      BY <1>5, <2>1, <2>2, <2>3, <2>4, <2>5 DEF CallerStep
<1>6. ASSUME NEW o \in Openers, OpenStep(o)
      PROVE  LeaseInv'
  <2>0. o \in Threads
      BY DEF Threads
  <2>1. CASE Lease(o)
    <3>1. CASE IdleSeal(o)
        BY <1>2, <2>0, <2>1, <3>1 DEF Lease, IdleSeal, mapVars, openVars, TypeOK
    <3>2. CASE UNCHANGED gate /\ (Goto(o, "claim") \/ Finish(o))
      <4>1. pc'[o] \in {"claim", "done"}
          BY <2>0, <3>2 DEF TypeOK
      <4>2. \A u \in Threads : u # o => pc'[u] = pc[u] /\ job'[u] = job[u] /\ arg'[u] = arg[u]
          BY <3>2 DEF TypeOK
      <4> QED
          BY <1>1, <2>1, <3>2, <4>1, <4>2 DEF Lease, mapVars, openVars, Connecting, Threads
    <3>3. CASE /\ GateFree /\ openFor = target[o].principal /\ KeyOf(o) \in stored
               /\ Goto(o, "tickets") /\ UNCHANGED gate
      <4>1. /\ gate = "idle" /\ pc' = [pc EXCEPT ![o] = "tickets"]
            /\ UNCHANGED <<openFor, stored, generation, cred_epoch, sessions, target, gen_ticket,
                           cred_ticket, missed, job, arg>>
          BY <2>1, <3>3 DEF Lease, GateFree, mapVars, openVars
      <4>2. \A u \in Threads : ~SealedUnder(u)' /\ ~ErasedUnder(u)'
          BY <3>3, <4>1 DEF SealedUnder, ErasedUnder, GateInv, GateOf, InGate, TypeOK
      <4>3. \A x \in Openers : KeyOf(x)' = KeyOf(x) /\ (x # o => (Holding(x)' => Holding(x)))
          BY <4>1 DEF Holding, Connecting, Fresh, KeyOf, TypeOK
      <4> QED
          BY <3>3, <4>1, <4>2, <4>3 DEF LeaseInv
    <3> QED
        BY <2>1, <3>1, <3>2, <3>3 DEF Lease
  <2>2. CASE TakeTickets(o)
    <3>1. /\ pc[o] = "tickets" /\ pc'[o] \in {"connect", "done"}
          /\ \A u \in Threads : u # o => pc'[u] = pc[u] /\ job'[u] = job[u] /\ arg'[u] = arg[u]
          /\ UNCHANGED <<gate, openFor, stored, generation, cred_epoch, sessions, target, missed>>
          /\ \A x \in Openers \ {o} :
                 gen_ticket'[x] = gen_ticket[x] /\ cred_ticket'[x] = cred_ticket[x]
        BY <2>0, <2>2 DEF TakeTickets, vaultVars, mapVars, TypeOK
    <3>2. NoneUnder
        BY <3>1, NoneUnderFrame
    <3>3. NoneHolds
        BY <3>1 DEF NoneHolds, Holding, Connecting, Fresh, KeyOf, Threads
    <3> QED
        BY <3>1, <3>2, <3>3, LeaseFrame
  <2>3. CASE Register(o)
    <3>1. /\ pc[o] = "register" /\ pc'[o] \in {"bind", "done"}
          /\ \A u \in Threads : u # o => pc'[u] = pc[u] /\ job'[u] = job[u] /\ arg'[u] = arg[u]
          /\ UNCHANGED <<gate, openFor, stored, generation, cred_epoch, target, gen_ticket,
                         cred_ticket, missed>>
          /\ sessions' = sessions \/ (sessions' = sessions \cup {o} /\ Fresh(o))
        BY <2>0, <2>3 DEF Register, TicketsCurrent, Fresh, vaultVars, openVars, TypeOK
    <3>2. NoneUnder
        BY <3>1, NoneUnderFrame
    <3>3. NoneHolds
        BY <3>1 DEF NoneHolds, Holding, Connecting, Fresh, KeyOf, Threads
    <3> QED
        BY <3>1, <3>2, <3>3, LeaseFrame
  <2>4. CASE Connect(o) \/ CheckConnected(o) \/ BindSink(o)
    <3>1. /\ pc'[o] \in {"check", "register", "done"} /\ pc[o] \in {"connect", "check", "bind"}
          /\ pc[o] = "bind" => pc'[o] = "done"
          /\ \A u \in Threads : u # o => pc'[u] = pc[u] /\ job'[u] = job[u] /\ arg'[u] = arg[u]
          /\ UNCHANGED <<gate, openFor, stored, generation, cred_epoch, target, gen_ticket,
                         cred_ticket, missed>>
          /\ sessions' \subseteq sessions
        BY <2>0, <2>4
           DEF Connect, CheckConnected, BindSink, RemoveEnded, TakeOut, vaultVars, mapVars, openVars,
               TypeOK
    <3> QED
        BY <1>1, <3>1 DEF Connecting, Threads
  <2> QED
      BY <1>6, <2>1, <2>2, <2>3, <2>4 DEF OpenStep
<1>7. ASSUME NEW o \in Openers, TellSink(o) \/ HelperCloses(o) \/ PeerEnds(o) \/ SinkFails(o)
      PROVE  LeaseInv'
    BY <1>1, <1>7
       DEF TellSink, OnClosedWhenBound, HelperCloses, PeerEnds, SinkFails, RemoveEnded, TakeOut,
           vaultVars, mapVars, openVars, Connecting
<1>8. CASE UNCHANGED vars
    BY <1>1, <1>8 DEF vars, vaultVars, mapVars, openVars, Connecting
<1> QED
    BY <1>3, <1>4, <1>5, <1>6, <1>7, <1>8 DEF Next, Disturb

LEMMA LeaseInit == Init => LeaseInv
BY ThreadsAssumption DEF Init, LeaseInv, Holding, Connecting, Threads

LEMMA GateInvariant == Spec => [](TypeOK /\ TargetInv /\ BarrierInv /\ GateInv)
<1>1. TypeOK /\ GateInv /\ [Next]_vars => GateInv'
    BY GateStep
<1> QED
    BY <1>1, GateInit, BarrierInvariant, PTL DEF Spec

\* A registered terminal read its tickets after the last revocation; its key is of the
\* vault that is open, unless a lock fell between its lease and its tickets, and is still
\* stored, unless a deletion fell there.
THEOREM RegisteredStaysCurrent == Spec => []RegisteredIsCurrent
<1>1. TypeOK /\ BarrierInv /\ LeaseInv => RegisteredIsCurrent
  <2>1. TypeOK /\ BarrierInv => NoSessionBehindBarrier
      BY DEF TypeOK, BarrierInv, NoSessionBehindBarrier
  <2>2. TypeOK /\ LeaseInv => LeaseStands
      BY DEF TypeOK, LeaseInv, Holding, LeaseStands
  <2> QED
      BY <2>1, <2>2 DEF RegisteredIsCurrent
<1>2. TypeOK /\ TargetInv /\ BarrierInv /\ GateInv /\ LeaseInv /\ [Next]_vars => LeaseInv'
    BY LeaseStep
<1> QED
    BY <1>1, <1>2, LeaseInit, GateInvariant, PTL DEF Spec

\* A terminal on a key of a locked vault missed a lock between its lease and its tickets.
\* So did one of somebody other than the principal signed in, unless the vault is still
\* open for that other principal: it then goes when observe_principal next looks.
StraysExplained ==
    \A o \in sessions : "lock" \notin missed[o] =>
        /\ openFor # None
        /\ target[o].principal # session => ForeignVault

\* What holds in place of LockedVaultHasNoTerminal and of NoForeignTerminal, which fail:
\* the lease window of the open call is the only way past either.
THEOREM StraysAreExplained == Spec => []StraysExplained
<1>1. TypeOK /\ BarrierInv /\ RegisteredIsCurrent => StraysExplained
  <2> SUFFICES ASSUME TypeOK, BarrierInv, RegisteredIsCurrent,
                      NEW o \in sessions, "lock" \notin missed[o]
               PROVE  openFor # None /\ (target[o].principal # session => ForeignVault)
      BY DEF StraysExplained
  <2>1. openFor = target[o].principal
      BY DEF RegisteredIsCurrent, LeaseStands
  <2>2. target[o].principal \in Principals
      BY DEF TypeOK, BarrierInv, Targets
  <2> QED
      BY <2>1, <2>2, ThreadsAssumption DEF ForeignVault
<1> QED
    BY <1>1, RegisteredStaysCurrent, GateInvariant, PTL

-----------------------------------------------------------------------------
(* Nobody waits for nobody.                                                  *)

\* The one point where a thread waits is the sealing claim, and while the gate is taken its
\* holder is at a point where nothing holds it up: it seals or deletes, and gives it back.
ClaimWaitsForHolder ==
    \A t \in Threads : pc[t] = "claim" =>
        \/ gate = "idle"
        \/ \E u \in Threads : u # t /\ pc[u] \in {"close_all", "drain", "seal", "revoke", "erase"}

\* No thread waits for a gate that nobody is going to give back: a lock, a cutoff and a
\* deletion of any number of threads do not deadlock over the vault.
THEOREM ClaimIsServed == Spec => []ClaimWaitsForHolder
<1>1. TypeOK /\ GateInv => ClaimWaitsForHolder
    BY DEF GateInv, GateOf, InGate, ClaimWaitsForHolder
<1> QED
    BY <1>1, GateInvariant, PTL

-----------------------------------------------------------------------------
(* A binding that is stale stays stale.                                      *)

\* The epoch of a target names its session; an open call that has not begun has no target.
EpochInv ==
    \A o \in Openers :
        /\ pc[o] = "ready" => target[o] = None
        /\ target[o] # None =>
              /\ target[o] \in Targets /\ target[o].epoch <= epoch
              /\ target[o].epoch = epoch => session = target[o].principal

\* A terminal whose binding is stale never becomes current again, even when the same
\* principal signs in again: what close, write and the open call refuse they go on refusing.
NoRevivedBinding ==
    [][\A o \in Openers : target[o] # None /\ ~Bound(o) => ~Bound(o)']_vars

\* Every step keeps EpochInv, and none revives a binding.
LEMMA EpochStep ==
    TypeOK /\ EpochInv /\ [Next]_vars =>
        EpochInv' /\ \A o \in Openers : target[o] # None /\ ~Bound(o) => ~Bound(o)'
<1> SUFFICES ASSUME TypeOK, EpochInv, [Next]_vars
             PROVE  EpochInv' /\ \A o \in Openers : target[o] # None /\ ~Bound(o) => ~Bound(o)'
    OBVIOUS
<1> USE ThreadsAssumption
    DEF authVars, openVars, callVars, Goto, Finish
<1> DEFINE Begun == \A o \in Openers : pc'[o] = "ready" => pc[o] = "ready"
           Good == EpochInv' /\ \A o \in Openers : target[o] # None /\ ~Bound(o) => ~Bound(o)'
<1>1. ASSUME UNCHANGED <<session, epoch, target>>, Begun
      PROVE  Good
    BY <1>1 DEF EpochInv, Bound
<1>2. ASSUME UNCHANGED target, epoch' = epoch + 1, session' \in Principals \cup {None}, Begun
      PROVE  Good
    BY <1>2 DEF EpochInv, Bound, TypeOK, Targets
<1>3. CASE Start
  <2>1. ASSUME NEW p \in Principals, Login(p)
        PROVE  Good
      BY <1>2, <2>1 DEF Login
  <2>2. CASE Unlock
      BY <1>1, <2>2 DEF Unlock
  <2>3. ASSUME NEW o \in Openers, NEW k \in Credentials, Prepare(o, k)
        PROVE  Good
    <3>1. /\ target[o] = None /\ UNCHANGED <<session, epoch>>
          /\ pc' = [pc EXCEPT ![o] = "lease"] /\ session \in Principals /\ epoch \in Nat
          /\ target' = [target EXCEPT ![o] =
                           [principal |-> session, epoch |-> epoch, credential |-> k]]
        BY <2>3 DEF Prepare, EpochInv, TypeOK
    <3>2. /\ target'[o] \in Targets /\ target'[o].epoch = epoch /\ target'[o].principal = session
          /\ pc'[o] = "lease"
        BY <3>1 DEF Targets, TypeOK, Threads
    <3>3. \A x \in Openers \ {o} : target'[x] = target[x] /\ pc'[x] = pc[x]
        BY <3>1 DEF TypeOK, Threads
    <3> QED
        BY <3>1, <3>2, <3>3 DEF EpochInv, Bound
  <2>4. ASSUME NEW c \in Callers, NEW name, NEW point, NEW about, Begin(c, name, point, about)
        PROVE  Good
      BY <1>1, <2>4 DEF Begin, TypeOK, Threads
  <2>5. ASSUME NEW c \in Callers, NEW o \in Openers, CloseSession(c, o)
        PROVE  Good
      BY <1>1, <2>5 DEF CloseSession, RemoveAndClose, TypeOK, Threads
  <2> QED
      BY <1>3, <2>1, <2>2, <2>3, <2>4, <2>5
         DEF Start, BeginLock, BeginCutoff, BeginDelete, LookupSlot
<1>4. ASSUME NEW t \in Threads, LockStep(t)
      PROVE  Good
  <2>1. UNCHANGED <<session, epoch, target>>
      BY <1>4 DEF LockStep, CloseAll, CloseSlot, ClaimSealing, Seal
  <2>2. Begun
      BY <1>4 DEF LockStep, CloseAll, CloseSlot, AfterDrain, ClaimSealing, Seal, TypeOK, Threads
  <2> QED
      BY <1>1, <2>1, <2>2
<1>5. ASSUME NEW c \in Callers, CallerStep(c)
      PROVE  Good
  <2>1. CASE ClearNative(c)
      BY <1>2, <2>1 DEF ClearNative, TypeOK, Threads
  <2>2. CASE Delete(c) \/ RevokeCredential(c) \/ Erase(c) \/ RevalidateIo(c)
    <3>1. UNCHANGED <<session, epoch, target>>
        BY <2>2 DEF Delete, RevokeCredential, Erase, RevalidateIo
    <3>2. Begun
        BY <2>2
           DEF Delete, IdleSeal, RevokeCredential, Erase, RevalidateIo, RemoveAndClose, TypeOK,
               Threads
    <3> QED
        BY <1>1, <3>1, <3>2
  <2> QED
      BY <1>5, <2>1, <2>2 DEF CallerStep
<1>6. ASSUME NEW o \in Openers, OpenStep(o)
      PROVE  Good
  <2>1. UNCHANGED <<session, epoch, target>>
      BY <1>6 DEF OpenStep, Lease, TakeTickets, Connect, CheckConnected, Register, BindSink
  <2>2. Begun
      BY <1>6
         DEF OpenStep, Lease, IdleSeal, TakeTickets, Connect, CheckConnected, Register, BindSink,
             TypeOK, Threads
  <2> QED
      BY <1>1, <2>1, <2>2
<1>7. ASSUME NEW o \in Openers, TellSink(o) \/ HelperCloses(o) \/ PeerEnds(o) \/ SinkFails(o)
      PROVE  Good
    BY <1>1, <1>7 DEF TellSink, HelperCloses, PeerEnds, SinkFails
<1>8. CASE UNCHANGED vars
    BY <1>1, <1>8 DEF vars
<1> QED
    BY <1>3, <1>4, <1>5, <1>6, <1>7, <1>8 DEF Next, Disturb

LEMMA EpochInit == Init => EpochInv
BY DEF Init, EpochInv

\* A stale binding stays stale, however often the same principal signs in again: the check
\* of principal and epoch has no way back from false to true.
THEOREM StaleStaysStale == Spec => NoRevivedBinding
<1>1. TypeOK /\ EpochInv /\ [Next]_vars => EpochInv'
    BY EpochStep
<1>2. TypeOK /\ EpochInv /\ [Next]_vars =>
          [\A o \in Openers : target[o] # None /\ ~Bound(o) => ~Bound(o)']_vars
    BY EpochStep
<1> QED
    BY <1>1, <1>2, EpochInit, TypeCorrect, PTL DEF Spec, NoRevivedBinding

-----------------------------------------------------------------------------
(* When nothing is in progress.                                              *)

\* A terminal whose sink is bound and told of no end is the only one that may stay.
SinkInv ==
    \A o \in Openers :
        /\ o \in sessions /\ pc[o] = "done" => sink[o] = "bound" /\ o \notin told
        /\ o \in told => sink[o] # "pending"

\* The end of a terminal is noticed before its bind, by its bind or after it.
LEMMA SinkStep == TypeOK /\ BarrierInv /\ SinkInv /\ [Next]_vars => SinkInv'
<1> SUFFICES ASSUME TypeOK, BarrierInv, SinkInv, [Next]_vars
             PROVE  SinkInv'
    OBVIOUS
<1> USE ThreadsAssumption
    DEF wireVars, callVars, mapVars, Goto, Finish
<1>1. ASSUME UNCHANGED <<sink, told>>, sessions' \subseteq sessions,
             \A o \in sessions : pc[o] = "bind" => pc'[o] # "done"
      PROVE  SinkInv'
    BY <1>1 DEF SinkInv, BarrierInv, TypeOK
<1>2. CASE Start
  <2>1. CASE Unlock \/ \E p \in Principals : Login(p)
      BY <1>1, <2>1 DEF Unlock, Login
  <2>2. ASSUME NEW o \in Openers, NEW k \in Credentials, Prepare(o, k)
        PROVE  SinkInv'
      BY <1>1, <2>2 DEF Prepare, TypeOK, Threads
  <2>3. ASSUME NEW c \in Callers, NEW name, NEW point, NEW about, Begin(c, name, point, about)
        PROVE  SinkInv'
      BY <1>1, <2>3 DEF Begin, TypeOK, Threads
  <2>4. ASSUME NEW c \in Callers, NEW o \in Openers, CloseSession(c, o)
        PROVE  SinkInv'
      BY <1>1, <2>4 DEF CloseSession, RemoveAndClose, TakeOut, TypeOK, Threads
  <2> QED
      BY <1>2, <2>1, <2>2, <2>3, <2>4
         DEF Start, BeginLock, BeginCutoff, BeginDelete, LookupSlot
<1>3. ASSUME NEW t \in Threads, LockStep(t)
      PROVE  SinkInv'
  <2>1. sessions' \subseteq sessions /\ UNCHANGED <<sink, told>>
      BY <1>3 DEF LockStep, CloseAll, CloseSlot, TakeOut, ClaimSealing, Seal
  <2>2. \A o \in Openers : pc[o] = "bind" => pc'[o] = "bind"
      BY <1>3 DEF LockStep, CloseAll, CloseSlot, AfterDrain, ClaimSealing, Seal, TypeOK, Threads
  <2> QED
      BY <1>1, <2>1, <2>2 DEF TypeOK
<1>4. ASSUME NEW c \in Callers, CallerStep(c)
      PROVE  SinkInv'
  <2>1. sessions' \subseteq sessions /\ UNCHANGED <<sink, told>>
      BY <1>4
         DEF CallerStep, ClearNative, Delete, RevokeCredential, Erase, RevalidateIo, RemoveAndClose,
             TakeOut
  <2>2. \A o \in Openers : pc'[o] = pc[o]
      BY <1>4
         DEF CallerStep, ClearNative, Delete, IdleSeal, RevokeCredential, Erase, RevalidateIo,
             RemoveAndClose, TypeOK, Threads
  <2> QED
      BY <1>1, <2>1, <2>2 DEF TypeOK
<1>5. ASSUME NEW o \in Openers, OpenStep(o)
      PROVE  SinkInv'
  <2>1. CASE Lease(o) \/ TakeTickets(o) \/ Connect(o) \/ CheckConnected(o)
    <3>1. UNCHANGED <<sink, told, sessions>>
        BY <2>1 DEF Lease, TakeTickets, Connect, CheckConnected
    <3>2. \A x \in Openers : pc[x] = "bind" => pc'[x] = "bind"
        BY <2>1 DEF Lease, IdleSeal, TakeTickets, Connect, CheckConnected, TypeOK, Threads
    <3> QED
        BY <1>1, <3>1, <3>2 DEF TypeOK
  <2>2. CASE Register(o)
    <3>1. /\ UNCHANGED <<sink, told>> /\ \A x \in Openers \ {o} : pc'[x] = pc[x]
          /\ pc[o] = "register" /\ o \notin sessions
          /\ \/ sessions' = sessions
             \/ sessions' = sessions \cup {o} /\ pc'[o] = "bind"
        BY <2>2 DEF Register, BarrierInv, TypeOK, Threads
    <3> QED
        BY <3>1 DEF SinkInv, TypeOK
  <2>3. CASE BindSink(o)
    <3>1. /\ told' = told /\ \A x \in Openers \ {o} : pc'[x] = pc[x] /\ sink'[x] = sink[x]
          /\ sink'[o] # "pending"
        BY <2>3 DEF BindSink, TypeOK, Threads
    <3>2. \/ sink[o] = "pending" /\ sink'[o] = "bound" /\ sessions' = sessions
          \/ o \notin sessions' /\ sessions' \subseteq sessions
        BY <2>3 DEF BindSink, RemoveEnded, TakeOut, TypeOK
    <3> QED
        BY <3>1, <3>2 DEF SinkInv, TypeOK
  <2> QED
      BY <1>5, <2>1, <2>2, <2>3 DEF OpenStep
<1>6. ASSUME NEW o \in Openers, TellSink(o)
      PROVE  SinkInv'
  <2>1. /\ told' = told \cup {o} /\ pc' = pc /\ \A x \in Openers \ {o} : sink'[x] = sink[x]
        /\ sink'[o] # "pending"
      BY <1>6 DEF TellSink, OnClosedWhenBound, TypeOK
  <2>2. \/ sink[o] # "bound" /\ sessions' = sessions
        \/ o \notin sessions' /\ sessions' \subseteq sessions
      BY <1>6 DEF TellSink, OnClosedWhenBound, RemoveEnded, TakeOut
  <2> QED
      BY <2>1, <2>2 DEF SinkInv, TypeOK
<1>7. ASSUME NEW o \in Openers, SinkFails(o)
      PROVE  SinkInv'
  <2>1. /\ told' = told /\ pc' = pc /\ \A x \in Openers \ {o} : sink'[x] = sink[x]
        /\ sink'[o] # "pending"
      BY <1>7 DEF SinkFails, TypeOK
  <2>2. \/ sink[o] # "bound" /\ sessions' = sessions
        \/ o \notin sessions' /\ sessions' \subseteq sessions
      BY <1>7 DEF SinkFails, RemoveEnded, TakeOut
  <2> QED
      BY <2>1, <2>2 DEF SinkInv, TypeOK
<1>8. ASSUME NEW o \in Openers, HelperCloses(o) \/ PeerEnds(o)
      PROVE  SinkInv'
    BY <1>1, <1>8 DEF HelperCloses, PeerEnds
<1>9. CASE UNCHANGED vars
    BY <1>1, <1>9 DEF vars
<1> QED
    BY <1>2, <1>3, <1>4, <1>5, <1>6, <1>7, <1>8, <1>9 DEF Next, Disturb

LEMMA SinkInit == Init => SinkInv
BY DEF Init, SinkInv

LEMMA CloserInvariant == Spec => [](TypeOK /\ TargetInv /\ BarrierInv /\ CloserInv)
<1>1. TypeOK /\ CloserInv /\ [Next]_vars => CloserInv'
    BY CloserStep
<1> QED
    BY <1>1, CloserInit, BarrierInvariant, PTL DEF Spec

\* When nothing is in progress, every transport that is not closed is registered, and no
\* terminal is registered whose transport is closed or has told its end.
NothingLeftOver ==
    Quiet => \A o \in Openers :
        /\ transport[o] \in {"live", "ended"} => o \in sessions
        /\ o \in sessions => transport[o] \in {"live", "ended"} /\ o \notin told

\* What the fairness has to add for `TransportsEnd` is only that threads run on: at rest there
\* is no transport that nobody holds and no terminal that was told over, whatever raced.
THEOREM QuietIsClean == Spec => []NothingLeftOver
<1>1. TypeOK /\ BarrierInv /\ CloserInv /\ SinkInv => NothingLeftOver
  <2> SUFFICES ASSUME TypeOK, BarrierInv, CloserInv, SinkInv, Quiet, NEW o \in Openers
               PROVE  /\ transport[o] \in {"live", "ended"} => o \in sessions
                      /\ o \in sessions => transport[o] \in {"live", "ended"} /\ o \notin told
      BY DEF NothingLeftOver
  <2>1. pc[o] \in {"ready", "done"} /\ o \notin helpers /\ ~Calling(o)
      BY DEF Quiet, Calling, Threads
  <2>2. ~Drained(o)
      BY DEF Quiet, CloserInv, TodoInv, Draining, Drained
  <2>3. transport[o] \in {"live", "ended"} => o \in sessions
    <3>1. transport[o] \in {"live", "ended"} => OneOwner(o)
        BY DEF CloserInv, CloserOf
    <3>2. OneOwner(o) => o \in sessions
        BY <2>1, <2>2 DEF OneOwner, Drained
    <3> QED
        BY <3>1, <3>2
  <2>4. o \in sessions => transport[o] \in {"live", "ended"} /\ pc[o] = "done"
      BY <2>1 DEF CloserInv, CloserOf, NoOwner, BarrierInv, TypeOK
  <2> QED
      BY <2>3, <2>4 DEF SinkInv
<1>2. TypeOK /\ BarrierInv /\ SinkInv /\ [Next]_vars => SinkInv'
    BY SinkStep
<1> QED
    BY <1>1, <1>2, SinkInit, CloserInvariant, PTL DEF Spec
=============================================================================
