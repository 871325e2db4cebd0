------------------------- MODULE CloudTerminalProofs -------------------------
(***************************************************************************)
(* Proofs about CloudTerminal for every set of open calls and of callers,  *)
(* every capacity of the two queues and every bound.                       *)
(***************************************************************************)
EXTENDS CloudTerminal, TLAPS

\* No I/O thread has been started for o.
Unstarted(o) == pc[o] \in {"idle", "snapshot", "ticket", "spawn"}

\* The callback runs on the I/O thread, which is started once; until the callback is about to
\* end that thread, the pending queue keeps to the capacity of output, so that the socket's
\* end still fits.
ThreadInv ==
    \A o \in Opens :
        /\ io[o] \in {"none", "ended"} => callback[o] = "none"
        /\ Unstarted(o) => io[o] = "none"
        /\ Len(pending[o]) > MaxPending => callback[o] = "end" \/ io[o] = "ended"

\* Where an open call is that has registered its session.
PastInsert == {"flush", "show", "remove", "close", "done"}

\* A session is registered on behalf of an open call that inserted it, a session id is
\* known only after the insert, and a ticket is never ahead of the registry.
MapInv ==
    \A o \in Opens :
        /\ o \in sessions => pc[o] \in PastInsert \cup {"bind"}
        /\ holder[o] => pc[o] \in PastInsert
        /\ callback[o] \in {"remove", "close"} => holder[o]
        /\ gen_ticket[o] <= generation

Holds(queue, item) == \E i \in DOMAIN queue : queue[i] = item

\* The session was taken out, for good.
TakenOut(o) == o \notin sessions /\ pc[o] \in PastInsert

\* Once the callback took the socket's end, the end is still on its way to the registry,
\* or it reached it, or it is one of those that get lost.
EndInv ==
    \A o \in Opens : closed_emitted[o] =>
        \/ callback[o] \in {"closed", "push_closed", "remove"}
        \/ Holds(pending[o], Closed)
        \/ pc[o] = "show" /\ Holds(flushing[o], Closed)
        \/ pc[o] = "remove"
        \/ TakenOut(o)
        \/ overflowed[o]

IInv == TypeOK /\ ThreadInv /\ MapInv /\ EndInv

----------------------------------------------------------------------------
(* The type invariant, by the groups of variables that steps leave alone.  *)

AuthTyped == signed_in \in BOOLEAN /\ epoch \in Nat
MapTyped  == generation \in Nat /\ sessions \subseteq Opens
OpenTyped ==
    token \in [Opens -> Nat] /\ snap \in [Opens -> Nat] /\ gen_ticket \in [Opens -> Nat]
OutTyped ==
    /\ holder \in [Opens -> BOOLEAN]
    /\ pending \in [Opens -> Seq({Out, Closed})] /\ flushing \in [Opens -> Seq({Out, Closed})]
    /\ \A o \in Opens : Len(pending[o]) <= MaxPending + 1
EvTyped ==
    /\ news \in [Opens -> {"none", "ready", "bad"}]
    /\ overflowed \in [Opens -> BOOLEAN] /\ closed_emitted \in [Opens -> BOOLEAN]
IoTyped ==
    /\ io \in [Opens -> {"none", "handshake", "ended"} \cup Live]
    /\ callback \in [Opens -> {"none", "route", "push", "closed", "push_closed", "remove",
                               "close", "end"}]
    /\ produced \in [Opens -> Nat]
    /\ commands \in [Opens -> Seq({"write", "close"})]
    /\ \A o \in Opens : Len(commands[o]) <= MaxQueue
DeadTyped == dead \in [Opens -> BOOLEAN]
PcTyped   == pc \in [Threads -> OpenPoints \cup CallerPoints]
TodoTyped == todo \in [Callers -> SUBSET Opens]

Typed ==
    /\ AuthTyped /\ MapTyped /\ OpenTyped /\ OutTyped /\ EvTyped /\ IoTyped
    /\ DeadTyped /\ PcTyped /\ TodoTyped

LEMMA TypeParts == (TypeOK => Typed) /\ (Typed => TypeOK) /\ (Typed' => TypeOK')
BY DEF TypeOK, Typed, AuthTyped, MapTyped, OpenTyped, OutTyped, EvTyped, IoTyped, DeadTyped,
       PcTyped, TodoTyped

\* What a step leaves alone stays in its domain.
LEMMA TypeFrame ==
    ASSUME Typed
    PROVE  /\ UNCHANGED authVars => AuthTyped'
           /\ UNCHANGED mapVars => MapTyped'
           /\ UNCHANGED openVars => OpenTyped'
           /\ UNCHANGED outVars => OutTyped'
           /\ UNCHANGED evVars => EvTyped'
           /\ UNCHANGED ioVars => IoTyped'
           /\ UNCHANGED dead => DeadTyped'
           /\ UNCHANGED pc => PcTyped'
           /\ UNCHANGED todo => TodoTyped'
<1> USE DEF Typed
<1>1. UNCHANGED authVars => AuthTyped'
    BY DEF authVars, AuthTyped
<1>2. UNCHANGED mapVars => MapTyped'
    BY DEF mapVars, MapTyped
<1>3. UNCHANGED openVars => OpenTyped'
    BY DEF openVars, OpenTyped
<1>4. UNCHANGED outVars => OutTyped'
    BY DEF outVars, OutTyped
<1>5. UNCHANGED evVars => EvTyped'
    BY DEF evVars, EvTyped
<1>6. UNCHANGED ioVars => IoTyped'
    BY DEF ioVars, IoTyped
<1> QED
    BY <1>1, <1>2, <1>3, <1>4, <1>5, <1>6 DEF DeadTyped, PcTyped, TodoTyped

\* What is put into a command channel fits.
LEMMA TrySendType ==
    ASSUME Typed, NEW o \in Opens, NEW cmd \in {"write", "close"}, TrySend(o, cmd)
    PROVE  /\ commands' \in [Opens -> Seq({"write", "close"})]
           /\ \A x \in Opens : Len(commands'[x]) <= MaxQueue
<1>1. /\ commands \in [Opens -> Seq({"write", "close"})]
      /\ \A x \in Opens : Len(commands[x]) <= MaxQueue
    BY DEF Typed, IoTyped
<1>2. CASE io[o] # "ended" /\ Len(commands[o]) < MaxQueue
  <2>1. commands' = [commands EXCEPT ![o] = Append(commands[o], cmd)]
      BY <1>2 DEF TrySend
  <2>2. /\ Append(commands[o], cmd) \in Seq({"write", "close"})
        /\ Len(Append(commands[o], cmd)) = Len(commands[o]) + 1
      BY <1>1
  <2>3. Len(commands[o]) \in Nat /\ MaxQueue \in Nat
      BY <1>1, CloudAssumption
  <2>4. Len(Append(commands[o], cmd)) <= MaxQueue
      BY <1>2, <2>2, <2>3
  <2> QED
      BY <1>1, <2>1, <2>2, <2>4
<1>3. CASE ~(io[o] # "ended" /\ Len(commands[o]) < MaxQueue)
    BY <1>1, <1>3 DEF TrySend
<1> QED
    BY <1>2, <1>3

LEMMA CloseSlotType ==
    ASSUME Typed, NEW o \in Opens, CloseSlotOnce(o)
    PROVE  /\ commands' \in [Opens -> Seq({"write", "close"})]
           /\ \A x \in Opens : Len(commands'[x]) <= MaxQueue
           /\ DeadTyped'
<1>1. DeadTyped'
    BY DEF Typed, DeadTyped, CloseSlotOnce
<1>2. CASE dead[o]
    BY <1>1, <1>2 DEF Typed, IoTyped, CloseSlotOnce
<1>3. CASE ~dead[o]
    BY <1>1, <1>3, TrySendType DEF CloseSlotOnce
<1> QED
    BY <1>2, <1>3

\* The end of the I/O thread leaves an empty channel.
LEMMA EndType ==
    ASSUME Typed, NEW o \in Opens, End(o), UNCHANGED produced
    PROVE  IoTyped'
BY CloudAssumption DEF Typed, IoTyped, End

\* Where the callback goes at the end of a socket, and what it tells.
LEMMA SocketClosedType ==
    ASSUME Typed, NEW o \in Opens, SocketClosed(o), UNCHANGED overflowed
    PROVE  /\ EvTyped'
           /\ callback' \in [Opens -> {"none", "route", "push", "closed", "push_closed",
                                       "remove", "close", "end"}]
BY DEF Typed, EvTyped, IoTyped, SocketClosed, Tell

\* An item more in a pending queue, or none in it, or the queue handed over.
LEMMA AppendType ==
    ASSUME Typed, NEW o \in Opens, NEW item \in {Out, Closed}, Len(pending[o]) <= MaxPending,
           pending' = [pending EXCEPT ![o] = Append(pending[o], item)],
           UNCHANGED <<holder, flushing>>
    PROVE  OutTyped'
<1>1. /\ pending \in [Opens -> Seq({Out, Closed})]
      /\ \A x \in Opens : Len(pending[x]) <= MaxPending + 1
    BY DEF Typed, OutTyped
<1>2. /\ Append(pending[o], item) \in Seq({Out, Closed})
      /\ Len(Append(pending[o], item)) = Len(pending[o]) + 1
    BY <1>1
<1>3. Len(pending[o]) \in Nat /\ MaxPending \in Nat
    BY <1>1, CloudAssumption
<1>4. \A x \in Opens : Len(pending'[x]) <= MaxPending + 1
    BY <1>1, <1>2, <1>3
<1>5. pending' \in [Opens -> Seq({Out, Closed})]
    BY <1>1, <1>2
<1> QED
    BY <1>4, <1>5 DEF Typed, OutTyped

LEMMA EmptyType ==
    ASSUME Typed, NEW o \in Opens, pending' = [pending EXCEPT ![o] = <<>>], UNCHANGED holder,
           flushing' \in {flushing, [flushing EXCEPT ![o] = pending[o]]}
    PROVE  OutTyped'
<1>1. /\ holder \in [Opens -> BOOLEAN]
      /\ pending \in [Opens -> Seq({Out, Closed})] /\ flushing \in [Opens -> Seq({Out, Closed})]
      /\ \A x \in Opens : Len(pending[x]) <= MaxPending + 1
    BY DEF Typed, OutTyped
<1>2. <<>> \in Seq({Out, Closed}) /\ Len(<<>>) <= MaxPending + 1
    BY CloudAssumption
<1>3. pending' \in [Opens -> Seq({Out, Closed})] /\ flushing' \in [Opens -> Seq({Out, Closed})]
    BY <1>1, <1>2
<1>4. \A x \in Opens : Len(pending'[x]) <= MaxPending + 1
    BY <1>1, <1>2
<1> QED
    BY <1>1, <1>3, <1>4 DEF OutTyped

\* What an item more, or one less, makes of what a queue holds.
LEMMA HoldsAppend ==
    ASSUME NEW queue \in Seq({Out, Closed}), NEW item \in {Out, Closed}
    PROVE  Holds(Append(queue, item), Closed) <=> Holds(queue, Closed) \/ item = Closed
<1>1. /\ DOMAIN queue = 1 .. Len(queue) /\ Len(queue) \in Nat
      /\ DOMAIN Append(queue, item) = 1 .. Len(queue) + 1
      /\ \A i \in 1 .. Len(queue) : Append(queue, item)[i] = queue[i]
      /\ Append(queue, item)[Len(queue) + 1] = item
    OBVIOUS
<1>2. ASSUME Holds(Append(queue, item), Closed)
      PROVE  Holds(queue, Closed) \/ item = Closed
  <2>1. PICK i \in 1 .. Len(queue) + 1 : Append(queue, item)[i] = Closed
      BY <1>1, <1>2 DEF Holds
  <2>2. i = Len(queue) + 1 \/ i \in 1 .. Len(queue)
      BY <1>1
  <2> QED
      BY <1>1, <2>1, <2>2 DEF Holds
<1>3. ASSUME Holds(queue, Closed)
      PROVE  Holds(Append(queue, item), Closed)
  <2>1. PICK i \in 1 .. Len(queue) : queue[i] = Closed
      BY <1>1, <1>3 DEF Holds
  <2>2. i \in 1 .. Len(queue) + 1 /\ Append(queue, item)[i] = Closed
      BY <1>1, <2>1
  <2> QED
      BY <1>1, <2>2 DEF Holds
<1>4. ASSUME item = Closed
      PROVE  Holds(Append(queue, item), Closed)
  <2>1. Len(queue) + 1 \in 1 .. Len(queue) + 1
      BY <1>1
  <2> QED
      BY <1>1, <1>4, <2>1 DEF Holds
<1> QED
    BY <1>2, <1>3, <1>4

LEMMA HoldsTail ==
    ASSUME NEW queue \in Seq({Out, Closed}), queue # <<>>, Head(queue) # Closed,
           Holds(queue, Closed)
    PROVE  Holds(Tail(queue), Closed)
<1>1. PICK i \in 1 .. Len(queue) : queue[i] = Closed
    BY DEF Holds
<1>2. i # 1
    BY <1>1
<1>3. i - 1 \in 1 .. Len(Tail(queue)) /\ Tail(queue)[i - 1] = Closed
    BY <1>1, <1>2
<1>4. DOMAIN Tail(queue) = 1 .. Len(Tail(queue))
    OBVIOUS
<1> QED
    BY <1>3, <1>4 DEF Holds

----------------------------------------------------------------------------
(* The inductive invariant.                                                *)

\* The invariant holds at the start ...
LEMMA InvInit == Init => IInv
<1> SUFFICES ASSUME Init
             PROVE  IInv
    OBVIOUS
<1>1. pc \in [Threads -> OpenPoints \cup CallerPoints]
    BY DEF Init, OpenPoints, CallerPoints
<1>2. \A o \in Opens : Len(commands[o]) <= MaxQueue /\ Len(pending[o]) <= MaxPending
    BY CloudAssumption DEF Init
<1>3. OutTyped /\ IoTyped
  <2>1. \A o \in Opens : Len(pending[o]) <= MaxPending + 1
      BY CloudAssumption DEF Init
  <2> QED
      BY <1>2, <2>1 DEF Init, OutTyped, IoTyped
<1>4. TypeOK
    BY <1>1, <1>3, TypeParts
       DEF Init, Typed, AuthTyped, MapTyped, OpenTyped, EvTyped, DeadTyped, PcTyped, TodoTyped
<1>5. ThreadInv
    BY <1>2, CloudAssumption DEF Init, ThreadInv
<1>6. MapInv /\ EndInv
    BY DEF Init, MapInv, EndInv
<1> QED
    BY <1>4, <1>5, <1>6 DEF IInv

\* Every step keeps every variable in its domain.
LEMMA TypeStep == TypeOK /\ ThreadInv /\ [Next]_vars => TypeOK'
<1> SUFFICES ASSUME Typed, ThreadInv, [Next]_vars
             PROVE  Typed'
    BY TypeParts
<1> USE CloudAssumption, TypeFrame DEF Typed
<1>1. CASE Login
  <2>1. AuthTyped'
      BY <1>1 DEF Login, AuthTyped
  <2> QED
      BY <2>1, <1>1 DEF Login
<1>2. ASSUME NEW o \in Opens, FetchToken(o) \/ OpenStep(o)
      PROVE  Typed'
  <2>1. CASE FetchToken(o)
    <3>1. PcTyped'
        BY <2>1 DEF FetchToken, Goto, PcTyped, Threads, OpenPoints, CallerPoints
    <3>2. OpenTyped'
        BY <2>1 DEF FetchToken, OpenTyped, AuthTyped, openVars
    <3> QED
        BY <3>1, <3>2, <2>1 DEF FetchToken
  <2>2. CASE TakeSnapshot(o)
    <3>1. PcTyped'
        BY <2>2 DEF TakeSnapshot, Goto, PcTyped, Threads, OpenPoints, CallerPoints
    <3>2. OpenTyped'
        BY <2>2 DEF TakeSnapshot, OpenTyped, AuthTyped, openVars
    <3> QED
        BY <3>1, <3>2, <2>2 DEF TakeSnapshot
  <2>3. CASE TakeTicket(o)
    <3>1. PcTyped'
        BY <2>3 DEF TakeTicket, Goto, PcTyped, Threads, OpenPoints, CallerPoints
    <3>2. OpenTyped'
        BY <2>3 DEF TakeTicket, OpenTyped, MapTyped, openVars
    <3> QED
        BY <3>1, <3>2, <2>3 DEF TakeTicket
  <2>4. CASE Spawn(o)
    <3>1. PcTyped'
        BY <2>4 DEF Spawn, Goto, PcTyped, Threads, OpenPoints, CallerPoints
    <3>2. IoTyped'
        BY <2>4 DEF Spawn, IoTyped, ioVars, Live
    <3> QED
        BY <3>1, <3>2, <2>4 DEF Spawn
  <2>5. CASE AwaitReady(o)
    <3>1. PcTyped'
        BY <2>5 DEF AwaitReady, Goto, PcTyped, Threads, OpenPoints, CallerPoints
    <3> QED
        BY <3>1, <2>5 DEF AwaitReady
  <2>6. CASE CheckOverflow(o)
    <3>1. PcTyped'
        BY <2>6 DEF CheckOverflow, Goto, PcTyped, Threads, OpenPoints, CallerPoints
    <3> QED
        BY <3>1, <2>6 DEF CheckOverflow
  <2>7. CASE CheckSnapshot(o)
    <3>1. PcTyped'
        BY <2>7 DEF CheckSnapshot, Goto, PcTyped, Threads, OpenPoints, CallerPoints
    <3> QED
        BY <3>1, <2>7 DEF CheckSnapshot
  <2>8. CASE Register(o)
    <3>1. PcTyped'
        BY <2>8 DEF Register, Goto, PcTyped, Threads, OpenPoints, CallerPoints
    <3>2. MapTyped'
        BY <2>8 DEF Register, MapTyped, mapVars
    <3> QED
        BY <3>1, <3>2, <2>8 DEF Register
  <2>9. CASE BindHolder(o)
    <3>1. PcTyped'
        BY <2>9 DEF BindHolder, Goto, PcTyped, Threads, OpenPoints, CallerPoints
    <3>2. OutTyped'
        BY <2>9 DEF BindHolder, OutTyped, outVars
    <3> QED
        BY <3>1, <3>2, <2>9 DEF BindHolder
  <2>10. CASE Flush(o)
    <3>1. PcTyped'
        BY <2>10 DEF Flush, Goto, PcTyped, Threads, OpenPoints, CallerPoints
    <3>2. OutTyped'
        BY <2>10 DEF Flush, OutTyped, outVars
    <3> QED
        BY <3>1, <3>2, <2>10 DEF Flush
  <2>11. CASE Show(o)
    <3>1. PcTyped'
        BY <2>11 DEF Show, Goto, ShowClosed, PcTyped, Threads, OpenPoints, CallerPoints
    <3>2. OutTyped'
      <4>1. CASE flushing' = flushing
          BY <4>1, <2>11 DEF Show, OutTyped
      <4>2. CASE flushing[o] # <<>> /\ flushing' = [flushing EXCEPT ![o] = Tail(flushing[o])]
        <5>1. flushing \in [Opens -> Seq({Out, Closed})]
            BY DEF OutTyped
        <5>2. Tail(flushing[o]) \in Seq({Out, Closed})
            BY <4>2, <5>1
        <5>3. flushing' \in [Opens -> Seq({Out, Closed})]
            BY <4>2, <5>1, <5>2
        <5> QED
            BY <5>3, <2>11 DEF Show, OutTyped
      <4> QED
          BY <4>1, <4>2, <2>11 DEF Show
    <3> QED
        BY <3>1, <3>2, <2>11 DEF Show
  <2>12. CASE RemoveAfterFlush(o)
    <3>1. PcTyped'
        BY <2>12 DEF RemoveAfterFlush, Goto, PcTyped, Threads, OpenPoints, CallerPoints
    <3>2. MapTyped'
        BY <2>12 DEF RemoveAfterFlush, MapTyped, mapVars
    <3> QED
        BY <3>1, <3>2, <2>12 DEF RemoveAfterFlush
  <2>13. CASE CloseAfterFlush(o)
    <3>1. PcTyped'
        BY <2>13 DEF CloseAfterFlush, Goto, PcTyped, Threads, OpenPoints, CallerPoints
    <3>2. IoTyped'
        BY <2>13, CloseSlotType DEF CloseAfterFlush, IoTyped, ioVars, Live
    <3>3. DeadTyped'
        BY <2>13, CloseSlotType DEF CloseAfterFlush, DeadTyped
    <3> QED
        BY <3>1, <3>2, <3>3, <2>13 DEF CloseAfterFlush
  <2>14. CASE Cancel(o)
    <3>1. PcTyped'
        BY <2>14 DEF Cancel, Goto, PcTyped, Threads, OpenPoints, CallerPoints
    <3>2. IoTyped'
        BY <2>14, TrySendType DEF Cancel, IoTyped, ioVars, Live
    <3> QED
        BY <3>1, <3>2, <2>14 DEF Cancel
  <2>15. CASE Settle(o)
    <3>1. PcTyped'
        BY <2>15 DEF Settle, Goto, PcTyped, Threads, OpenPoints, CallerPoints
    <3> QED
        BY <3>1, <2>15 DEF Settle
  <2> QED
      BY <1>2, <2>1, <2>2, <2>3, <2>4, <2>5, <2>6, <2>7, <2>8, <2>9, <2>10, <2>11,
         <2>12, <2>13, <2>14, <2>15 DEF OpenStep
<1>3. ASSUME NEW o \in Opens, IoStep(o)
      PROVE  Typed'
  <2>1. CASE Handshake(o)
    <3>1. EvTyped'
        BY <2>1, SocketClosedType DEF Handshake, EvTyped, evVars
    <3>2. IoTyped'
        BY <2>1, SocketClosedType DEF Handshake, IoTyped, ioVars, Live
    <3> QED
        BY <3>1, <3>2, <2>1 DEF Handshake
  <2>2. CASE WriterTakes(o)
    <3>1. IoTyped'
        BY <2>2 DEF WriterTakes, IoTyped, ioVars, Live
    <3> QED
        BY <3>1, <2>2 DEF WriterTakes
  <2>3. CASE WriterSends(o)
    <3>1. IoTyped'
        BY <2>3, EndType DEF WriterSends, IoTyped, ioVars, Live
    <3> QED
        BY <3>1, <2>3 DEF WriterSends
  <2>4. CASE WriterEnds(o)
    <3>1. IoTyped'
        BY <2>4, EndType DEF WriterEnds, IoTyped, ioVars, Live
    <3> QED
        BY <3>1, <2>4 DEF WriterEnds
  <2>5. CASE Route(o)
    <3>1. IoTyped'
        BY <2>5 DEF Route, IoTyped, ioVars, Live
    <3> QED
        BY <3>1, <2>5 DEF Route
  <2>6. CASE PushPending(o)
    <3>1. OutTyped'
      <4>1. CASE Len(pending[o]) < MaxPending
        <5>1. pending' = [pending EXCEPT ![o] = Append(pending[o], Out)]
            BY <4>1, <2>6 DEF PushPending, OutTyped
        <5>2. Len(pending[o]) <= MaxPending
            BY <4>1 DEF OutTyped
        <5>3. UNCHANGED <<holder, flushing>>
            BY <2>6 DEF PushPending
        <5> QED
            BY <5>1, <5>2, <5>3, AppendType
      <4>2. CASE pending' = [pending EXCEPT ![o] = <<>>]
          BY <4>2, EmptyType, <2>6 DEF PushPending
      <4> QED
          BY <4>1, <4>2, <2>6 DEF PushPending
    <3>2. EvTyped'
        BY <2>6 DEF PushPending, Tell, EvTyped, evVars
    <3>3. IoTyped'
        BY <2>6 DEF PushPending, IoTyped, Live
    <3> QED
        BY <3>1, <3>2, <3>3, <2>6 DEF PushPending
  <2>7. CASE RouteClosed(o)
    <3>1. IoTyped'
        BY <2>7 DEF RouteClosed, IoTyped, ioVars, Live
    <3> QED
        BY <3>1, <2>7 DEF RouteClosed
  <2>8. CASE PushClosed(o)
    <3>1. ~(Len(pending[o]) > MaxPending)
        BY <2>8 DEF PushClosed, ThreadInv
    <3>2. Len(pending[o]) \in Nat /\ MaxPending \in Nat
        BY DEF OutTyped
    <3>3. OutTyped'
      <4>1. Len(pending[o]) <= MaxPending
          BY <3>1, <3>2
      <4>2. /\ pending' = [pending EXCEPT ![o] = Append(pending[o], Closed)]
            /\ UNCHANGED <<holder, flushing>>
          BY <2>8 DEF PushClosed, OutTyped
      <4> QED
          BY <4>1, <4>2, AppendType
    <3>4. IoTyped'
        BY <2>8 DEF PushClosed, IoTyped, Live
    <3> QED
        BY <3>3, <3>4, <2>8 DEF PushClosed
  <2>9. CASE RemoveEnded(o)
    <3>1. MapTyped'
        BY <2>9 DEF RemoveEnded, MapTyped, mapVars
    <3>2. IoTyped'
        BY <2>9 DEF RemoveEnded, IoTyped, ioVars, Live
    <3> QED
        BY <3>1, <3>2, <2>9 DEF RemoveEnded
  <2>10. CASE CloseEnded(o)
    <3>1. IoTyped'
        BY <2>10, CloseSlotType DEF CloseEnded, IoTyped, ioVars, Live
    <3>2. DeadTyped'
        BY <2>10, CloseSlotType DEF CloseEnded, DeadTyped
    <3> QED
        BY <3>1, <3>2, <2>10 DEF CloseEnded
  <2>11. CASE ReaderEnds(o)
    <3>1. IoTyped'
        BY <2>11, EndType DEF ReaderEnds, IoTyped, ioVars, Live
    <3> QED
        BY <3>1, <2>11 DEF ReaderEnds
  <2> QED
      BY <1>3, <2>1, <2>2, <2>3, <2>4, <2>5, <2>6, <2>7, <2>8, <2>9, <2>10, <2>11 DEF
         IoStep
<1>4. ASSUME NEW o \in Opens, PeerStep(o)
      PROVE  Typed'
  <2>1. CASE PeerReady(o)
    <3>1. EvTyped'
        BY <2>1 DEF PeerReady, Tell, EvTyped, evVars
    <3> QED
        BY <3>1, <2>1 DEF PeerReady
  <2>2. CASE PeerOutput(o)
    <3>1. EvTyped'
        BY <2>2 DEF PeerOutput, Tell, EvTyped, evVars
    <3>2. IoTyped'
        BY <2>2 DEF PeerOutput, Tell, IoTyped, ioVars, Live
    <3> QED
        BY <3>1, <3>2, <2>2 DEF PeerOutput
  <2>3. CASE PeerCloses(o)
    <3>1. EvTyped'
        BY <2>3, SocketClosedType DEF PeerCloses, EvTyped, evVars
    <3>2. IoTyped'
        BY <2>3, SocketClosedType DEF PeerCloses, IoTyped, ioVars, Live
    <3> QED
        BY <3>1, <3>2, <2>3 DEF PeerCloses
  <2> QED
      BY <1>4, <2>1, <2>2, <2>3 DEF PeerStep
<1>5. ASSUME NEW c \in Callers, Begin(c) \/ CallerStep(c)
      PROVE  Typed'
  <2>1. CASE CloseAgain(c)
    <3>1. PcTyped'
        BY <2>1 DEF CloseAgain, CloseAll, Goto, PcTyped, Threads, OpenPoints, CallerPoints
    <3>2. MapTyped'
        BY <2>1 DEF CloseAgain, CloseAll, RaiseGeneration, MapTyped, mapVars
    <3>3. TodoTyped'
        BY <2>1 DEF CloseAgain, CloseAll, RaiseGeneration, TodoTyped, MapTyped
    <3> QED
        BY <3>1, <3>2, <3>3, <2>1 DEF CloseAgain, CloseAll
  <2>2. CASE ClearNative(c)
    <3>1. PcTyped'
        BY <2>2 DEF ClearNative, Goto, PcTyped, Threads, OpenPoints, CallerPoints
    <3>2. signed_in' = FALSE /\ epoch' = epoch + 1
        BY <2>2 DEF ClearNative
    <3>3. signed_in' \in BOOLEAN
        BY <3>2
    <3>4. epoch' \in Nat
        BY <3>2 DEF AuthTyped
    <3>5. AuthTyped'
        BY <3>3, <3>4 DEF AuthTyped
    <3> QED
        BY <3>1, <3>5, <2>2 DEF ClearNative
  <2>3. CASE Drain(c)
    <3>1. PcTyped'
        BY <2>3 DEF Drain, Goto, AfterDrain, PcTyped, Threads, OpenPoints, CallerPoints
    <3>2. TodoTyped'
        BY <2>3 DEF Drain, TodoTyped
    <3>3. IoTyped' /\ DeadTyped'
      <4>1. CASE UNCHANGED <<dead, commands>>
          BY <4>1, <2>3 DEF Drain, IoTyped, DeadTyped
      <4>2. ASSUME NEW o \in Opens, CloseSlotOnce(o)
            PROVE  IoTyped' /\ DeadTyped'
          BY <4>2, CloseSlotType, <2>3 DEF Drain, IoTyped
      <4> QED
          BY <4>1, <4>2, <2>3 DEF Drain, TodoTyped
    <3> QED
        BY <3>1, <3>2, <3>3, <2>3 DEF Drain
  <2>4. CASE BeginLock(c)
    <3>1. PcTyped'
        BY <2>4 DEF BeginLock, CloseAll, Goto, PcTyped, Threads, OpenPoints, CallerPoints
    <3>2. MapTyped'
        BY <2>4 DEF BeginLock, CloseAll, RaiseGeneration, MapTyped, mapVars
    <3>3. TodoTyped'
        BY <2>4 DEF BeginLock, CloseAll, RaiseGeneration, TodoTyped, MapTyped
    <3> QED
        BY <3>1, <3>2, <3>3, <2>4 DEF BeginLock, CloseAll
  <2>5. CASE BeginCutoff(c)
    <3>1. PcTyped'
        BY <2>5 DEF BeginCutoff, CloseAll, Goto, PcTyped, Threads, OpenPoints, CallerPoints
    <3>2. MapTyped'
        BY <2>5 DEF BeginCutoff, CloseAll, RaiseGeneration, MapTyped, mapVars
    <3>3. TodoTyped'
        BY <2>5 DEF BeginCutoff, CloseAll, RaiseGeneration, TodoTyped, MapTyped
    <3> QED
        BY <3>1, <3>2, <3>3, <2>5 DEF BeginCutoff, CloseAll
  <2>6. ASSUME NEW o \in Opens, Revalidate(c, o)
        PROVE  Typed'
    <3>1. PcTyped'
        BY <2>6 DEF Revalidate, Goto, Remove, PcTyped, Threads, OpenPoints, CallerPoints
    <3>2. MapTyped'
        BY <2>6 DEF Revalidate, Remove, MapTyped, mapVars
    <3>3. TodoTyped'
        BY <2>6 DEF Revalidate, Remove, TodoTyped, MapTyped
    <3> QED
        BY <3>1, <3>2, <3>3, <2>6 DEF Revalidate
  <2>7. ASSUME NEW o \in Opens, SendCommand(c, o)
        PROVE  Typed'
    <3>1. PcTyped'
        BY <2>7 DEF SendCommand, Goto, PcTyped, Threads, OpenPoints, CallerPoints
    <3>2. IoTyped'
        BY <2>7, TrySendType DEF SendCommand, IoTyped, ioVars, Live
    <3> QED
        BY <3>1, <3>2, <2>7 DEF SendCommand
  <2>8. ASSUME NEW o \in Opens, CloseSession(c, o)
        PROVE  Typed'
    <3>1. PcTyped'
        BY <2>8 DEF CloseSession, Remove, Goto, PcTyped, Threads, OpenPoints, CallerPoints
    <3>2. MapTyped'
        BY <2>8 DEF CloseSession, Remove, MapTyped, mapVars
    <3>3. TodoTyped'
        BY <2>8 DEF CloseSession, Remove, TodoTyped, MapTyped
    <3> QED
        BY <3>1, <3>2, <3>3, <2>8 DEF CloseSession
  <2>9. ASSUME NEW o \in Opens, LookupSlot(c, o)
        PROVE  Typed'
    <3>1. PcTyped'
        BY <2>9 DEF LookupSlot, Goto, PcTyped, Threads, OpenPoints, CallerPoints
    <3>2. TodoTyped'
        BY <2>9 DEF LookupSlot, TodoTyped, MapTyped
    <3> QED
        BY <3>1, <3>2, <2>9 DEF LookupSlot
  <2> QED
      BY <1>5, <2>1, <2>2, <2>3, <2>4, <2>5, <2>6, <2>7, <2>8, <2>9 DEF Begin,
         CallerStep
<1>6. CASE UNCHANGED vars
      BY <1>6 DEF vars
<1> QED
    BY <1>1, <1>2, <1>3, <1>4, <1>5, <1>6 DEF Next

\* Only the I/O thread runs the callback, and a push makes room or ends the callback.
LEMMA ThreadStep == TypeOK /\ ThreadInv /\ [Next]_vars => ThreadInv'
<1> SUFFICES ASSUME Typed, ThreadInv, [Next]_vars
             PROVE  ThreadInv'
    BY TypeParts
<1> USE CloudAssumption DEF ThreadInv, Unstarted, Typed, IoTyped, OutTyped, PcTyped, Live,
        Threads, authVars, mapVars, openVars, outVars, evVars, ioVars
<1>1. CASE Login
      BY <1>1 DEF Login
<1>2. ASSUME NEW o \in Opens, FetchToken(o) \/ OpenStep(o)
      PROVE  ThreadInv'
  <2>1. CASE FetchToken(o)
        BY <2>1 DEF FetchToken, Goto
  <2>2. CASE TakeSnapshot(o)
        BY <2>2 DEF TakeSnapshot, Goto
  <2>3. CASE TakeTicket(o)
        BY <2>3 DEF TakeTicket, Goto
  <2>4. CASE Spawn(o)
        BY <2>4 DEF Spawn, Goto
  <2>5. CASE AwaitReady(o)
        BY <2>5 DEF AwaitReady, Goto
  <2>6. CASE CheckOverflow(o)
        BY <2>6 DEF CheckOverflow, Goto
  <2>7. CASE CheckSnapshot(o)
        BY <2>7 DEF CheckSnapshot, Goto
  <2>8. CASE Register(o)
        BY <2>8 DEF Register, Goto
  <2>9. CASE BindHolder(o)
        BY <2>9 DEF BindHolder, Goto
  <2>10. CASE Flush(o)
        BY <2>10 DEF Flush, Goto
  <2>11. CASE Show(o)
        BY <2>11 DEF Show, Goto, ShowClosed
  <2>12. CASE RemoveAfterFlush(o)
        BY <2>12 DEF RemoveAfterFlush, Goto
  <2>13. CASE CloseAfterFlush(o)
        BY <2>13 DEF CloseAfterFlush, Goto
  <2>14. CASE Cancel(o)
        BY <2>14 DEF Cancel, Goto
  <2>15. CASE Settle(o)
        BY <2>15 DEF Settle, Goto
  <2> QED
      BY <1>2, <2>1, <2>2, <2>3, <2>4, <2>5, <2>6, <2>7, <2>8, <2>9, <2>10, <2>11,
         <2>12, <2>13, <2>14, <2>15 DEF OpenStep
<1>3. ASSUME NEW o \in Opens, IoStep(o)
      PROVE  ThreadInv'
  <2>1. CASE Handshake(o)
        BY <2>1 DEF Handshake, Reading, SocketClosed
  <2>2. CASE WriterTakes(o)
        BY <2>2 DEF WriterTakes, Reading
  <2>3. CASE WriterSends(o)
        BY <2>3 DEF WriterSends, End, Reading
  <2>4. CASE WriterEnds(o)
        BY <2>4 DEF WriterEnds, End, Reading
  <2>5. CASE Route(o)
        BY <2>5 DEF Route
  <2>6. CASE PushPending(o)
        BY <2>6 DEF PushPending
  <2>7. CASE RouteClosed(o)
        BY <2>7 DEF RouteClosed
  <2>8. CASE PushClosed(o)
        BY <2>8 DEF PushClosed
  <2>9. CASE RemoveEnded(o)
        BY <2>9 DEF RemoveEnded
  <2>10. CASE CloseEnded(o)
        BY <2>10 DEF CloseEnded
  <2>11. CASE ReaderEnds(o)
        BY <2>11 DEF ReaderEnds, End
  <2> QED
      BY <1>3, <2>1, <2>2, <2>3, <2>4, <2>5, <2>6, <2>7, <2>8, <2>9, <2>10, <2>11 DEF
         IoStep
<1>4. ASSUME NEW o \in Opens, PeerStep(o)
      PROVE  ThreadInv'
  <2>1. CASE PeerReady(o)
        BY <2>1 DEF PeerReady, Reading
  <2>2. CASE PeerOutput(o)
        BY <2>2 DEF PeerOutput, Reading
  <2>3. CASE PeerCloses(o)
        BY <2>3 DEF PeerCloses, Reading, SocketClosed
  <2> QED
      BY <1>4, <2>1, <2>2, <2>3 DEF PeerStep
<1>5. ASSUME NEW c \in Callers, Begin(c) \/ CallerStep(c)
      PROVE  ThreadInv'
  <2>1. CASE CloseAgain(c)
        BY <2>1 DEF CloseAgain, CloseAll, Goto
  <2>2. CASE ClearNative(c)
        BY <2>2 DEF ClearNative, Goto
  <2>3. CASE Drain(c)
        BY <2>3 DEF Drain, Goto, AfterDrain
  <2>4. CASE BeginLock(c)
        BY <2>4 DEF BeginLock, CloseAll, Goto
  <2>5. CASE BeginCutoff(c)
        BY <2>5 DEF BeginCutoff, CloseAll, Goto
  <2>6. ASSUME NEW o \in Opens, Revalidate(c, o)
        PROVE  ThreadInv'
        BY <2>6 DEF Revalidate, Goto, Remove
  <2>7. ASSUME NEW o \in Opens, SendCommand(c, o)
        PROVE  ThreadInv'
        BY <2>7 DEF SendCommand, Goto
  <2>8. ASSUME NEW o \in Opens, CloseSession(c, o)
        PROVE  ThreadInv'
        BY <2>8 DEF CloseSession, Remove, Goto
  <2>9. ASSUME NEW o \in Opens, LookupSlot(c, o)
        PROVE  ThreadInv'
        BY <2>9 DEF LookupSlot, Goto
  <2> QED
      BY <1>5, <2>1, <2>2, <2>3, <2>4, <2>5, <2>6, <2>7, <2>8, <2>9 DEF Begin,
         CallerStep
<1>6. CASE UNCHANGED vars
      BY <1>6 DEF vars
<1> QED
    BY <1>1, <1>2, <1>3, <1>4, <1>5, <1>6 DEF Next

\* The registry is entered by the insert alone, and its generation only rises.
LEMMA MapStep == TypeOK /\ MapInv /\ [Next]_vars => MapInv'
<1> SUFFICES ASSUME Typed, MapInv, [Next]_vars
             PROVE  MapInv'
    BY TypeParts
<1> USE CloudAssumption DEF MapInv, PastInsert, Threads, Typed, IoTyped, MapTyped, OpenTyped,
        OutTyped, PcTyped, authVars, mapVars, openVars, outVars, evVars, ioVars
<1>1. CASE Login
      BY <1>1 DEF Login
<1>2. ASSUME NEW o \in Opens, FetchToken(o) \/ OpenStep(o)
      PROVE  MapInv'
  <2>1. CASE FetchToken(o)
        BY <2>1 DEF FetchToken, Goto
  <2>2. CASE TakeSnapshot(o)
        BY <2>2 DEF TakeSnapshot, Goto
  <2>3. CASE TakeTicket(o)
    <3>1. /\ gen_ticket' = [gen_ticket EXCEPT ![o] = generation]
          /\ pc' = [pc EXCEPT ![o] = "spawn"] /\ pc[o] = "ticket"
          /\ UNCHANGED <<generation, sessions, holder, callback>>
          BY <2>3 DEF TakeTicket, Goto
    <3>2. ASSUME NEW u \in Opens
          PROVE  gen_ticket'[u] <= generation'
          BY <3>1
    <3>3. ASSUME NEW u \in Opens
          PROVE  /\ u \in sessions' => pc'[u] \in PastInsert \cup {"bind"}
                 /\ holder'[u] => pc'[u] \in PastInsert
                 /\ callback'[u] \in {"remove", "close"} => holder'[u]
          BY <3>1
    <3> QED
        BY <3>2, <3>3
  <2>4. CASE Spawn(o)
        BY <2>4 DEF Spawn, Goto
  <2>5. CASE AwaitReady(o)
        BY <2>5 DEF AwaitReady, Goto
  <2>6. CASE CheckOverflow(o)
        BY <2>6 DEF CheckOverflow, Goto
  <2>7. CASE CheckSnapshot(o)
        BY <2>7 DEF CheckSnapshot, Goto
  <2>8. CASE Register(o)
        BY <2>8 DEF Register, Goto
  <2>9. CASE BindHolder(o)
        BY <2>9 DEF BindHolder, Goto
  <2>10. CASE Flush(o)
        BY <2>10 DEF Flush, Goto
  <2>11. CASE Show(o)
        BY <2>11 DEF Show, Goto, ShowClosed
  <2>12. CASE RemoveAfterFlush(o)
        BY <2>12 DEF RemoveAfterFlush, Goto
  <2>13. CASE CloseAfterFlush(o)
        BY <2>13 DEF CloseAfterFlush, Goto
  <2>14. CASE Cancel(o)
        BY <2>14 DEF Cancel, Goto
  <2>15. CASE Settle(o)
        BY <2>15 DEF Settle, Goto
  <2> QED
      BY <1>2, <2>1, <2>2, <2>3, <2>4, <2>5, <2>6, <2>7, <2>8, <2>9, <2>10, <2>11,
         <2>12, <2>13, <2>14, <2>15 DEF OpenStep
<1>3. ASSUME NEW o \in Opens, IoStep(o)
      PROVE  MapInv'
  <2>1. CASE Handshake(o)
        BY <2>1 DEF Handshake, Reading, SocketClosed
  <2>2. CASE WriterTakes(o)
        BY <2>2 DEF WriterTakes, Reading
  <2>3. CASE WriterSends(o)
        BY <2>3 DEF WriterSends, End, Reading
  <2>4. CASE WriterEnds(o)
        BY <2>4 DEF WriterEnds, End, Reading
  <2>5. CASE Route(o)
        BY <2>5 DEF Route
  <2>6. CASE PushPending(o)
        BY <2>6 DEF PushPending
  <2>7. CASE RouteClosed(o)
        BY <2>7 DEF RouteClosed
  <2>8. CASE PushClosed(o)
        BY <2>8 DEF PushClosed
  <2>9. CASE RemoveEnded(o)
        BY <2>9 DEF RemoveEnded
  <2>10. CASE CloseEnded(o)
        BY <2>10 DEF CloseEnded
  <2>11. CASE ReaderEnds(o)
        BY <2>11 DEF ReaderEnds, End
  <2> QED
      BY <1>3, <2>1, <2>2, <2>3, <2>4, <2>5, <2>6, <2>7, <2>8, <2>9, <2>10, <2>11 DEF
         IoStep
<1>4. ASSUME NEW o \in Opens, PeerStep(o)
      PROVE  MapInv'
  <2>1. CASE PeerReady(o)
        BY <2>1 DEF PeerReady, Reading
  <2>2. CASE PeerOutput(o)
        BY <2>2 DEF PeerOutput, Reading
  <2>3. CASE PeerCloses(o)
        BY <2>3 DEF PeerCloses, Reading, SocketClosed
  <2> QED
      BY <1>4, <2>1, <2>2, <2>3 DEF PeerStep
<1>5. ASSUME NEW c \in Callers, Begin(c) \/ CallerStep(c)
      PROVE  MapInv'
  <2>1. CASE CloseAgain(c)
        BY <2>1 DEF CloseAgain, CloseAll, Goto, RaiseGeneration
  <2>2. CASE ClearNative(c)
        BY <2>2 DEF ClearNative, Goto
  <2>3. CASE Drain(c)
        BY <2>3 DEF Drain, Goto, AfterDrain
  <2>4. CASE BeginLock(c)
        BY <2>4 DEF BeginLock, CloseAll, Goto, RaiseGeneration
  <2>5. CASE BeginCutoff(c)
        BY <2>5 DEF BeginCutoff, CloseAll, Goto, RaiseGeneration
  <2>6. ASSUME NEW o \in Opens, Revalidate(c, o)
        PROVE  MapInv'
        BY <2>6 DEF Revalidate, Goto, Remove
  <2>7. ASSUME NEW o \in Opens, SendCommand(c, o)
        PROVE  MapInv'
        BY <2>7 DEF SendCommand, Goto
  <2>8. ASSUME NEW o \in Opens, CloseSession(c, o)
        PROVE  MapInv'
        BY <2>8 DEF CloseSession, Remove, Goto
  <2>9. ASSUME NEW o \in Opens, LookupSlot(c, o)
        PROVE  MapInv'
        BY <2>9 DEF LookupSlot, Goto
  <2> QED
      BY <1>5, <2>1, <2>2, <2>3, <2>4, <2>5, <2>6, <2>7, <2>8, <2>9 DEF Begin,
         CallerStep
<1>6. CASE UNCHANGED vars
      BY <1>6 DEF vars
<1> QED
    BY <1>1, <1>2, <1>3, <1>4, <1>5, <1>6 DEF Next

\* The socket's end moves on, from the callback to the queue, to the open call, to the registry.
LEMMA EndStep == TypeOK /\ MapInv /\ EndInv /\ [Next]_vars => EndInv'
<1> SUFFICES ASSUME Typed, MapInv, EndInv, [Next]_vars
             PROVE  EndInv'
    BY TypeParts
<1> USE CloudAssumption DEF EndInv, TakenOut, PastInsert, Threads, Typed, IoTyped, OutTyped,
        EvTyped, PcTyped, authVars, mapVars, openVars, outVars, evVars, ioVars
<1>1. CASE Login
      BY <1>1 DEF Login
<1>2. ASSUME NEW o \in Opens, FetchToken(o) \/ OpenStep(o)
      PROVE  EndInv'
  <2>1. CASE FetchToken(o)
        BY <2>1 DEF FetchToken, Goto
  <2>2. CASE TakeSnapshot(o)
        BY <2>2 DEF TakeSnapshot, Goto
  <2>3. CASE TakeTicket(o)
        BY <2>3 DEF TakeTicket, Goto
  <2>4. CASE Spawn(o)
        BY <2>4 DEF Spawn, Goto
  <2>5. CASE AwaitReady(o)
        BY <2>5 DEF AwaitReady, Goto
  <2>6. CASE CheckOverflow(o)
        BY <2>6 DEF CheckOverflow, Goto
  <2>7. CASE CheckSnapshot(o)
        BY <2>7 DEF CheckSnapshot, Goto
  <2>8. CASE Register(o)
        BY <2>8 DEF Register, Goto
  <2>9. CASE BindHolder(o)
        BY <2>9 DEF BindHolder, Goto
  <2>10. CASE Flush(o)
        BY <2>10 DEF Flush, Goto
  <2>11. CASE Show(o)
    <3>1. ASSUME NEW x \in Opens, x # o
          PROVE  flushing'[x] = flushing[x] /\ pc'[x] = pc[x]
        BY <3>1, <2>11 DEF Show, Goto, ShowClosed
    <3>2. Holds(flushing[o], Closed) =>
              \/ pc'[o] = "remove"
              \/ pc'[o] = "show" /\ Holds(flushing'[o], Closed)
      <4>1. CASE flushing[o] = <<>>
          BY <4>1 DEF Holds
      <4>2. CASE flushing[o] # <<>> /\ Head(flushing[o]) = Closed
        <5>1. ShowClosed(o)
            BY <4>2, <2>11 DEF Show
        <5>2. o \in Threads /\ pc \in [Threads -> OpenPoints \cup CallerPoints]
            OBVIOUS
        <5>3. pc'[o] = "remove"
            BY <5>1, <5>2 DEF ShowClosed, Goto
        <5> QED
            BY <5>3
      <4>3. CASE flushing[o] # <<>> /\ Head(flushing[o]) # Closed
        <5>1. pc'[o] = "show" /\ flushing'[o] = Tail(flushing[o])
            BY <4>3, <2>11 DEF Show, Goto
        <5>2. flushing[o] \in Seq({Out, Closed})
            OBVIOUS
        <5> QED
            BY <4>3, <5>1, <5>2, HoldsTail
      <4> QED
          BY <4>1, <4>2, <4>3
    <3>3. pc[o] = "show" /\ pc'[o] \in PastInsert
        BY <2>11 DEF Show, Goto, ShowClosed
    <3> QED
        BY <3>1, <3>2, <3>3, <2>11 DEF Show
  <2>12. CASE RemoveAfterFlush(o)
        BY <2>12 DEF RemoveAfterFlush, Goto
  <2>13. CASE CloseAfterFlush(o)
        BY <2>13 DEF CloseAfterFlush, Goto
  <2>14. CASE Cancel(o)
        BY <2>14 DEF Cancel, Goto
  <2>15. CASE Settle(o)
        BY <2>15 DEF Settle, Goto
  <2> QED
      BY <1>2, <2>1, <2>2, <2>3, <2>4, <2>5, <2>6, <2>7, <2>8, <2>9, <2>10, <2>11,
         <2>12, <2>13, <2>14, <2>15 DEF OpenStep
<1>3. ASSUME NEW o \in Opens, IoStep(o)
      PROVE  EndInv'
  <2>1. CASE Handshake(o)
        BY <2>1 DEF Handshake, Reading, SocketClosed, Tell
  <2>2. CASE WriterTakes(o)
        BY <2>2 DEF WriterTakes, Reading
  <2>3. CASE WriterSends(o)
        BY <2>3 DEF WriterSends, End, Reading
  <2>4. CASE WriterEnds(o)
        BY <2>4 DEF WriterEnds, End, Reading
  <2>5. CASE Route(o)
        BY <2>5 DEF Route
  <2>6. CASE PushPending(o)
    <3>1. ASSUME NEW x \in Opens, x # o
          PROVE  /\ pending'[x] = pending[x] /\ callback'[x] = callback[x]
                 /\ overflowed'[x] = overflowed[x]
        BY <3>1, <2>6 DEF PushPending
    <3>2. Holds(pending[o], Closed) => overflowed'[o] \/ Holds(pending'[o], Closed)
      <4>1. CASE pending' = [pending EXCEPT ![o] = Append(pending[o], Out)]
        <5>1. pending[o] \in Seq({Out, Closed}) /\ pending'[o] = Append(pending[o], Out)
            BY <4>1
        <5> QED
            BY <5>1, HoldsAppend
      <4>2. CASE overflowed' = [overflowed EXCEPT ![o] = TRUE]
          BY <4>2
      <4> QED
          BY <4>1, <4>2, <2>6 DEF PushPending
    <3>3. callback[o] = "push" /\ (overflowed[o] => overflowed'[o])
        BY <2>6 DEF PushPending
    <3> QED
        BY <3>1, <3>2, <3>3, <2>6 DEF PushPending
  <2>7. CASE RouteClosed(o)
        BY <2>7 DEF RouteClosed
  <2>8. CASE PushClosed(o)
    <3>1. ASSUME NEW x \in Opens, x # o
          PROVE  pending'[x] = pending[x] /\ callback'[x] = callback[x]
        BY <3>1, <2>8 DEF PushClosed
    <3>2. Holds(pending'[o], Closed)
      <4>1. pending[o] \in Seq({Out, Closed}) /\ pending'[o] = Append(pending[o], Closed)
          BY <2>8 DEF PushClosed
      <4> QED
          BY <4>1, HoldsAppend
    <3> QED
        BY <3>1, <3>2, <2>8 DEF PushClosed
  <2>9. CASE RemoveEnded(o)
        BY <2>9 DEF RemoveEnded, MapInv
  <2>10. CASE CloseEnded(o)
        BY <2>10 DEF CloseEnded
  <2>11. CASE ReaderEnds(o)
        BY <2>11 DEF ReaderEnds, End
  <2> QED
      BY <1>3, <2>1, <2>2, <2>3, <2>4, <2>5, <2>6, <2>7, <2>8, <2>9, <2>10, <2>11 DEF
         IoStep
<1>4. ASSUME NEW o \in Opens, PeerStep(o)
      PROVE  EndInv'
  <2>1. CASE PeerReady(o)
        BY <2>1 DEF PeerReady, Reading, Tell
  <2>2. CASE PeerOutput(o)
        BY <2>2 DEF PeerOutput, Reading, Tell
  <2>3. CASE PeerCloses(o)
        BY <2>3 DEF PeerCloses, Reading, SocketClosed, Tell
  <2> QED
      BY <1>4, <2>1, <2>2, <2>3 DEF PeerStep
<1>5. ASSUME NEW c \in Callers, Begin(c) \/ CallerStep(c)
      PROVE  EndInv'
  <2>1. CASE CloseAgain(c)
        BY <2>1 DEF CloseAgain, CloseAll, Goto, RaiseGeneration
  <2>2. CASE ClearNative(c)
        BY <2>2 DEF ClearNative, Goto
  <2>3. CASE Drain(c)
        BY <2>3 DEF Drain, Goto, AfterDrain
  <2>4. CASE BeginLock(c)
        BY <2>4 DEF BeginLock, CloseAll, Goto, RaiseGeneration
  <2>5. CASE BeginCutoff(c)
        BY <2>5 DEF BeginCutoff, CloseAll, Goto, RaiseGeneration
  <2>6. ASSUME NEW o \in Opens, Revalidate(c, o)
        PROVE  EndInv'
        BY <2>6 DEF Revalidate, Goto, Remove
  <2>7. ASSUME NEW o \in Opens, SendCommand(c, o)
        PROVE  EndInv'
        BY <2>7 DEF SendCommand, Goto
  <2>8. ASSUME NEW o \in Opens, CloseSession(c, o)
        PROVE  EndInv'
        BY <2>8 DEF CloseSession, Remove, Goto
  <2>9. ASSUME NEW o \in Opens, LookupSlot(c, o)
        PROVE  EndInv'
        BY <2>9 DEF LookupSlot, Goto
  <2> QED
      BY <1>5, <2>1, <2>2, <2>3, <2>4, <2>5, <2>6, <2>7, <2>8, <2>9 DEF Begin,
         CallerStep
<1>6. CASE UNCHANGED vars
      BY <1>6 DEF vars
<1> QED
    BY <1>1, <1>2, <1>3, <1>4, <1>5, <1>6 DEF Next

\* The invariant holds in every reachable state.
LEMMA InvHolds == Spec => []IInv
<1>1. IInv /\ [Next]_vars => IInv'
    BY TypeStep, ThreadStep, MapStep, EndStep DEF IInv
<1> QED
    BY <1>1, InvInit, PTL DEF Spec

\* Every variable stays in its domain, both queues within their capacity, whatever the
\* peer sends and whoever writes.
THEOREM TerminalTypeCorrect == Spec => []TypeOK
<1>1. IInv => TypeOK
    BY DEF IInv
<1> QED
    BY <1>1, InvHolds, PTL

\* A session whose I/O thread ended and which is still registered is one of the three kinds
\* that LingeringExplained names: the end of a socket that the callback took is never lost
\* between the callback, the pending queue and the open call that drains it.
THEOREM LingeringIsExplained == Spec => []LingeringExplained
<1>1. ASSUME IInv
      PROVE  LingeringExplained
  <2>1. SUFFICES ASSUME NEW o \in sessions, pc[o] = "done", io[o] = "ended", closed_emitted[o],
                        ~overflowed[o]
                 PROVE  \E i \in DOMAIN pending[o] : pending[o][i] = Closed
      BY DEF LingeringExplained
  <2>2. o \in Opens
      BY <1>1 DEF IInv, TypeOK
  <2>3. callback[o] = "none"
      BY <1>1, <2>1, <2>2 DEF IInv, ThreadInv
  <2> QED
      BY <1>1, <2>1, <2>2, <2>3 DEF IInv, EndInv, TakenOut, Holds
<1> QED
    BY <1>1, InvHolds, PTL

----------------------------------------------------------------------------
(* The cloud registry implements SessionBarrier.                           *)

\* An open call that has its ticket and has not come to the insert.
Underway(o) == pc[o] \in {"spawn", "wait", "check", "check_auth", "register"}

LEMMA AdmittedUnderway == Admitted = {o \in Opens : Underway(o) /\ gen_ticket[o] = generation}
BY DEF Admitted, Underway

\* The kinds of abstract step, by what they do to the open calls that are admitted and to
\* the sessions.
LEMMA StuttersWhen ==
    ASSUME Admitted' = Admitted, sessions' = sessions
    PROVE  UNCHANGED Barrier!vars
BY DEF Barrier!vars

LEMMA DropsWhen ==
    ASSUME NEW o \in Opens, Admitted' = Admitted \ {o}, sessions' = sessions \ {o}
    PROVE  Barrier!Next
<1>1. Barrier!Drop(<<o, "every">>)
    BY DEF Barrier!Drop
<1> QED
    BY <1>1 DEF Barrier!Next

LEMMA AdmitsWhen ==
    ASSUME NEW o \in Opens, o \notin Admitted \cup sessions,
           Admitted' = Admitted \cup {o}, sessions' = sessions
    PROVE  Barrier!Next
<1>1. Barrier!Admit(o, "every")
    BY DEF Barrier!Admit
<1> QED
    BY <1>1 DEF Barrier!Next

LEMMA RegistersWhen ==
    ASSUME NEW o \in Admitted, Admitted' = Admitted \ {o}, sessions' = sessions \cup {o}
    PROVE  Barrier!Next
<1>1. o \in Opens
    BY DEF Admitted
<1>2. Barrier!Register(<<o, "every">>)
    BY DEF Barrier!Register
<1> QED
    BY <1>1, <1>2 DEF Barrier!Next

\* A step that moves no open call into or out of its way registers nothing.
LEMMA SilentStep ==
    ASSUME UNCHANGED <<generation, gen_ticket, sessions>>,
           \A x \in Opens : Underway(x)' <=> Underway(x)
    PROVE  [Barrier!Next]_Barrier!vars
<1>1. Admitted' = Admitted
    BY DEF Admitted, Underway
<1> QED
    BY <1>1, StuttersWhen

\* A step that takes out one open call, or none, drops it or stutters.
LEMMA LeavesOne ==
    ASSUME MapInv, NEW o \in Opens, UNCHANGED <<generation, gen_ticket>>,
           sessions' \in {sessions, sessions \ {o}},
           \A x \in Opens \ {o} : Underway(x)' <=> Underway(x),
           Underway(o)' => Underway(o)
    PROVE  [Barrier!Next]_Barrier!vars
<1>1. Admitted' \in {Admitted, Admitted \ {o}}
    BY DEF Admitted, Underway
<1>2. o \in sessions => o \notin Admitted
    BY DEF MapInv, Admitted, PastInsert
<1>3. CASE Admitted' = Admitted /\ sessions' = sessions
    BY <1>3, StuttersWhen
<1>4. CASE ~(Admitted' = Admitted /\ sessions' = sessions)
  <2>1. Admitted' = Admitted \ {o} /\ sessions' = sessions \ {o}
      BY <1>1, <1>2, <1>4
  <2> QED
      BY <2>1, DropsWhen
<1> QED
    BY <1>3, <1>4

\* A close_all reaches every open call under way: all their tickets are older than what the
\* generation becomes.
LEMMA CloseAllReaches ==
    ASSUME TypeOK, MapInv, NEW c \in Callers, NEW then, CloseAll(c, then)
    PROVE  [Barrier!Next]_Barrier!vars
<1>1. sessions' = {} /\ generation' = generation + 1 /\ gen_ticket' = gen_ticket
    BY DEF CloseAll, RaiseGeneration, openVars
<1>2. \A o \in Opens : gen_ticket[o] # generation + 1
    BY DEF TypeOK, MapInv
<1>3. Admitted' = {}
    BY <1>1, <1>2 DEF Admitted
<1>4. Barrier!RevokeAll
    BY <1>1, <1>3 DEF Barrier!RevokeAll
<1> QED
    BY <1>4 DEF Barrier!Next

\* Every step of the cloud registry is a step of the barrier or none.
LEMMA BarrierSimulation == TypeOK /\ MapInv /\ [Next]_vars => [Barrier!Next]_Barrier!vars
<1> SUFFICES ASSUME TypeOK, Typed, MapInv, [Next]_vars
             PROVE  [Barrier!Next]_Barrier!vars
    BY TypeParts
<1> USE CloudAssumption DEF MapInv, PastInsert, Threads, Typed, OpenTyped, PcTyped, authVars,
        mapVars, openVars, outVars, evVars, ioVars
<1>1. CASE Login
  <2>1. /\ UNCHANGED <<generation, gen_ticket, sessions>>
        /\ \A x \in Opens : Underway(x)' <=> Underway(x)
      BY <1>1 DEF Login, Underway
  <2> QED
      BY <2>1, SilentStep
<1>2. ASSUME NEW o \in Opens, FetchToken(o) \/ OpenStep(o)
      PROVE  [Barrier!Next]_Barrier!vars
  <2>1. CASE FetchToken(o)
    <3>1. UNCHANGED <<generation, gen_ticket>> /\ sessions' \in {sessions, sessions \ {o}}
        BY <2>1 DEF FetchToken
    <3>2. \A x \in Opens \ {o} : Underway(x)' <=> Underway(x)
        BY <2>1 DEF FetchToken, Goto, Underway
    <3>3. Underway(o)' => Underway(o)
        BY <2>1 DEF FetchToken, Goto, Underway
    <3> QED
        BY <3>1, <3>2, <3>3, LeavesOne
  <2>2. CASE TakeSnapshot(o)
    <3>1. UNCHANGED <<generation, gen_ticket>> /\ sessions' \in {sessions, sessions \ {o}}
        BY <2>2 DEF TakeSnapshot
    <3>2. \A x \in Opens \ {o} : Underway(x)' <=> Underway(x)
        BY <2>2 DEF TakeSnapshot, Goto, Underway
    <3>3. Underway(o)' => Underway(o)
        BY <2>2 DEF TakeSnapshot, Goto, Underway
    <3> QED
        BY <3>1, <3>2, <3>3, LeavesOne
  <2>3. CASE TakeTicket(o)
    <3>1. sessions' = sessions /\ o \notin Admitted \cup sessions
        BY <2>3 DEF TakeTicket, Admitted
    <3>2. pc' = [pc EXCEPT ![o] = "spawn"] /\ gen_ticket' = [gen_ticket EXCEPT ![o] = generation]
        BY <2>3 DEF TakeTicket, Goto
    <3>3. Admitted' = Admitted \cup {o}
      <4>1. generation' = generation /\ pc'[o] = "spawn" /\ gen_ticket'[o] = generation
          BY <3>2, <2>3 DEF TakeTicket
      <4>2. \A x \in Opens \ {o} : pc'[x] = pc[x] /\ gen_ticket'[x] = gen_ticket[x]
          BY <3>2
      <4> QED
          BY <4>1, <4>2 DEF Admitted
    <3> QED
        BY <3>1, <3>3, AdmitsWhen
  <2>4. CASE Spawn(o)
    <3>1. UNCHANGED <<generation, gen_ticket>> /\ sessions' \in {sessions, sessions \ {o}}
        BY <2>4 DEF Spawn
    <3>2. \A x \in Opens \ {o} : Underway(x)' <=> Underway(x)
        BY <2>4 DEF Spawn, Goto, Underway
    <3>3. Underway(o)' => Underway(o)
        BY <2>4 DEF Spawn, Goto, Underway
    <3> QED
        BY <3>1, <3>2, <3>3, LeavesOne
  <2>5. CASE AwaitReady(o)
    <3>1. UNCHANGED <<generation, gen_ticket>> /\ sessions' \in {sessions, sessions \ {o}}
        BY <2>5 DEF AwaitReady
    <3>2. \A x \in Opens \ {o} : Underway(x)' <=> Underway(x)
        BY <2>5 DEF AwaitReady, Goto, Underway
    <3>3. Underway(o)' => Underway(o)
        BY <2>5 DEF AwaitReady, Goto, Underway
    <3> QED
        BY <3>1, <3>2, <3>3, LeavesOne
  <2>6. CASE CheckOverflow(o)
    <3>1. UNCHANGED <<generation, gen_ticket>> /\ sessions' \in {sessions, sessions \ {o}}
        BY <2>6 DEF CheckOverflow
    <3>2. \A x \in Opens \ {o} : Underway(x)' <=> Underway(x)
        BY <2>6 DEF CheckOverflow, Goto, Underway
    <3>3. Underway(o)' => Underway(o)
        BY <2>6 DEF CheckOverflow, Goto, Underway
    <3> QED
        BY <3>1, <3>2, <3>3, LeavesOne
  <2>7. CASE CheckSnapshot(o)
    <3>1. UNCHANGED <<generation, gen_ticket>> /\ sessions' \in {sessions, sessions \ {o}}
        BY <2>7 DEF CheckSnapshot
    <3>2. \A x \in Opens \ {o} : Underway(x)' <=> Underway(x)
        BY <2>7 DEF CheckSnapshot, Goto, Underway
    <3>3. Underway(o)' => Underway(o)
        BY <2>7 DEF CheckSnapshot, Goto, Underway
    <3> QED
        BY <3>1, <3>2, <3>3, LeavesOne
  <2>8. CASE Register(o)
    <3>1. UNCHANGED <<generation, gen_ticket>>
        BY <2>8 DEF Register
    <3>2. \A x \in Opens \ {o} : pc'[x] = pc[x]
        BY <2>8 DEF Register, Goto
    <3>3. pc[o] = "register" /\ pc'[o] \in {"bind", "cancel"}
        BY <2>8 DEF Register, Goto
    <3>4. Admitted' = Admitted \ {o}
        BY <3>1, <3>2, <3>3 DEF Admitted
    <3>5. CASE TicketCurrent(o) /\ sessions' = sessions \cup {o}
      <4>1. o \in Admitted
          BY <3>3, <3>5 DEF Admitted, TicketCurrent
      <4> QED
          BY <3>4, <3>5, <4>1, RegistersWhen
    <3>6. CASE sessions' = sessions
      <4>1. sessions' = sessions \ {o}
          BY <3>3, <3>6
      <4> QED
          BY <3>4, <4>1, DropsWhen
    <3> QED
        BY <3>5, <3>6, <2>8 DEF Register
  <2>9. CASE BindHolder(o)
    <3>1. UNCHANGED <<generation, gen_ticket>> /\ sessions' \in {sessions, sessions \ {o}}
        BY <2>9 DEF BindHolder
    <3>2. \A x \in Opens \ {o} : Underway(x)' <=> Underway(x)
        BY <2>9 DEF BindHolder, Goto, Underway
    <3>3. Underway(o)' => Underway(o)
        BY <2>9 DEF BindHolder, Goto, Underway
    <3> QED
        BY <3>1, <3>2, <3>3, LeavesOne
  <2>10. CASE Flush(o)
    <3>1. UNCHANGED <<generation, gen_ticket>> /\ sessions' \in {sessions, sessions \ {o}}
        BY <2>10 DEF Flush
    <3>2. \A x \in Opens \ {o} : Underway(x)' <=> Underway(x)
        BY <2>10 DEF Flush, Goto, Underway
    <3>3. Underway(o)' => Underway(o)
        BY <2>10 DEF Flush, Goto, Underway
    <3> QED
        BY <3>1, <3>2, <3>3, LeavesOne
  <2>11. CASE Show(o)
    <3>1. UNCHANGED <<generation, gen_ticket>> /\ sessions' \in {sessions, sessions \ {o}}
        BY <2>11 DEF Show
    <3>2. \A x \in Opens \ {o} : Underway(x)' <=> Underway(x)
        BY <2>11 DEF Show, Goto, ShowClosed, Underway
    <3>3. Underway(o)' => Underway(o)
        BY <2>11 DEF Show, Goto, ShowClosed, Underway
    <3> QED
        BY <3>1, <3>2, <3>3, LeavesOne
  <2>12. CASE RemoveAfterFlush(o)
    <3>1. UNCHANGED <<generation, gen_ticket>> /\ sessions' \in {sessions, sessions \ {o}}
        BY <2>12 DEF RemoveAfterFlush
    <3>2. \A x \in Opens \ {o} : Underway(x)' <=> Underway(x)
        BY <2>12 DEF RemoveAfterFlush, Goto, Underway
    <3>3. Underway(o)' => Underway(o)
        BY <2>12 DEF RemoveAfterFlush, Goto, Underway
    <3> QED
        BY <3>1, <3>2, <3>3, LeavesOne
  <2>13. CASE CloseAfterFlush(o)
    <3>1. UNCHANGED <<generation, gen_ticket>> /\ sessions' \in {sessions, sessions \ {o}}
        BY <2>13 DEF CloseAfterFlush
    <3>2. \A x \in Opens \ {o} : Underway(x)' <=> Underway(x)
        BY <2>13 DEF CloseAfterFlush, Goto, Underway
    <3>3. Underway(o)' => Underway(o)
        BY <2>13 DEF CloseAfterFlush, Goto, Underway
    <3> QED
        BY <3>1, <3>2, <3>3, LeavesOne
  <2>14. CASE Cancel(o)
    <3>1. UNCHANGED <<generation, gen_ticket>> /\ sessions' \in {sessions, sessions \ {o}}
        BY <2>14 DEF Cancel
    <3>2. \A x \in Opens \ {o} : Underway(x)' <=> Underway(x)
        BY <2>14 DEF Cancel, Goto, Underway
    <3>3. Underway(o)' => Underway(o)
        BY <2>14 DEF Cancel, Goto, Underway
    <3> QED
        BY <3>1, <3>2, <3>3, LeavesOne
  <2>15. CASE Settle(o)
    <3>1. UNCHANGED <<generation, gen_ticket>> /\ sessions' \in {sessions, sessions \ {o}}
        BY <2>15 DEF Settle
    <3>2. \A x \in Opens \ {o} : Underway(x)' <=> Underway(x)
        BY <2>15 DEF Settle, Goto, Underway
    <3>3. Underway(o)' => Underway(o)
        BY <2>15 DEF Settle, Goto, Underway
    <3> QED
        BY <3>1, <3>2, <3>3, LeavesOne
  <2> QED
      BY <1>2, <2>1, <2>2, <2>3, <2>4, <2>5, <2>6, <2>7, <2>8, <2>9, <2>10, <2>11,
         <2>12, <2>13, <2>14, <2>15 DEF OpenStep
<1>3. ASSUME NEW o \in Opens, IoStep(o)
      PROVE  [Barrier!Next]_Barrier!vars
  <2>1. CASE Handshake(o)
    <3>1. UNCHANGED <<generation, gen_ticket, sessions>>
        BY <2>1 DEF Handshake
    <3>2. \A x \in Opens : Underway(x)' <=> Underway(x)
        BY <2>1 DEF Handshake, Underway
    <3> QED
        BY <3>1, <3>2, SilentStep
  <2>2. CASE WriterTakes(o)
    <3>1. UNCHANGED <<generation, gen_ticket, sessions>>
        BY <2>2 DEF WriterTakes
    <3>2. \A x \in Opens : Underway(x)' <=> Underway(x)
        BY <2>2 DEF WriterTakes, Underway
    <3> QED
        BY <3>1, <3>2, SilentStep
  <2>3. CASE WriterSends(o)
    <3>1. UNCHANGED <<generation, gen_ticket, sessions>>
        BY <2>3 DEF WriterSends
    <3>2. \A x \in Opens : Underway(x)' <=> Underway(x)
        BY <2>3 DEF WriterSends, Underway
    <3> QED
        BY <3>1, <3>2, SilentStep
  <2>4. CASE WriterEnds(o)
    <3>1. UNCHANGED <<generation, gen_ticket, sessions>>
        BY <2>4 DEF WriterEnds
    <3>2. \A x \in Opens : Underway(x)' <=> Underway(x)
        BY <2>4 DEF WriterEnds, Underway
    <3> QED
        BY <3>1, <3>2, SilentStep
  <2>5. CASE Route(o)
    <3>1. UNCHANGED <<generation, gen_ticket, sessions>>
        BY <2>5 DEF Route
    <3>2. \A x \in Opens : Underway(x)' <=> Underway(x)
        BY <2>5 DEF Route, Underway
    <3> QED
        BY <3>1, <3>2, SilentStep
  <2>6. CASE PushPending(o)
    <3>1. UNCHANGED <<generation, gen_ticket, sessions>>
        BY <2>6 DEF PushPending
    <3>2. \A x \in Opens : Underway(x)' <=> Underway(x)
        BY <2>6 DEF PushPending, Underway
    <3> QED
        BY <3>1, <3>2, SilentStep
  <2>7. CASE RouteClosed(o)
    <3>1. UNCHANGED <<generation, gen_ticket, sessions>>
        BY <2>7 DEF RouteClosed
    <3>2. \A x \in Opens : Underway(x)' <=> Underway(x)
        BY <2>7 DEF RouteClosed, Underway
    <3> QED
        BY <3>1, <3>2, SilentStep
  <2>8. CASE PushClosed(o)
    <3>1. UNCHANGED <<generation, gen_ticket, sessions>>
        BY <2>8 DEF PushClosed
    <3>2. \A x \in Opens : Underway(x)' <=> Underway(x)
        BY <2>8 DEF PushClosed, Underway
    <3> QED
        BY <3>1, <3>2, SilentStep
  <2>9. CASE RemoveEnded(o)
    <3>1. UNCHANGED <<generation, gen_ticket>> /\ sessions' \in {sessions, sessions \ {o}}
        BY <2>9 DEF RemoveEnded
    <3>2. \A x \in Opens : Underway(x)' <=> Underway(x)
        BY <2>9 DEF RemoveEnded, Underway
    <3> QED
        BY <3>1, <3>2, LeavesOne
  <2>10. CASE CloseEnded(o)
    <3>1. UNCHANGED <<generation, gen_ticket, sessions>>
        BY <2>10 DEF CloseEnded
    <3>2. \A x \in Opens : Underway(x)' <=> Underway(x)
        BY <2>10 DEF CloseEnded, Underway
    <3> QED
        BY <3>1, <3>2, SilentStep
  <2>11. CASE ReaderEnds(o)
    <3>1. UNCHANGED <<generation, gen_ticket, sessions>>
        BY <2>11 DEF ReaderEnds
    <3>2. \A x \in Opens : Underway(x)' <=> Underway(x)
        BY <2>11 DEF ReaderEnds, Underway
    <3> QED
        BY <3>1, <3>2, SilentStep
  <2> QED
      BY <1>3, <2>1, <2>2, <2>3, <2>4, <2>5, <2>6, <2>7, <2>8, <2>9, <2>10, <2>11 DEF
         IoStep
<1>4. ASSUME NEW o \in Opens, PeerStep(o)
      PROVE  [Barrier!Next]_Barrier!vars
  <2>1. CASE PeerReady(o)
    <3>1. UNCHANGED <<generation, gen_ticket, sessions>>
        BY <2>1 DEF PeerReady
    <3>2. \A x \in Opens : Underway(x)' <=> Underway(x)
        BY <2>1 DEF PeerReady, Underway
    <3> QED
        BY <3>1, <3>2, SilentStep
  <2>2. CASE PeerOutput(o)
    <3>1. UNCHANGED <<generation, gen_ticket, sessions>>
        BY <2>2 DEF PeerOutput
    <3>2. \A x \in Opens : Underway(x)' <=> Underway(x)
        BY <2>2 DEF PeerOutput, Underway
    <3> QED
        BY <3>1, <3>2, SilentStep
  <2>3. CASE PeerCloses(o)
    <3>1. UNCHANGED <<generation, gen_ticket, sessions>>
        BY <2>3 DEF PeerCloses
    <3>2. \A x \in Opens : Underway(x)' <=> Underway(x)
        BY <2>3 DEF PeerCloses, Underway
    <3> QED
        BY <3>1, <3>2, SilentStep
  <2> QED
      BY <1>4, <2>1, <2>2, <2>3 DEF PeerStep
<1>5. ASSUME NEW c \in Callers, Begin(c) \/ CallerStep(c)
      PROVE  [Barrier!Next]_Barrier!vars
  <2>1. CASE CloseAgain(c)
      BY <2>1, CloseAllReaches DEF CloseAgain
  <2>2. CASE ClearNative(c)
    <3>1. UNCHANGED <<generation, gen_ticket, sessions>>
        BY <2>2 DEF ClearNative
    <3>2. \A x \in Opens : Underway(x)' <=> Underway(x)
        BY <2>2 DEF ClearNative, Goto, Underway
    <3> QED
        BY <3>1, <3>2, SilentStep
  <2>3. CASE Drain(c)
    <3>1. UNCHANGED <<generation, gen_ticket, sessions>>
        BY <2>3 DEF Drain
    <3>2. \A x \in Opens : Underway(x)' <=> Underway(x)
        BY <2>3 DEF Drain, Goto, AfterDrain, Underway
    <3> QED
        BY <3>1, <3>2, SilentStep
  <2>4. CASE BeginLock(c)
      BY <2>4, CloseAllReaches DEF BeginLock
  <2>5. CASE BeginCutoff(c)
      BY <2>5, CloseAllReaches DEF BeginCutoff
  <2>6. ASSUME NEW o \in Opens, Revalidate(c, o)
        PROVE  [Barrier!Next]_Barrier!vars
    <3>1. UNCHANGED <<generation, gen_ticket>> /\ sessions' \in {sessions, sessions \ {o}}
        BY <2>6 DEF Revalidate, Remove
    <3>2. \A x \in Opens : Underway(x)' <=> Underway(x)
        BY <2>6 DEF Revalidate, Goto, Remove, Underway
    <3> QED
        BY <3>1, <3>2, LeavesOne
  <2>7. ASSUME NEW o \in Opens, SendCommand(c, o)
        PROVE  [Barrier!Next]_Barrier!vars
    <3>1. UNCHANGED <<generation, gen_ticket, sessions>>
        BY <2>7 DEF SendCommand
    <3>2. \A x \in Opens : Underway(x)' <=> Underway(x)
        BY <2>7 DEF SendCommand, Goto, Underway
    <3> QED
        BY <3>1, <3>2, SilentStep
  <2>8. ASSUME NEW o \in Opens, CloseSession(c, o)
        PROVE  [Barrier!Next]_Barrier!vars
    <3>1. UNCHANGED <<generation, gen_ticket>> /\ sessions' \in {sessions, sessions \ {o}}
        BY <2>8 DEF CloseSession, Remove
    <3>2. \A x \in Opens : Underway(x)' <=> Underway(x)
        BY <2>8 DEF CloseSession, Remove, Goto, Underway
    <3> QED
        BY <3>1, <3>2, LeavesOne
  <2>9. ASSUME NEW o \in Opens, LookupSlot(c, o)
        PROVE  [Barrier!Next]_Barrier!vars
    <3>1. UNCHANGED <<generation, gen_ticket, sessions>>
        BY <2>9 DEF LookupSlot
    <3>2. \A x \in Opens : Underway(x)' <=> Underway(x)
        BY <2>9 DEF LookupSlot, Goto, Underway
    <3> QED
        BY <3>1, <3>2, SilentStep
  <2> QED
      BY <1>5, <2>1, <2>2, <2>3, <2>4, <2>5, <2>6, <2>7, <2>8, <2>9 DEF Begin,
         CallerStep
<1>6. CASE UNCHANGED vars
  <2>1. /\ UNCHANGED <<generation, gen_ticket, sessions>>
        /\ \A x \in Opens : Underway(x)' <=> Underway(x)
      BY <1>6 DEF vars, Underway
  <2> QED
      BY <2>1, SilentStep
<1> QED
    BY <1>1, <1>2, <1>3, <1>4, <1>5, <1>6 DEF Next

\* The generation of the cloud registry implements SessionBarrier: whatever the order of open
\* calls, tickets, locks, cutoffs and ends of sockets, an open call that a close_all found
\* under way never becomes a session.
THEOREM CloudImplementsBarrier == Spec => ImplementsBarrier
<1>1. ASSUME Init
      PROVE  Barrier!Init
  <2>1. \A o \in Opens : pc[o] = "idle"
      BY <1>1 DEF Init, Threads
  <2>2. Admitted = {} /\ sessions = {}
      BY <1>1, <2>1 DEF Init, Admitted
  <2> QED
      BY <2>2 DEF Barrier!Init
<1>2. IInv /\ [Next]_vars => [Barrier!Next]_Barrier!vars
    BY BarrierSimulation DEF IInv
<1> QED
    BY <1>1, <1>2, InvHolds, PTL DEF Spec, ImplementsBarrier, Barrier!Spec
==============================================================================
