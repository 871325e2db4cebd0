----------------------- MODULE IpcTerminalSinkProofs -----------------------
(***************************************************************************)
(* Theorems about IpcTerminalSink, for every bound on the queues and on    *)
(* the output: its variables stay in their domains, a registered session   *)
(* has a working sink, nothing is lost silently, and the sink implements   *)
(* the channel of OutputChannel.                                           *)
(*                                                                         *)
(* IInv is the inductive invariant.  Each of its parts is shown to survive *)
(* a step from the whole.                                                  *)
(*                                                                         *)
(* The second half is about TerminalView, the page that receives what the  *)
(* sink emits, with ViewInv as its inductive invariant.  The modules share *)
(* names, so the page is an instance.                                      *)
(***************************************************************************)
EXTENDS IpcTerminalSink, SequenceTheorems, WellFoundedInduction, TLAPS

\* Which queues and which program points go with a phase.
ShapeInv ==
    /\ phase = "pending" =>
          /\ flush = <<>> /\ deferred = <<>> /\ emitted = <<>> /\ ~closed_emitted
          /\ opener \in {"register", "bind", "done"}
    /\ phase = "binding" => queue = <<>> /\ opener \in {"pop", "emit"}
    /\ phase \in {"bound", "failed"} => queue = <<>> /\ flush = <<>> /\ deferred = <<>>
    /\ phase = "bound" => opener \in {"ended", "remove", "done"}
    /\ opener \in {"register", "bind"} => phase \in {"pending", "failed"}
    /\ actor = "emit" => phase = "bound"
    /\ actor \in {"emit", "ended"} => opener \in {"ended", "remove", "done"}
    /\ actor = "ended" => phase \in {"bound", "failed"}

Lacks(s) == \A i \in 1 .. Len(s) : s[i] # Closed

\* Where Closed is, and who knows of it.
ClosedInv ==
    /\ ~saw_closed => Lacks(queue) /\ Lacks(flush) /\ Lacks(deferred)
    /\ opener = "emit" /\ popped = Closed => saw_closed
    /\ saw_closed => actor = "stop"
    /\ delivered => saw_closed
    /\ closed_emitted => saw_closed \/ (from_peer = Closed /\ actor \in {"ended", "stop"})
    /\ phase \in {"pending", "binding"} /\ actor = "stop" => saw_closed

\* Who removed the session.
LiveInv ==
    /\ ended_once \/ opener = "register" => ~registered
    /\ ended_once => opener # "register"
    /\ RegisteredIsLive

\* Every chunk produced is where the phase keeps it.
FlowInv ==
    /\ phase = "pending" => produced = queue
    /\ phase = "binding" => produced = emitted \o (InBinder \o (flush \o deferred))
    /\ phase = "bound" => produced = emitted \o InActor

\* Closed is produced last, so nothing is behind it anywhere.
LastInv ==
    /\ \A i \in 1 .. Len(produced) - 1 : produced[i] # Closed
    /\ actor \in {"select", "output"} => Lacks(produced)
    /\ actor \in {"emit", "ended"} /\ from_peer # Closed => Lacks(produced)
    /\ opener = "emit" /\ popped = Closed => ~closed_emitted /\ phase = "binding"
    /\ closed_emitted /\ phase = "binding" => InBinder = <<>> /\ flush = <<>> /\ deferred = <<>>

IInv == TypeOK /\ ShapeInv /\ ClosedInv /\ LiveInv /\ FlowInv /\ LastInv

----------------------------------------------------------------------------
(* Sequences of chunks.                                                    *)

\* Appending, taking the head and taking the tail of a sequence of chunks.
LEMMA ChunkSeq ==
    /\ <<>> \in Seq(Chunks) /\ Len(<<>>) = 0
    /\ \A s \in Seq(Chunks) : Len(s) \in Nat
    /\ \A s \in Seq(Chunks), c \in Chunks :
          Append(s, c) \in Seq(Chunks) /\ Len(Append(s, c)) = Len(s) + 1
    /\ \A s \in Seq(Chunks) : s # <<>> =>
          /\ Head(s) \in Chunks /\ Tail(s) \in Seq(Chunks)
          /\ Len(Tail(s)) = Len(s) - 1 /\ Len(s) > 0
<1>1. <<>> \in Seq(Chunks) /\ Len(<<>>) = 0
  BY EmptySeq
<1>2. ASSUME NEW s \in Seq(Chunks) PROVE Len(s) \in Nat
  BY LenProperties
<1>3. ASSUME NEW s \in Seq(Chunks), NEW c \in Chunks
      PROVE  Append(s, c) \in Seq(Chunks) /\ Len(Append(s, c)) = Len(s) + 1
  BY AppendProperties
<1>4. ASSUME NEW s \in Seq(Chunks), s # <<>>
      PROVE  /\ Head(s) \in Chunks /\ Tail(s) \in Seq(Chunks)
             /\ Len(Tail(s)) = Len(s) - 1 /\ Len(s) > 0
  <2>1. Len(s) \in Nat \ {0}
    BY <1>4, EmptySeq
  <2>2. QED  BY <1>4, <2>1, HeadTailProperties
<1>5. QED  BY <1>1, <1>2, <1>3, <1>4

\* Lacks of the empty sequence, of an extended one and of a tail.
LEMMA LacksSeq ==
    /\ Lacks(<<>>)
    /\ \A s \in Seq(Chunks), c \in Chunks : Lacks(s) /\ c # Closed => Lacks(Append(s, c))
    /\ \A s \in Seq(Chunks) : s # <<>> /\ Lacks(s) => Head(s) # Closed /\ Lacks(Tail(s))
<1>1. Lacks(<<>>)
  BY EmptySeq DEF Lacks
<1>2. ASSUME NEW s \in Seq(Chunks), NEW c \in Chunks, Lacks(s), c # Closed
      PROVE  Lacks(Append(s, c))
  <2>1. \A i \in 1 .. Len(s) + 1 : i \in 1 .. Len(s) \/ i = Len(s) + 1
    BY LenProperties
  <2>2. QED  BY <1>2, <2>1, AppendProperties DEF Lacks
<1>3. ASSUME NEW s \in Seq(Chunks), s # <<>>, Lacks(s)
      PROVE  Head(s) # Closed /\ Lacks(Tail(s))
  <2>1. Len(s) \in Nat \ {0}
    BY <1>3, EmptySeq
  <2>2. Head(s) = s[1]
    BY <1>3, <2>1
  <2>3. \A i \in 1 .. Len(Tail(s)) : i + 1 \in 1 .. Len(s) /\ Tail(s)[i] = s[i + 1]
    BY <1>3, <2>1, HeadTailProperties
  <2>4. QED  BY <1>3, <2>1, <2>2, <2>3 DEF Lacks
<1>4. QED  BY <1>1, <1>2, <1>3

AppendsBehind(e, b, f, d, c) ==
    Append(e \o (b \o (f \o d)), c) = e \o (b \o (f \o Append(d, c)))

\* Appending to the last of four queues in a row.
LEMMA AppendBehind ==
    ASSUME NEW e \in Seq(Chunks), NEW b \in Seq(Chunks), NEW f \in Seq(Chunks),
           NEW d \in Seq(Chunks), NEW c \in Chunks
    PROVE  AppendsBehind(e, b, f, d, c)
<1>1. <<c>> \in Seq(Chunks)
  OBVIOUS
<1>2. f \o d \in Seq(Chunks) /\ b \o (f \o d) \in Seq(Chunks)
      /\ e \o (b \o (f \o d)) \in Seq(Chunks)
  BY ConcatProperties
<1>3. Append(d, c) = d \o <<c>>
  BY AppendIsConcat
<1>4. Append(e \o (b \o (f \o d)), c) = (e \o (b \o (f \o d))) \o <<c>>
  BY <1>2, AppendIsConcat
<1>5. (e \o (b \o (f \o d))) \o <<c>> = e \o ((b \o (f \o d)) \o <<c>>)
  <2> DEFINE x == b \o (f \o d)
  <2>1. x \in Seq(Chunks) /\ <<c>> \in Seq(Chunks)
    BY <1>1, <1>2
  <2> HIDE DEF x
  <2>2. (e \o x) \o <<c>> = e \o (x \o <<c>>)
    BY <2>1, ConcatAssociative, SMTT(30)
  <2>3. QED  BY <2>2 DEF x
<1>6. (b \o (f \o d)) \o <<c>> = b \o ((f \o d) \o <<c>>)
  <2> DEFINE x == f \o d
  <2>1. x \in Seq(Chunks) /\ <<c>> \in Seq(Chunks)
    BY <1>1, <1>2
  <2> HIDE DEF x
  <2>2. (b \o x) \o <<c>> = b \o (x \o <<c>>)
    BY <2>1, ConcatAssociative, SMTT(30)
  <2>3. QED  BY <2>2 DEF x
<1>7. (f \o d) \o <<c>> = f \o (d \o <<c>>)
  BY <1>1, ConcatAssociative, SMTT(30)
<1>8. QED  BY <1>3, <1>4, <1>5, <1>6, <1>7 DEF AppendsBehind

MovesOver(e, c, d) == Append(e, c) \o d = e \o (<<c>> \o d)

\* Moving a chunk from one end of a queue to the other end of its neighbour.
LEMMA ConcatMoves ==
    ASSUME NEW e \in Seq(Chunks), NEW f \in Seq(Chunks), NEW d \in Seq(Chunks),
           NEW c \in Chunks
    PROVE  /\ e \o <<>> = e /\ <<>> \o e = e
           /\ <<c>> \in Seq(Chunks) /\ f \o d \in Seq(Chunks)
           /\ Append(e, c) = e \o <<c>>
           /\ MovesOver(e, c, d)
           /\ f # <<>> => <<Head(f)>> \o (Tail(f) \o d) = f \o d
           /\ Head(<<c>> \o d) = c /\ Tail(<<c>> \o d) = d /\ <<c>> \o d # <<>>
<1>1. e \o <<>> = e /\ <<>> \o e = e
  BY ConcatEmptySeq
<1>2. <<c>> \in Seq(Chunks) /\ Len(<<c>>) = 1 /\ <<c>>[1] = c
  OBVIOUS
<1>3. f \o d \in Seq(Chunks)
  BY ConcatProperties
<1>4. Append(e, c) = e \o <<c>>
  BY AppendIsConcat
<1>5. MovesOver(e, c, d)
  BY <1>2, <1>4, ConcatAssociative DEF MovesOver
<1>6. ASSUME f # <<>> PROVE <<Head(f)>> \o (Tail(f) \o d) = f \o d
  <2>1. Head(f) \in Chunks /\ Tail(f) \in Seq(Chunks) /\ <<Head(f)>> \in Seq(Chunks)
    BY <1>6, HeadTailProperties
  <2>2. <<Head(f)>> \o Tail(f) = f
    <3>1. Len(f) \in Nat \ {0} /\ Head(f) = f[1]
      BY <1>6, EmptySeq
    <3>2. Len(<<Head(f)>>) = 1 /\ <<Head(f)>>[1] = f[1]
      BY <3>1
    <3>3. Len(Tail(f)) = Len(f) - 1 /\ \A i \in 1 .. Len(Tail(f)) : Tail(f)[i] = f[i + 1]
      BY <1>6, HeadTailProperties
    <3>4. Len(<<Head(f)>> \o Tail(f)) = Len(f) /\ <<Head(f)>> \o Tail(f) \in Seq(Chunks)
      BY <2>1, <3>1, <3>2, <3>3, ConcatProperties
    <3>5. ASSUME NEW i \in 1 .. Len(f) PROVE (<<Head(f)>> \o Tail(f))[i] = f[i]
      <4>1. i \in 1 .. Len(<<Head(f)>>) + Len(Tail(f))
        BY <3>1, <3>2, <3>3
      <4>2. (<<Head(f)>> \o Tail(f))[i]
              = IF i <= Len(<<Head(f)>>) THEN <<Head(f)>>[i] ELSE Tail(f)[i - Len(<<Head(f)>>)]
        BY <2>1, <4>1, ConcatProperties
      <4>3. CASE i = 1
        BY <3>2, <4>2, <4>3
      <4>4. CASE i # 1
        <5>1. i - 1 \in 1 .. Len(Tail(f)) /\ ~(i <= 1) /\ (i - 1) + 1 = i
          BY <3>1, <3>3, <4>4
        <5>2. QED  BY <3>2, <3>3, <4>2, <5>1
      <4>5. QED  BY <4>3, <4>4
    <3>6. QED  BY <3>4, <3>5, SeqEqual
  <2>3. QED  BY <2>1, <2>2, ConcatAssociative
<1>7. Head(<<c>> \o d) = c /\ Tail(<<c>> \o d) = d /\ <<c>> \o d # <<>>
  <2>1. /\ <<c>> \o d \in Seq(Chunks) /\ Len(<<c>> \o d) = 1 + Len(d) /\ Len(d) \in Nat
        /\ \A i \in 1 .. 1 + Len(d) :
              (<<c>> \o d)[i] = IF i <= 1 THEN <<c>>[i] ELSE d[i - 1]
    BY <1>2, ConcatProperties, LenProperties
  <2>2. <<c>> \o d # <<>>
    BY <2>1
  <2>3. Head(<<c>> \o d) = c
    BY <1>2, <2>1, <2>2
  <2>4. /\ Tail(<<c>> \o d) \in Seq(Chunks) /\ Len(Tail(<<c>> \o d)) = Len(d)
        /\ \A i \in 1 .. Len(d) : Tail(<<c>> \o d)[i] = (<<c>> \o d)[i + 1]
    BY <2>1, <2>2, HeadTailProperties
  <2>5. \A i \in 1 .. Len(d) : (<<c>> \o d)[i + 1] = d[i]
    BY <2>1
  <2>6. Tail(<<c>> \o d) = d
    BY <2>4, <2>5, SeqEqual
  <2>7. QED  BY <2>2, <2>3, <2>6
<1>8. QED  BY <1>1, <1>2, <1>3, <1>4, <1>5, <1>6, <1>7

----------------------------------------------------------------------------
(* Types and shape.                                                        *)

\* A step keeps every variable in its domain.
LEMMA TypeStep == IInv /\ [Next]_vars => TypeOK'
<1> SUFFICES ASSUME IInv, [Next]_vars PROVE TypeOK'
  OBVIOUS
<1> USE SinkAssumption, ChunkSeq
<1>a. TypeOK /\ ShapeInv /\ Closed \in Chunks /\ Data \subseteq Chunks /\ MaxPending \in Nat
  BY DEF IInv, Chunks
<1>1. CASE ReceiveData
  <2>1. received + 1 \in Data /\ received + 1 \in 0 .. MaxOutput
    BY <1>1, <1>a DEF ReceiveData, TypeOK, Data
  <2>2. QED
    BY <1>1, <1>a, <2>1 DEF ReceiveData, TypeOK, sinkVars, onceVars, openVars, regVars, history
<1>2. CASE ReceiveEnd
  BY <1>2, <1>a DEF ReceiveEnd, TypeOK, sinkVars, onceVars, openVars, regVars, history
<1>3. CASE OnOutput
  <2>1. produced' \in Seq(Chunks) /\ actor' \in {"emit", "stop", "select"}
    BY <1>3, <1>a DEF OnOutput, AfterOutput, TypeOK
  <2>2. UNCHANGED <<from_peer, received, onceVars, openVars, regVars, emitted>>
    BY <1>3 DEF OnOutput
  <2>3. CASE Overflow
    BY <1>a, <2>1, <2>2, <2>3 DEF Overflow, TypeOK, onceVars, openVars, regVars
  <2>4. CASE QueueUp /\ ~Full
    <3>1. Len(queue) + 1 <= MaxPending
      BY <1>a, <2>4 DEF Full, TypeOK
    <3>2. QED
      BY <1>a, <2>1, <2>2, <2>4, <3>1 DEF QueueUp, TypeOK, onceVars, openVars, regVars
  <2>5. CASE Defer /\ ~Full
    <3>1. Len(flush) + (Len(deferred) + 1) <= MaxPending
      BY <1>a, <2>5 DEF Full, TypeOK
    <3>2. QED
      BY <1>a, <2>1, <2>2, <2>5, <3>1 DEF Defer, TypeOK, onceVars, openVars, regVars
  <2>6. CASE UNCHANGED sinkVars
    BY <1>a, <2>1, <2>2, <2>6 DEF sinkVars, TypeOK, onceVars, openVars, regVars
  <2>7. QED  BY <1>3, <2>3, <2>4, <2>5, <2>6 DEF OnOutput
<1>4. CASE ActorEmits
  <2>1. UNCHANGED <<from_peer, received, ended_once, openVars, regVars, produced, saw_closed>>
    BY <1>4 DEF ActorEmits, EmitFails, sinkVars
  <2>2. closed_emitted' \in BOOLEAN
    BY <1>4, <1>a, Zenon DEF ActorEmits, Emit, EmitFails, TypeOK
  <2>3. emitted' \in Seq(Chunks) /\ actor' \in {"select", "ended", "stop"}
    BY <1>4, <1>a DEF ActorEmits, AfterOutput, Emit, EmitFails, TypeOK
  <2>4. \/ UNCHANGED <<phase, queue, flush, deferred>>
        \/ phase' = "failed" /\ queue' = <<>> /\ flush' = <<>> /\ deferred' = <<>>
    BY <1>4 DEF ActorEmits, EmitFails, sinkVars
  <2>5. /\ phase' \in {"pending", "binding", "bound", "failed"}
        /\ queue' \in Seq(Chunks) /\ flush' \in Seq(Chunks) /\ deferred' \in Seq(Chunks)
        /\ Len(queue') <= MaxPending /\ Len(flush') + Len(deferred') <= MaxPending
    <3>1. CASE UNCHANGED <<phase, queue, flush, deferred>>
      BY <1>a, <3>1 DEF TypeOK
    <3>2. CASE phase' = "failed" /\ queue' = <<>> /\ flush' = <<>> /\ deferred' = <<>>
      BY <1>a, <3>2
    <3>3. QED  BY <2>4, <3>1, <3>2
  <2>6. QED
    BY <1>a, <2>1, <2>2, <2>3, <2>5 DEF TypeOK, openVars, regVars
<1>5. CASE ActorEnds
  <2>1. UNCHANGED <<from_peer, received, sinkVars, closed_emitted, openVars, history, cancelled>>
    BY <1>5 DEF ActorEnds, InvokeEnded, RemoveSession, regVars
  <2>2. ended_once' \in BOOLEAN /\ registered' \in BOOLEAN /\ closing' \in BOOLEAN
    BY <1>5, <1>a, Zenon DEF ActorEnds, InvokeEnded, RemoveSession, regVars, TypeOK
  <2>3. actor' \in {"select", "stop"}
    BY <1>5 DEF ActorEnds, AfterOutput
  <2>4. QED
    BY <1>a, <2>1, <2>2, <2>3 DEF TypeOK, sinkVars, openVars, history
<1>6. CASE Register
  <2>1. UNCHANGED <<popped, delivered, sinkVars, onceVars, actorVars, closing, history>>
    BY <1>6 DEF Register
  <2>2. registered' \in BOOLEAN /\ cancelled' \in BOOLEAN
    BY <1>6, <1>a, Zenon DEF Register, TypeOK
  <2>3. opener' \in {"bind", "done"} /\ outcome' \in {outcome, "refused"}
    BY <1>6 DEF Register
  <2>4. QED
    BY <1>a, <2>1, <2>2, <2>3 DEF TypeOK, sinkVars, onceVars, actorVars, history
<1>7. CASE BeginBind
  BY <1>7, <1>a DEF BeginBind, FailBind, TypeOK, ShapeInv, sinkVars, onceVars, actorVars,
                    regVars, history
<1>8. CASE Pop
  <2>1. UNCHANGED <<queue, saw_closed, delivered, onceVars, actorVars, regVars, history>>
    BY <1>8 DEF Pop
  <2>2. CASE flush # <<>> /\ phase = "binding"
    <3>1. /\ popped' = Head(flush) /\ flush' = Tail(flush) /\ opener' = "emit"
          /\ UNCHANGED <<phase, deferred, outcome>>
      BY <1>8, <2>2 DEF Pop
    <3>2. popped' \in Chunks /\ flush' \in Seq(Chunks) /\ Len(flush') = Len(flush) - 1
      BY <1>a, <2>2, <3>1 DEF TypeOK
    <3>3. Len(flush) \in Nat /\ Len(deferred) \in Nat
      BY <1>a DEF TypeOK
    <3>4. QED
      BY <1>a, <2>1, <3>1, <3>2, <3>3 DEF TypeOK, onceVars, actorVars, regVars, history
  <2>3. CASE flush = <<>> /\ deferred # <<>> /\ phase = "binding"
    <3>1. /\ popped' = Head(deferred) /\ deferred' = Tail(deferred) /\ opener' = "emit"
          /\ UNCHANGED <<phase, flush, outcome>>
      BY <1>8, <2>3 DEF Pop
    <3>2. popped' \in Chunks /\ deferred' \in Seq(Chunks) /\ Len(deferred') = Len(deferred) - 1
      BY <1>a, <2>3, <3>1 DEF TypeOK
    <3>3. Len(flush) \in Nat /\ Len(deferred) \in Nat
      BY <1>a DEF TypeOK
    <3>4. QED
      BY <1>a, <2>1, <3>1, <3>2, <3>3 DEF TypeOK, onceVars, actorVars, regVars, history
  <2>4. CASE (flush = <<>> /\ deferred = <<>>) \/ phase # "binding"
    BY <1>8, <1>a, <2>1, <2>4 DEF Pop, FailBind, TypeOK, onceVars, actorVars, regVars, history
  <2>5. QED  BY <2>2, <2>3, <2>4
<1>9. CASE BinderEmits
  <2>1. UNCHANGED <<popped, ended_once, actorVars, regVars, produced, saw_closed>>
    BY <1>9 DEF BinderEmits, EmitFails, sinkVars
  <2>2. closed_emitted' \in BOOLEAN /\ delivered' \in BOOLEAN
    BY <1>9, <1>a, Zenon DEF BinderEmits, Emit, EmitFails, TypeOK
  <2>3. /\ emitted' \in Seq(Chunks) /\ opener' \in {"pop", "remove"}
        /\ outcome' \in {outcome, "error"}
    <3>1. opener' \in {"pop", "remove"} /\ outcome' \in {outcome, "error"}
      BY <1>9 DEF BinderEmits, FailBind
    <3>2. emitted' = emitted \/ emitted' = Append(emitted, popped)
      BY <1>9 DEF BinderEmits, Emit, EmitFails
    <3>3. QED  BY <1>a, <3>1, <3>2 DEF TypeOK
  <2>4. \/ UNCHANGED <<phase, queue, flush, deferred>>
        \/ phase' = "failed" /\ queue' = <<>> /\ flush' = <<>> /\ deferred' = <<>>
    BY <1>9 DEF BinderEmits, EmitFails, sinkVars
  <2>5. /\ phase' \in {"pending", "binding", "bound", "failed"}
        /\ queue' \in Seq(Chunks) /\ flush' \in Seq(Chunks) /\ deferred' \in Seq(Chunks)
        /\ Len(queue') <= MaxPending /\ Len(flush') + Len(deferred') <= MaxPending
    <3>1. CASE UNCHANGED <<phase, queue, flush, deferred>>
      BY <1>a, <3>1 DEF TypeOK
    <3>2. CASE phase' = "failed" /\ queue' = <<>> /\ flush' = <<>> /\ deferred' = <<>>
      BY <1>a, <3>2
    <3>3. QED  BY <2>4, <3>1, <3>2
  <2>6. QED
    BY <1>a, <2>1, <2>2, <2>3, <2>5 DEF TypeOK, actorVars, regVars
<1>10. CASE BinderEnds
  <2>1. UNCHANGED <<popped, delivered, outcome, sinkVars, closed_emitted, actorVars, history,
                    cancelled>>
    BY <1>10 DEF BinderEnds, InvokeEnded, RemoveSession, regVars
  <2>2. ended_once' \in BOOLEAN /\ registered' \in BOOLEAN /\ closing' \in BOOLEAN
    BY <1>10, <1>a, Zenon DEF BinderEnds, InvokeEnded, RemoveSession, regVars, TypeOK
  <2>3. opener' = "remove"
    BY <1>10 DEF BinderEnds
  <2>4. QED
    BY <1>a, <2>1, <2>2, <2>3 DEF TypeOK, sinkVars, actorVars, history
<1>11. CASE Remove
  <2>1. UNCHANGED <<popped, delivered, outcome, sinkVars, onceVars, actorVars, history, cancelled>>
    BY <1>11 DEF Remove, RemoveAfterBind, RemoveSession
  <2>2. opener' = "done" /\ registered' = FALSE /\ closing' = (closing \/ registered)
    BY <1>11 DEF Remove, RemoveAfterBind, RemoveSession
  <2>3. registered' \in BOOLEAN /\ closing' \in BOOLEAN
    BY <2>2
  <2>4. QED
    BY <1>a, <2>1, <2>2, <2>3 DEF TypeOK, sinkVars, onceVars, actorVars, history
<1>12. CASE TakeOut
  <2>1. UNCHANGED <<sinkVars, onceVars, actorVars, openVars, history, cancelled>>
    BY <1>12 DEF TakeOut, RemoveSession
  <2>2. registered' \in BOOLEAN /\ closing' \in BOOLEAN
    BY <1>12, Zenon DEF TakeOut, RemoveSession
  <2>3. QED
    BY <1>a, <2>1, <2>2 DEF TypeOK, sinkVars, onceVars, actorVars, openVars, history
<1>13. CASE CloseTransport
  <2>1. UNCHANGED <<sinkVars, onceVars, actorVars, openVars, registered, history>>
    BY <1>13 DEF CloseTransport
  <2>2. closing' \in BOOLEAN /\ cancelled' \in BOOLEAN
    BY <1>13, Zenon DEF CloseTransport
  <2>3. QED
    BY <1>a, <2>1, <2>2 DEF TypeOK, sinkVars, onceVars, actorVars, openVars, history
<1>14. CASE UNCHANGED vars
  BY <1>14, <1>a DEF vars, TypeOK, sinkVars, onceVars, actorVars, openVars, regVars, history
<1>15. QED
  BY <1>1, <1>2, <1>3, <1>4, <1>5, <1>6, <1>7, <1>8, <1>9, <1>10, <1>11, <1>12, <1>13, <1>14
     DEF Next, Actor, Opener

\* A step keeps the queues, program points and phase together.
LEMMA ShapeStep == IInv /\ [Next]_vars => ShapeInv'
<1> SUFFICES ASSUME IInv, [Next]_vars PROVE ShapeInv'
  OBVIOUS
<1>a. TypeOK /\ ShapeInv /\ ClosedInv
  BY DEF IInv
<1>1. CASE ReceiveData
  BY <1>1, <1>a DEF ReceiveData, ShapeInv, sinkVars, onceVars, actorVars, openVars, regVars,
       history
<1>2. CASE ReceiveEnd
  BY <1>2, <1>a DEF ReceiveEnd, ShapeInv, sinkVars, onceVars, actorVars, openVars, regVars,
       history
<1>3. CASE OnOutput
  BY <1>3, <1>a DEF OnOutput, Overflow, QueueUp, Defer, AfterOutput, ShapeInv, sinkVars,
       onceVars, actorVars, openVars, regVars, history
<1>4. CASE ActorEmits
  BY <1>4, <1>a DEF ActorEmits, Repeated, Emit, EmitFails, AfterOutput, ShapeInv, sinkVars,
       onceVars, actorVars, openVars, regVars, history
<1>5. CASE ActorEnds
  BY <1>5, <1>a DEF ActorEnds, InvokeEnded, RemoveSession, AfterOutput, ShapeInv, sinkVars,
       onceVars, actorVars, openVars, regVars, history
<1>6. CASE Register
  BY <1>6, <1>a DEF Register, ShapeInv, sinkVars, onceVars, actorVars, openVars, regVars,
       history
<1>7. CASE BeginBind
  BY <1>7, <1>a DEF BeginBind, FailBind, ShapeInv, sinkVars, onceVars, actorVars, openVars,
       regVars, history
<1>8. CASE Pop
  BY <1>8, <1>a DEF Pop, FailBind, EndedEarly, ShapeInv, sinkVars, onceVars, actorVars,
       openVars, regVars, history
<1>9. CASE BinderEmits
  BY <1>9, <1>a DEF BinderEmits, Repeated, Emit, EmitFails, FailBind, ShapeInv, sinkVars,
       onceVars, actorVars, openVars, regVars, history
<1>10. CASE BinderEnds
  BY <1>10, <1>a DEF BinderEnds, InvokeEnded, RemoveSession, ShapeInv, sinkVars, onceVars,
       actorVars, openVars, regVars, history
<1>11. CASE Remove
  BY <1>11, <1>a DEF Remove, RemoveAfterBind, RemoveSession, ShapeInv, sinkVars, onceVars,
       actorVars, openVars, regVars, history
<1>12. CASE TakeOut
  BY <1>12, <1>a DEF TakeOut, RemoveSession, ShapeInv, sinkVars, onceVars, actorVars,
       openVars, regVars, history
<1>13. CASE CloseTransport
  BY <1>13, <1>a DEF CloseTransport, ShapeInv, sinkVars, onceVars, actorVars, openVars,
       regVars, history
<1>14. CASE UNCHANGED vars
  BY <1>14, <1>a DEF vars, ShapeInv, sinkVars, onceVars, actorVars, openVars, regVars, history
<1>15. QED
  BY <1>1, <1>2, <1>3, <1>4, <1>5, <1>6, <1>7, <1>8, <1>9, <1>10, <1>11, <1>12, <1>13, <1>14
       DEF Next, Actor, Opener

\* A step keeps registered sessions on live sinks.
LEMMA LiveStep == IInv /\ [Next]_vars => LiveInv'
<1> SUFFICES ASSUME IInv, [Next]_vars PROVE LiveInv'
  OBVIOUS
<1>a. TypeOK /\ ShapeInv /\ ClosedInv /\ LiveInv
  BY DEF IInv
<1>1. CASE ReceiveData
  BY <1>1, <1>a DEF ReceiveData, ShapeInv, LiveInv, ClosedInv, RegisteredIsLive, sinkVars,
       onceVars, actorVars, openVars, regVars, history
<1>2. CASE ReceiveEnd
  BY <1>2, <1>a DEF ReceiveEnd, ShapeInv, LiveInv, ClosedInv, RegisteredIsLive, sinkVars,
       onceVars, actorVars, openVars, regVars, history
<1>3. CASE OnOutput
  BY <1>3, <1>a DEF OnOutput, Overflow, QueueUp, Defer, AfterOutput, ShapeInv, LiveInv,
       ClosedInv, RegisteredIsLive, sinkVars, onceVars, actorVars, openVars, regVars,
       history
<1>4. CASE ActorEmits
  BY <1>4, <1>a DEF ActorEmits, Repeated, Emit, EmitFails, AfterOutput, ShapeInv, LiveInv,
       ClosedInv, RegisteredIsLive, sinkVars, onceVars, actorVars, openVars, regVars,
       history
<1>5. CASE ActorEnds
  BY <1>5, <1>a DEF ActorEnds, InvokeEnded, RemoveSession, AfterOutput, ShapeInv, LiveInv,
       ClosedInv, RegisteredIsLive, sinkVars, onceVars, actorVars, openVars, regVars,
       history
<1>6. CASE Register
  BY <1>6, <1>a DEF Register, ShapeInv, LiveInv, ClosedInv, RegisteredIsLive, sinkVars,
       onceVars, actorVars, openVars, regVars, history
<1>7. CASE BeginBind
  BY <1>7, <1>a DEF BeginBind, FailBind, ShapeInv, LiveInv, ClosedInv, RegisteredIsLive,
       sinkVars, onceVars, actorVars, openVars, regVars, history
<1>8. CASE Pop
  BY <1>8, <1>a DEF Pop, FailBind, EndedEarly, ShapeInv, LiveInv, ClosedInv,
       RegisteredIsLive, sinkVars, onceVars, actorVars, openVars, regVars, history
<1>9. CASE BinderEmits
  BY <1>9, <1>a DEF BinderEmits, Repeated, Emit, EmitFails, FailBind, ShapeInv, LiveInv,
       ClosedInv, RegisteredIsLive, sinkVars, onceVars, actorVars, openVars, regVars,
       history
<1>10. CASE BinderEnds
  BY <1>10, <1>a DEF BinderEnds, InvokeEnded, RemoveSession, ShapeInv, LiveInv, ClosedInv,
       RegisteredIsLive, sinkVars, onceVars, actorVars, openVars, regVars, history
<1>11. CASE Remove
  BY <1>11, <1>a DEF Remove, RemoveAfterBind, RemoveSession, ShapeInv, LiveInv, ClosedInv,
       RegisteredIsLive, sinkVars, onceVars, actorVars, openVars, regVars, history
<1>12. CASE TakeOut
  BY <1>12, <1>a DEF TakeOut, RemoveSession, ShapeInv, LiveInv, ClosedInv, RegisteredIsLive,
       sinkVars, onceVars, actorVars, openVars, regVars, history
<1>13. CASE CloseTransport
  BY <1>13, <1>a DEF CloseTransport, ShapeInv, LiveInv, ClosedInv, RegisteredIsLive,
       sinkVars, onceVars, actorVars, openVars, regVars, history
<1>14. CASE UNCHANGED vars
  BY <1>14, <1>a DEF vars, ShapeInv, LiveInv, ClosedInv, RegisteredIsLive, sinkVars,
       onceVars, actorVars, openVars, regVars, history
<1>15. QED
  BY <1>1, <1>2, <1>3, <1>4, <1>5, <1>6, <1>7, <1>8, <1>9, <1>10, <1>11, <1>12, <1>13, <1>14
       DEF Next, Actor, Opener

\* A step keeps track of Closed.
LEMMA ClosedStep == IInv /\ [Next]_vars => ClosedInv'
<1> SUFFICES ASSUME IInv, [Next]_vars PROVE ClosedInv'
  OBVIOUS
<1>a. TypeOK /\ ShapeInv /\ ClosedInv
  BY DEF IInv
<1>1. CASE ReceiveData
  BY <1>1, <1>a DEF ReceiveData, ShapeInv, ClosedInv, sinkVars, onceVars, actorVars,
       openVars, regVars, history
<1>2. CASE ReceiveEnd
  BY <1>2, <1>a DEF ReceiveEnd, ShapeInv, ClosedInv, sinkVars, onceVars, actorVars,
       openVars, regVars, history
<1>3. CASE OnOutput
  <2>1. /\ actor = "output" /\ ~saw_closed /\ ~delivered /\ ~closed_emitted
        /\ opener = "emit" => popped # Closed
        /\ UNCHANGED <<from_peer, closed_emitted, opener, popped, delivered>>
    BY <1>3, <1>a DEF OnOutput, ClosedInv, onceVars, openVars
  <2>2. CASE phase \in {"pending", "binding"} /\ Overflow
    BY <1>3, <1>a, <2>1, <2>2, LacksSeq DEF OnOutput, Overflow, AfterOutput, ClosedInv
  <2>3. CASE phase = "pending" /\ QueueUp
    <3>1. /\ UNCHANGED <<phase, flush, deferred>> 
          /\ (saw_closed' <=> from_peer = Closed)
          /\ actor' = AfterOutput
      BY <1>3, <2>1, <2>3 DEF OnOutput, QueueUp
    <3>2. from_peer # Closed => Lacks(queue')
      BY <1>a, <2>1, <2>3, LacksSeq DEF QueueUp, ClosedInv, TypeOK
    <3>3. QED  BY <1>a, <2>1, <3>1, <3>2 DEF AfterOutput, ClosedInv
  <2>4. CASE phase = "binding" /\ Defer
    <3>1. /\ UNCHANGED <<phase, flush, queue>> 
          /\ (saw_closed' <=> from_peer = Closed)
          /\ actor' = AfterOutput
      BY <1>3, <2>1, <2>4 DEF OnOutput, Defer
    <3>2. from_peer # Closed => Lacks(deferred')
      BY <1>a, <2>1, <2>4, LacksSeq DEF Defer, ClosedInv, TypeOK
    <3>3. QED  BY <1>a, <2>1, <3>1, <3>2 DEF AfterOutput, ClosedInv
  <2>5. CASE phase \in {"bound", "failed"} /\ UNCHANGED sinkVars
    BY <1>3, <1>a, <2>1, <2>5 DEF OnOutput, AfterOutput, ClosedInv, sinkVars
  <2>6. QED  BY <1>3, <2>2, <2>3, <2>4, <2>5 DEF OnOutput
<1>4. CASE ActorEmits
  <2>1. /\ actor = "emit" /\ phase = "bound" /\ opener # "emit"
        /\ ~saw_closed /\ ~delivered /\ ~closed_emitted
        /\ UNCHANGED <<from_peer, saw_closed, delivered, opener, popped>>
    BY <1>4, <1>a DEF ActorEmits, EmitFails, ShapeInv, ClosedInv, sinkVars, openVars
  <2>2. \/ UNCHANGED <<phase, queue, flush, deferred>>
        \/ phase' = "failed" /\ queue' = <<>> /\ flush' = <<>> /\ deferred' = <<>>
    BY <1>4 DEF ActorEmits, EmitFails, sinkVars
  <2>3. Lacks(queue') /\ Lacks(flush') /\ Lacks(deferred') /\ phase' \in {"bound", "failed"}
    BY <1>a, <2>1, <2>2, LacksSeq DEF ClosedInv
  <2>4. closed_emitted' => from_peer = Closed /\ actor' = "ended"
    BY <1>4, <2>1 DEF ActorEmits, Repeated, Emit, EmitFails
  <2>5. QED  BY <1>a, <2>1, <2>3, <2>4 DEF ClosedInv
<1>5. CASE ActorEnds
  BY <1>5, <1>a DEF ActorEnds, InvokeEnded, RemoveSession, AfterOutput, ShapeInv, ClosedInv,
       sinkVars, onceVars, actorVars, openVars, regVars, history
<1>6. CASE Register
  BY <1>6, <1>a DEF Register, ShapeInv, ClosedInv, sinkVars, onceVars, actorVars, openVars,
       regVars, history
<1>7. CASE BeginBind
  BY <1>7, <1>a DEF BeginBind, FailBind, ShapeInv, ClosedInv, sinkVars, onceVars, actorVars,
       openVars, regVars, history
<1>8. CASE Pop
  <2>1. UNCHANGED <<queue, saw_closed, delivered, onceVars, actorVars>>
    BY <1>8 DEF Pop
  <2>2. CASE phase = "binding" /\ flush # <<>>
    <3>1. /\ popped' = Head(flush) /\ flush' = Tail(flush) /\ UNCHANGED <<phase, deferred>>
      BY <1>8, <2>2 DEF Pop
    <3>2. ~saw_closed => popped' # Closed /\ Lacks(flush')
      BY <1>a, <2>2, <3>1, LacksSeq DEF ClosedInv, TypeOK
    <3>3. QED  BY <1>a, <2>1, <3>1, <3>2 DEF ClosedInv, onceVars, actorVars
  <2>3. CASE phase = "binding" /\ flush = <<>> /\ deferred # <<>>
    <3>1. /\ popped' = Head(deferred) /\ deferred' = Tail(deferred) /\ UNCHANGED <<phase, flush>>
      BY <1>8, <2>3 DEF Pop
    <3>2. ~saw_closed => popped' # Closed /\ Lacks(deferred')
      BY <1>a, <2>3, <3>1, LacksSeq DEF ClosedInv, TypeOK
    <3>3. QED  BY <1>a, <2>1, <3>1, <3>2 DEF ClosedInv, onceVars, actorVars
  <2>4. CASE (flush = <<>> /\ deferred = <<>>) \/ phase # "binding"
    <3>1. UNCHANGED <<flush, deferred>> /\ opener' # "emit" /\ phase' \in {phase, "bound"}
      BY <1>8, <2>4 DEF Pop, FailBind
    <3>2. QED  BY <1>a, <2>1, <3>1 DEF ClosedInv, onceVars, actorVars
  <2>5. QED  BY <2>2, <2>3, <2>4
<1>9. CASE BinderEmits
  <2>1. /\ opener = "emit" /\ UNCHANGED <<saw_closed, actor, from_peer, popped>>
        /\ (popped = Closed => saw_closed)
    BY <1>9, <1>a DEF BinderEmits, EmitFails, ClosedInv, sinkVars, actorVars
  <2>2. \/ UNCHANGED <<phase, queue, flush, deferred>>
        \/ phase' = "failed" /\ queue' = <<>> /\ flush' = <<>> /\ deferred' = <<>>
    BY <1>9 DEF BinderEmits, EmitFails, sinkVars
  <2>3. /\ ~saw_closed => Lacks(queue') /\ Lacks(flush') /\ Lacks(deferred')
        /\ phase' \in {phase, "failed"}
    BY <1>a, <2>2, LacksSeq DEF ClosedInv
  <2>4. /\ closed_emitted' => closed_emitted \/ saw_closed
        /\ delivered' => delivered \/ saw_closed
        /\ opener' # "emit"
    <3>1. CASE UNCHANGED <<closed_emitted, delivered>> /\ opener' = "pop"
      BY <3>1
    <3>2. CASE /\ closed_emitted' = (closed_emitted \/ popped = Closed)
               /\ delivered' = (delivered \/ popped = Closed) /\ opener' = "pop"
      BY <2>1, <3>2
    <3>3. CASE /\ closed_emitted' = (closed_emitted \/ popped = Closed)
               /\ UNCHANGED delivered /\ opener' = "remove"
      BY <2>1, <3>3
    <3>4. QED  BY <1>9, <3>1, <3>2, <3>3 DEF BinderEmits, Emit, EmitFails, FailBind
  <2>5. QED  BY <1>a, <2>1, <2>3, <2>4 DEF ClosedInv
<1>10. CASE BinderEnds
  BY <1>10, <1>a DEF BinderEnds, InvokeEnded, RemoveSession, ShapeInv, ClosedInv, sinkVars,
       onceVars, actorVars, openVars, regVars, history
<1>11. CASE Remove
  BY <1>11, <1>a DEF Remove, RemoveAfterBind, RemoveSession, ShapeInv, ClosedInv, sinkVars,
       onceVars, actorVars, openVars, regVars, history
<1>12. CASE TakeOut
  BY <1>12, <1>a DEF TakeOut, RemoveSession, ShapeInv, ClosedInv, sinkVars, onceVars,
       actorVars, openVars, regVars, history
<1>13. CASE CloseTransport
  BY <1>13, <1>a DEF CloseTransport, ShapeInv, ClosedInv, sinkVars, onceVars, actorVars,
       openVars, regVars, history
<1>14. CASE UNCHANGED vars
  BY <1>14, <1>a DEF vars, ShapeInv, ClosedInv, sinkVars, onceVars, actorVars, openVars,
       regVars, history
<1>15. QED
  BY <1>1, <1>2, <1>3, <1>4, <1>5, <1>6, <1>7, <1>8, <1>9, <1>10, <1>11, <1>12, <1>13, <1>14
       DEF Next, Actor, Opener

\* A step keeps every chunk in its place.
LEMMA FlowStep == IInv /\ [Next]_vars => FlowInv'
<1> SUFFICES ASSUME IInv, [Next]_vars PROVE FlowInv'
  OBVIOUS
<1>a. TypeOK /\ ShapeInv /\ ClosedInv /\ FlowInv /\ LastInv
  BY DEF IInv
<1>1. CASE ReceiveData
  BY <1>1, <1>a DEF ReceiveData, ShapeInv, FlowInv, InBinder, InActor, sinkVars, onceVars,
       actorVars, openVars, regVars, history
<1>2. CASE ReceiveEnd
  BY <1>2, <1>a DEF ReceiveEnd, ShapeInv, FlowInv, InBinder, InActor, sinkVars, onceVars,
       actorVars, openVars, regVars, history
<1>3. CASE OnOutput
  <2>1. /\ actor = "output" /\ from_peer \in Chunks
        /\ produced' = Append(produced, from_peer)
        /\ UNCHANGED <<from_peer, emitted, opener, popped>>
        /\ phase = "bound" => actor' = "emit"
    BY <1>3, <1>a DEF OnOutput, TypeOK, openVars
  <2>2. CASE phase \in {"pending", "binding"} /\ Overflow
    BY <2>2 DEF Overflow, FlowInv
  <2>3. CASE phase = "pending" /\ QueueUp
    BY <1>a, <2>1, <2>3 DEF QueueUp, FlowInv
  <2>4. CASE phase = "binding" /\ Defer
    <3>1. InBinder' = InBinder /\ InBinder \in Seq(Chunks)
      BY <1>a, <2>1 DEF InBinder, TypeOK
    <3>2. Append(emitted \o (InBinder \o (flush \o deferred)), from_peer)
             = emitted \o (InBinder \o (flush \o Append(deferred, from_peer)))
      <4>1. /\ emitted \in Seq(Chunks) /\ InBinder \in Seq(Chunks) /\ flush \in Seq(Chunks)
            /\ deferred \in Seq(Chunks) /\ from_peer \in Chunks
        BY <1>a, <2>1, <3>1 DEF TypeOK
      <4>2. AppendsBehind(emitted, InBinder, flush, deferred, from_peer)
        BY <4>1, AppendBehind
      <4>3. QED  BY <4>2 DEF AppendsBehind
    <3>3. produced = emitted \o (InBinder \o (flush \o deferred))
      BY <1>a, <2>4 DEF FlowInv
    <3>4. QED  BY <2>1, <2>4, <3>1, <3>2, <3>3 DEF Defer, FlowInv
  <2>5. CASE phase = "bound" /\ UNCHANGED sinkVars
    <3>1. InActor = <<>> /\ InActor' = <<from_peer>>
      BY <2>1, <2>5 DEF InActor
    <3>2. produced = emitted \o <<>>
      BY <1>a, <2>5, <3>1 DEF FlowInv
    <3>3. emitted \o <<>> = emitted /\ Append(emitted, from_peer) = emitted \o <<from_peer>>
      BY <1>a, <2>1, ConcatMoves DEF TypeOK
    <3>4. QED  BY <2>1, <2>5, <3>1, <3>2, <3>3 DEF sinkVars, FlowInv
  <2>6. CASE phase = "failed" /\ UNCHANGED sinkVars
    BY <2>6 DEF sinkVars, FlowInv
  <2>7. QED  BY <1>3, <2>2, <2>3, <2>4, <2>5, <2>6 DEF OnOutput
<1>4. CASE ActorEmits
  <2>1. /\ actor = "emit" /\ phase = "bound" /\ produced' = produced /\ actor' # "emit"
        /\ from_peer \in Chunks
    BY <1>4, <1>a DEF ActorEmits, AfterOutput, ShapeInv, TypeOK
  <2>2. ~Repeated(from_peer)
    BY <1>a, <2>1 DEF Repeated, ClosedInv
  <2>3. CASE Emit(from_peer) /\ UNCHANGED sinkVars
    <3>1. produced = emitted \o <<from_peer>> /\ InActor' = <<>> /\ phase' = "bound"
      BY <1>a, <2>1, <2>3 DEF FlowInv, InActor, sinkVars
    <3>2. /\ emitted' = Append(emitted, from_peer) /\ emitted' \in Seq(Chunks)
      BY <1>a, <2>1, <2>3, ChunkSeq DEF Emit, TypeOK
    <3>3. Append(emitted, from_peer) = emitted \o <<from_peer>> /\ emitted' \o <<>> = emitted'
      BY <1>a, <2>1, <3>2, ConcatMoves DEF TypeOK
    <3>4. QED  BY <2>1, <3>1, <3>2, <3>3 DEF FlowInv
  <2>4. CASE EmitFails(from_peer)
    BY <2>4 DEF EmitFails, FlowInv
  <2>5. QED  BY <1>4, <2>2, <2>3, <2>4 DEF ActorEmits
<1>5. CASE ActorEnds
  BY <1>5, <1>a DEF ActorEnds, InvokeEnded, RemoveSession, AfterOutput, ShapeInv, FlowInv,
       InBinder, InActor, sinkVars, onceVars, actorVars, openVars, regVars, history
<1>6. CASE Register
  BY <1>6, <1>a DEF Register, ShapeInv, FlowInv, InBinder, InActor, sinkVars, onceVars,
       actorVars, openVars, regVars, history
<1>7. CASE BeginBind
  <2>1. CASE phase = "pending" /\ phase' = "binding" /\ flush' = queue /\ UNCHANGED deferred
    <3>1. emitted = <<>> /\ deferred = <<>> /\ emitted' = emitted /\ produced' = produced
      BY <1>7, <1>a, <2>1 DEF BeginBind, ShapeInv, history
    <3>2. InBinder' = <<>>
      BY <1>7, <2>1 DEF BeginBind, InBinder
    <3>3. queue \o <<>> = queue /\ <<>> \o queue = queue
      BY <1>a, ConcatEmptySeq DEF TypeOK
    <3>4. produced = queue
      BY <1>a, <2>1 DEF FlowInv
    <3>5. QED  BY <2>1, <3>1, <3>2, <3>3, <3>4 DEF FlowInv
  <2>2. CASE phase # "pending" /\ UNCHANGED sinkVars
    <3>1. phase = "failed"
      BY <1>7, <1>a, <2>2 DEF BeginBind, ShapeInv
    <3>2. QED  BY <2>2, <3>1 DEF sinkVars, FlowInv
  <2>3. QED  BY <1>7, <2>1, <2>2 DEF BeginBind
<1>8. CASE Pop
  <2>1. opener = "pop" /\ InBinder = <<>> /\ UNCHANGED <<produced, emitted, actor, from_peer, queue>>
    BY <1>8 DEF Pop, InBinder, history, actorVars
  <2>2. /\ emitted \in Seq(Chunks) /\ flush \in Seq(Chunks) /\ deferred \in Seq(Chunks)
        /\ flush \o deferred \in Seq(Chunks) /\ <<>> \o (flush \o deferred) = flush \o deferred
    BY <1>a, ConcatProperties, ConcatEmptySeq DEF TypeOK
  <2>3. phase = "binding" => produced = emitted \o (flush \o deferred)
    BY <1>a, <2>1, <2>2 DEF FlowInv
  <2>4. CASE phase = "binding" /\ flush # <<>>
    <3>1. /\ phase' = phase /\ InBinder' = <<Head(flush)>> /\ flush' = Tail(flush)
          /\ deferred' = deferred
      BY <1>8, <2>4 DEF Pop, InBinder
    <3>2. <<Head(flush)>> \o (Tail(flush) \o deferred) = flush \o deferred
      BY <2>2, <2>4, ConcatMoves, ChunkSeq
    <3>3. QED  BY <2>1, <2>3, <2>4, <3>1, <3>2 DEF FlowInv
  <2>5. CASE phase = "binding" /\ flush = <<>> /\ deferred # <<>>
    <3>1. /\ phase' = phase /\ InBinder' = <<Head(deferred)>> /\ deferred' = Tail(deferred)
          /\ flush' = <<>>
      BY <1>8, <2>5 DEF Pop, InBinder
    <3>2. /\ <<Head(deferred)>> \o (Tail(deferred) \o <<>>) = deferred \o <<>>
          /\ Tail(deferred) \o <<>> = Tail(deferred) /\ <<>> \o Tail(deferred) = Tail(deferred)
          /\ deferred \o <<>> = deferred /\ <<>> \o deferred = deferred
      BY <2>2, <2>5, ConcatMoves, ChunkSeq
    <3>3. QED  BY <2>1, <2>3, <2>5, <3>1, <3>2 DEF FlowInv
  <2>6. CASE phase = "binding" /\ flush = <<>> /\ deferred = <<>>
    <3>1. phase' = "bound" /\ InActor' = <<>>
      BY <1>8, <1>a, <2>1, <2>6 DEF Pop, InActor, ShapeInv
    <3>2. <<>> \o <<>> = <<>>
      BY EmptySeq, ConcatEmptySeq
    <3>3. QED  BY <2>1, <2>3, <2>6, <3>1, <3>2 DEF FlowInv
  <2>7. CASE phase = "failed" /\ phase' = phase
    BY <2>7 DEF FlowInv
  <2>8. QED  BY <1>8, <2>4, <2>5, <2>6, <2>7 DEF Pop
<1>9. CASE BinderEmits
  <2>1. /\ opener = "emit" /\ opener' # "emit" /\ popped \in Chunks
        /\ UNCHANGED <<produced, actor, from_peer>> /\ phase \in {"binding", "failed"}
    BY <1>9, <1>a DEF BinderEmits, FailBind, ShapeInv, TypeOK, actorVars
  <2>2. ~Repeated(popped)
    BY <1>a, <2>1 DEF Repeated, LastInv
  <2>3. CASE Emit(popped) /\ UNCHANGED sinkVars
    <3>1. /\ UNCHANGED <<phase, flush, deferred>> /\ emitted' = Append(emitted, popped)
          /\ InBinder = <<popped>> /\ InBinder' = <<>>
      BY <2>1, <2>3 DEF Emit, sinkVars, InBinder
    <3>2. /\ emitted \in Seq(Chunks) /\ flush \o deferred \in Seq(Chunks)
          /\ <<>> \o (flush \o deferred) = flush \o deferred
      BY <1>a, ConcatProperties, ConcatEmptySeq DEF TypeOK
    <3>3. Append(emitted, popped) \o (flush \o deferred)
             = emitted \o (<<popped>> \o (flush \o deferred))
      <4>1. MovesOver(emitted, popped, flush \o deferred)
        BY <2>1, <3>2, ConcatMoves
      <4>2. QED  BY <4>1 DEF MovesOver
    <3>4. QED  BY <1>a, <2>1, <3>1, <3>2, <3>3 DEF FlowInv
  <2>4. CASE EmitFails(popped)
    BY <2>4 DEF EmitFails, FlowInv
  <2>5. QED  BY <1>9, <2>2, <2>3, <2>4 DEF BinderEmits
<1>10. CASE BinderEnds
  BY <1>10, <1>a DEF BinderEnds, InvokeEnded, RemoveSession, ShapeInv, FlowInv, InBinder,
       InActor, sinkVars, onceVars, actorVars, openVars, regVars, history
<1>11. CASE Remove
  BY <1>11, <1>a DEF Remove, RemoveAfterBind, RemoveSession, ShapeInv, FlowInv, InBinder,
       InActor, sinkVars, onceVars, actorVars, openVars, regVars, history
<1>12. CASE TakeOut
  BY <1>12, <1>a DEF TakeOut, RemoveSession, ShapeInv, FlowInv, InBinder, InActor, sinkVars,
       onceVars, actorVars, openVars, regVars, history
<1>13. CASE CloseTransport
  BY <1>13, <1>a DEF CloseTransport, ShapeInv, FlowInv, InBinder, InActor, sinkVars,
       onceVars, actorVars, openVars, regVars, history
<1>14. CASE UNCHANGED vars
  BY <1>14, <1>a DEF vars, ShapeInv, FlowInv, InBinder, InActor, sinkVars, onceVars,
       actorVars, openVars, regVars, history
<1>15. QED
  BY <1>1, <1>2, <1>3, <1>4, <1>5, <1>6, <1>7, <1>8, <1>9, <1>10, <1>11, <1>12, <1>13, <1>14
       DEF Next, Actor, Opener

\* A step keeps Closed last.
LEMMA LastStep == IInv /\ [Next]_vars => LastInv'
<1> SUFFICES ASSUME IInv, [Next]_vars PROVE LastInv'
  OBVIOUS
<1>a. TypeOK /\ ShapeInv /\ ClosedInv /\ FlowInv /\ LastInv
  BY DEF IInv
<1>1. CASE ReceiveData
  BY <1>1, <1>a DEF ReceiveData, ShapeInv, ClosedInv, LastInv, InBinder, InActor, sinkVars,
       onceVars, actorVars, openVars, regVars, history
<1>2. CASE ReceiveEnd
  BY <1>2, <1>a DEF ReceiveEnd, ShapeInv, ClosedInv, LastInv, InBinder, InActor, sinkVars,
       onceVars, actorVars, openVars, regVars, history
<1>3. CASE OnOutput
  <2>1. /\ actor = "output" /\ ~saw_closed /\ ~closed_emitted
        /\ opener = "emit" => popped # Closed
        /\ from_peer \in Chunks /\ produced \in Seq(Chunks) /\ Lacks(produced)
        /\ produced' = Append(produced, from_peer)
        /\ UNCHANGED <<from_peer, closed_emitted, opener, popped>>
    BY <1>3, <1>a DEF OnOutput, TypeOK, ClosedInv, LastInv, onceVars, openVars
  <2>2. \A i \in 1 .. Len(produced') - 1 : produced'[i] # Closed
    <3>1. /\ Len(produced') = Len(produced) + 1 /\ Len(produced) \in Nat
          /\ \A i \in 1 .. Len(produced) : produced'[i] = produced[i]
      BY <2>1, AppendProperties, LenProperties
    <3>2. Len(produced') - 1 = Len(produced)
      BY <3>1
    <3>3. QED  BY <2>1, <3>1, <3>2 DEF Lacks
  <2>3. from_peer # Closed => Lacks(produced')
    BY <2>1, LacksSeq
  <2>4. actor' \in {"select", "output"} => from_peer # Closed
    BY <1>3, <2>1 DEF OnOutput, AfterOutput
  <2>5. QED  BY <2>1, <2>2, <2>3, <2>4 DEF LastInv
<1>4. CASE ActorEmits
  BY <1>4, <1>a DEF ActorEmits, Repeated, Emit, EmitFails, AfterOutput, ShapeInv, ClosedInv,
       LastInv, InBinder, InActor, sinkVars, onceVars, actorVars, openVars, regVars, history
<1>5. CASE ActorEnds
  BY <1>5, <1>a DEF ActorEnds, InvokeEnded, RemoveSession, AfterOutput, ShapeInv, ClosedInv,
       LastInv, InBinder, InActor, sinkVars, onceVars, actorVars, openVars, regVars, history
<1>6. CASE Register
  BY <1>6, <1>a DEF Register, ShapeInv, ClosedInv, LastInv, InBinder, InActor, sinkVars,
       onceVars, actorVars, openVars, regVars, history
<1>7. CASE BeginBind
  BY <1>7, <1>a DEF BeginBind, FailBind, ShapeInv, ClosedInv, LastInv, InBinder, InActor,
       sinkVars, onceVars, actorVars, openVars, regVars, history
<1>8. CASE Pop
  BY <1>8, <1>a DEF Pop, FailBind, EndedEarly, ShapeInv, ClosedInv, LastInv, InBinder,
       InActor, sinkVars, onceVars, actorVars, openVars, regVars, history
<1>9. CASE BinderEmits
  <2>1. /\ opener = "emit" /\ opener' # "emit" /\ popped \in Chunks
        /\ UNCHANGED <<produced, actor, from_peer>>
    BY <1>9, <1>a DEF BinderEmits, FailBind, TypeOK, actorVars
  <2>2. InBinder' = <<>> /\ InBinder = <<popped>>
    BY <2>1 DEF InBinder
  <2>3. ASSUME closed_emitted', phase' = "binding"
        PROVE  flush' = <<>> /\ deferred' = <<>>
    <3>1. UNCHANGED <<phase, flush, deferred>>
      BY <1>9, <2>3 DEF BinderEmits, EmitFails, sinkVars
    <3>2. ~closed_emitted
      BY <1>a, <2>2, <2>3, <3>1, EmptySeq DEF LastInv
    <3>3. popped = Closed
      BY <1>9, <2>3, <3>1, <3>2 DEF BinderEmits, Repeated, Emit, EmitFails
    <3> DEFINE rest == flush \o deferred
    <3>4. /\ emitted \in Seq(Chunks) /\ rest \in Seq(Chunks) /\ <<popped>> \in Seq(Chunks)
          /\ flush \in Seq(Chunks) /\ deferred \in Seq(Chunks)
      BY <1>a, <2>1, ConcatProperties DEF TypeOK
    <3>5. produced = emitted \o (<<popped>> \o rest)
      BY <1>a, <2>2, <2>3, <3>1 DEF FlowInv
    <3>6. flush \o deferred = <<>> => flush = <<>> /\ deferred = <<>>
      BY <3>4, ConcatEqualIffEmpty
    <3> HIDE DEF rest
    <3>7. /\ <<popped>> \o rest \in Seq(Chunks) /\ Len(<<popped>> \o rest) = 1 + Len(rest)
          /\ (<<popped>> \o rest)[1] = popped /\ Len(rest) \in Nat
      <4>1. Len(<<popped>>) = 1 /\ <<popped>>[1] = popped
        OBVIOUS
      <4>2. Len(rest) \in Nat /\ 1 \in 1 .. 1 + Len(rest)
        BY <3>4, LenProperties
      <4>3. QED  BY <3>4, <4>1, <4>2, ConcatProperties
    <3>8. /\ Len(produced) = Len(emitted) + (1 + Len(rest)) /\ Len(emitted) \in Nat
          /\ produced[Len(emitted) + 1] = popped
      <4>1. Len(emitted) \in Nat
        BY <3>4, LenProperties
      <4>2. /\ Len(emitted) + 1 \in 1 .. Len(emitted) + (1 + Len(rest))
            /\ ~(Len(emitted) + 1 <= Len(emitted)) /\ (Len(emitted) + 1) - Len(emitted) = 1
        BY <3>7, <4>1
      <4>3. QED  BY <3>4, <3>5, <3>7, <4>1, <4>2, ConcatProperties
    <3>9. CASE Len(rest) = 0
      <4>1. rest = <<>>
        BY <3>4, <3>9, EmptySeq
      <4>2. QED  BY <3>1, <3>6, <4>1 DEF rest
    <3>10. CASE Len(rest) # 0
      <4>1. Len(emitted) + 1 \in 1 .. Len(produced) - 1
        BY <3>7, <3>8, <3>10
      <4>2. QED  BY <1>a, <3>3, <3>8, <4>1 DEF LastInv
    <3>11. QED  BY <3>9, <3>10
  <2>4. QED  BY <1>a, <2>1, <2>2, <2>3 DEF LastInv
<1>10. CASE BinderEnds
  BY <1>10, <1>a DEF BinderEnds, InvokeEnded, RemoveSession, ShapeInv, ClosedInv, LastInv,
       InBinder, InActor, sinkVars, onceVars, actorVars, openVars, regVars, history
<1>11. CASE Remove
  BY <1>11, <1>a DEF Remove, RemoveAfterBind, RemoveSession, ShapeInv, ClosedInv, LastInv,
       InBinder, InActor, sinkVars, onceVars, actorVars, openVars, regVars, history
<1>12. CASE TakeOut
  BY <1>12, <1>a DEF TakeOut, RemoveSession, ShapeInv, ClosedInv, LastInv, InBinder,
       InActor, sinkVars, onceVars, actorVars, openVars, regVars, history
<1>13. CASE CloseTransport
  BY <1>13, <1>a DEF CloseTransport, ShapeInv, ClosedInv, LastInv, InBinder, InActor,
       sinkVars, onceVars, actorVars, openVars, regVars, history
<1>14. CASE UNCHANGED vars
  BY <1>14, <1>a DEF vars, ShapeInv, ClosedInv, LastInv, InBinder, InActor, sinkVars,
       onceVars, actorVars, openVars, regVars, history
<1>15. QED
  BY <1>1, <1>2, <1>3, <1>4, <1>5, <1>6, <1>7, <1>8, <1>9, <1>10, <1>11, <1>12, <1>13, <1>14
       DEF Next, Actor, Opener

----------------------------------------------------------------------------
(* The invariant and what follows from it.                                 *)

\* The invariant holds before anything was received.
LEMMA InvInit == Init => IInv
<1> SUFFICES ASSUME Init PROVE IInv
  OBVIOUS
<1>1. /\ Closed \in Chunks /\ MaxPending \in Nat /\ MaxOutput \in Nat /\ 0 \in 0 .. MaxOutput
      /\ Len(<<>>) + Len(<<>>) <= MaxPending /\ Len(<<>>) <= MaxPending /\ Len(<<>>) = 0
      /\ <<>> \in Seq(Chunks)
  BY SinkAssumption, ChunkSeq DEF Chunks
<1>2. TypeOK
  BY <1>1 DEF Init, TypeOK
<1>3. ShapeInv /\ ClosedInv /\ LastInv
  BY <1>1, LacksSeq DEF Init, ShapeInv, ClosedInv, LastInv, InBinder
<1>4. LiveInv /\ FlowInv
  BY DEF Init, LiveInv, FlowInv, RegisteredIsLive
<1>5. QED  BY <1>2, <1>3, <1>4 DEF IInv

\* A step preserves the invariant.
LEMMA InvStep == IInv /\ [Next]_vars => IInv'
BY TypeStep, ShapeStep, ClosedStep, LiveStep, FlowStep, LastStep DEF IInv

\* The invariant holds in every reachable state.
LEMMA Invariance == Spec => []IInv
BY InvInit, InvStep, PTL DEF Spec

\* TypeOK for every bound: the queues of ssh_ipc.rs never grow past
\* MAX_PENDING_SSH_OUTPUT, though the check counts them together.
THEOREM SinkTypeCorrect == Spec => []TypeOK
<1>1. IInv => TypeOK
  BY DEF IInv
<1>2. QED  BY <1>1, Invariance, PTL

\* RegisteredIsLive for every bound: once the open call is over, a session that is
\* still in the registry has a bound sink and a terminal that has not ended.
THEOREM LiveSessionsOnly == Spec => []RegisteredIsLive
<1>1. IInv => RegisteredIsLive
  BY DEF IInv, LiveInv
<1>2. QED  BY <1>1, Invariance, PTL

\* NothingLost for every bound: a bound sink has emitted every chunk it was given,
\* but for the one the actor has in hand.
THEOREM NothingIsLost == Spec => []NothingLost
<1>1. IInv => NothingLost
  BY DEF IInv, FlowInv, NothingLost
<1>2. QED  BY <1>1, Invariance, PTL

----------------------------------------------------------------------------
(* The sink implements the channel.                                        *)

\* Where the chunks between produced and emitted are, phase by phase.
BacklogByPhase ==
    /\ InBinder \in Seq(Chunks) /\ InActor \in Seq(Chunks)
    /\ phase = "pending" => Backlog = queue
    /\ phase = "binding" => Backlog = InBinder \o (flush \o deferred)
    /\ phase = "bound" => Backlog = InActor
    /\ phase = "failed" => Backlog = InBinder

\* The invariant determines the backlog.
LEMMA BacklogLemma == IInv => BacklogByPhase
<1> SUFFICES ASSUME IInv PROVE BacklogByPhase
  OBVIOUS
<1>1. TypeOK /\ ShapeInv
  BY DEF IInv
<1>2. /\ InBinder \in Seq(Chunks) /\ InActor \in Seq(Chunks)
      /\ \A s \in Seq(Chunks) : s \o <<>> = s /\ <<>> \o s = s
      /\ <<>> \in Seq(Chunks)
  BY <1>1, ConcatEmptySeq, EmptySeq DEF InBinder, InActor, TypeOK
<1>3. phase # "bound" => InActor = <<>>
  BY <1>1 DEF ShapeInv, InActor
<1>4. phase \in {"pending", "bound"} => InBinder = <<>>
  BY <1>1 DEF ShapeInv, InBinder
<1>5. CASE phase \in {"pending", "bound", "failed"}
  BY <1>1, <1>2, <1>3, <1>4, <1>5, SMTT(30) DEF BacklogByPhase, Backlog, ShapeInv, TypeOK
<1>6. CASE phase = "binding"
  <2>1. queue = <<>> /\ InActor = <<>>
    BY <1>1, <1>3, <1>6 DEF ShapeInv
  <2> DEFINE Regroups(b, f, d) == (b \o f) \o d = b \o (f \o d)
  <2>a. \A b, f, d \in Seq(Chunks) : Regroups(b, f, d)
    BY ConcatAssociative
  <2>b. InBinder \in Seq(Chunks) /\ flush \in Seq(Chunks) /\ deferred \in Seq(Chunks)
    BY <1>1, <1>2 DEF TypeOK
  <2> HIDE DEF Regroups
  <2>c. Regroups(InBinder, flush, deferred)
    BY <2>a, <2>b
  <2>2. (InBinder \o flush) \o deferred = InBinder \o (flush \o deferred)
    BY <2>c DEF Regroups
  <2>3. InBinder \o (flush \o deferred) \in Seq(Chunks)
    BY <1>1, <1>2, ConcatProperties DEF TypeOK
  <2>4. QED  BY <1>2, <1>6, <2>1, <2>2, <2>3 DEF BacklogByPhase, Backlog
<1>7. QED  BY <1>1, <1>5, <1>6 DEF TypeOK

\* The backlog of the next state, in the same way.
LEMMA BacklogLater == IInv' => BacklogByPhase'
BY BacklogLemma, PTL

\* While the actor hands over a chunk to a working sink, no Closed went before it.
LEMMA NotEnded == IInv /\ actor = "output" /\ phase # "failed" => ~Channel!Ended
<1> SUFFICES ASSUME IInv, actor = "output", phase # "failed" PROVE ~Channel!Ended
  OBVIOUS
<1>1. /\ TypeOK /\ ShapeInv /\ FlowInv /\ Lacks(produced) /\ BacklogByPhase
      /\ phase \in {"pending", "binding", "bound"}
  BY BacklogLemma DEF IInv, LastInv, TypeOK
<1>2. CASE phase = "pending"
  <2>1. emitted \o Backlog = produced
    BY <1>1, <1>2, ConcatEmptySeq DEF ShapeInv, FlowInv, BacklogByPhase, TypeOK
  <2>2. QED  BY <1>1, <2>1, LenProperties DEF Channel!Ended, Lacks, TypeOK
<1>3. CASE phase = "binding"
  <2>1. emitted \o Backlog = produced
    BY <1>1, <1>3 DEF FlowInv, BacklogByPhase
  <2>2. QED  BY <1>1, <2>1, LenProperties DEF Channel!Ended, Lacks, TypeOK
<1>4. CASE phase = "bound"
  <2>1. emitted \o Backlog = produced
    BY <1>1, <1>4 DEF FlowInv, BacklogByPhase
  <2>2. QED  BY <1>1, <2>1, LenProperties DEF Channel!Ended, Lacks, TypeOK
<1>5. QED  BY <1>1, <1>2, <1>3, <1>4

\* A step that leaves the queues, the phase and the chunks in hand alone stutters.
LEMMA SameChannel ==
    ASSUME UNCHANGED <<sinkVars, emitted>>, InBinder' = InBinder, InActor' = InActor
    PROVE  UNCHANGED Channel!vars
BY DEF Channel!vars, Backlog, sinkVars

\* on_output adds to the end of the channel, breaks it, or drops the chunk of a failed sink.
LEMMA OnOutputChannel == IInv /\ IInv' /\ OnOutput => [Channel!Next]_Channel!vars
<1> SUFFICES ASSUME IInv, IInv', OnOutput PROVE [Channel!Next]_Channel!vars
  OBVIOUS
<1>a. TypeOK /\ ShapeInv /\ BacklogByPhase /\ MaxPending \in Nat /\ ShapeInv' /\ BacklogByPhase'
  BY BacklogLemma, BacklogLater, SinkAssumption DEF IInv
<1>1. /\ actor = "output" /\ from_peer \in Chunks /\ InActor = <<>>
      /\ InBinder' = InBinder /\ UNCHANGED <<emitted, opener, popped>>
  BY <1>a DEF OnOutput, TypeOK, InActor, InBinder, openVars
<1>2. ASSUME Len(Backlog) <= MaxPending, Backlog' = Append(Backlog, from_peer),
             phase # "failed", phase' # "failed"
      PROVE  Channel!Next
  <2>1. Channel!Produce(from_peer)
    BY <1>1, <1>2, NotEnded DEF Channel!Produce
  <2>2. QED  BY <1>1, <2>1 DEF Channel!Next
<1>3. CASE phase \in {"pending", "binding"} /\ Overflow
  <2>1. Backlog' = InBinder /\ phase' = "failed"
    BY <1>a, <1>1, <1>3 DEF Overflow, BacklogByPhase
  <2>2. CASE opener = "emit"
    <3>1. phase = "binding" /\ InBinder = <<popped>> /\ popped \in Chunks
      BY <1>a, <1>3, <2>2 DEF ShapeInv, InBinder, TypeOK
    <3>2. /\ Backlog = <<popped>> \o (flush \o deferred)
          /\ flush \o deferred \in Seq(Chunks)
      BY <1>a, <3>1, ConcatProperties DEF BacklogByPhase, TypeOK
    <3>3. Backlog # <<>> /\ Head(Backlog) = popped
      BY <3>1, <3>2, ConcatMoves
    <3>4. QED  BY <1>1, <2>1, <3>1, <3>3 DEF Channel!Next, Channel!Break
  <2>3. CASE opener # "emit"
    BY <1>1, <2>1, <2>3 DEF Channel!Next, Channel!Break, InBinder
  <2>4. QED  BY <2>2, <2>3
<1>4. CASE phase = "pending" /\ ~Full /\ QueueUp
  <2>1. Backlog = queue /\ Backlog' = Append(queue, from_peer) /\ phase' # "failed"
    BY <1>a, <1>4 DEF QueueUp, BacklogByPhase
  <2>2. queue \in Seq(Chunks) /\ Len(queue) <= MaxPending
    BY <1>a DEF TypeOK
  <2>3. QED  BY <1>2, <1>4, <2>1, <2>2
<1>5. CASE phase = "binding" /\ ~Full /\ Defer
  <2>1. /\ InBinder \in Seq(Chunks) /\ Len(InBinder) <= 1 /\ flush \in Seq(Chunks)
        /\ deferred \in Seq(Chunks) /\ flush \o deferred \in Seq(Chunks) /\ phase' = phase
    BY <1>a, <1>5, ConcatProperties DEF BacklogByPhase, InBinder, TypeOK, Defer
  <2> DEFINE rest == flush \o deferred
             row == InBinder \o rest
  <2>2. Backlog = row /\ Backlog' = InBinder \o (flush \o Append(deferred, from_peer))
    BY <1>a, <1>1, <1>5 DEF BacklogByPhase, Defer
  <2>3. Len(rest) = Len(flush) + Len(deferred) /\ Len(rest) <= MaxPending - 1
    <3>1. Len(queue) = 0 /\ Len(flush) \in Nat /\ Len(deferred) \in Nat
      BY <1>a, <1>5, EmptySeq, LenProperties DEF ShapeInv, TypeOK
    <3>2. QED  BY <1>a, <1>5, <2>1, <3>1, ConcatProperties DEF Full
  <2>4. row \in Seq(Chunks) /\ Len(row) <= MaxPending
    <3> HIDE DEF rest
    <3>1. rest \in Seq(Chunks)
      BY <2>1 DEF rest
    <3>2. row \in Seq(Chunks) /\ Len(row) = Len(InBinder) + Len(rest)
      BY <2>1, <3>1, ConcatProperties
    <3>3. Len(InBinder) \in Nat /\ Len(rest) \in Nat
      BY <2>1, <3>1, LenProperties
    <3>4. QED  BY <1>a, <2>1, <2>3, <3>2, <3>3
  <2>5. Backlog' = Append(row, from_peer)
    <3>1. AppendsBehind(<<>>, InBinder, flush, deferred, from_peer)
      BY <1>1, <2>1, EmptySeq, AppendBehind
    <3>2. /\ <<>> \o row = row
          /\ InBinder \o (flush \o Append(deferred, from_peer)) \in Seq(Chunks)
      BY <1>1, <2>1, <2>4, ChunkSeq, ConcatEmptySeq, ConcatProperties
    <3>3. <<>> \o (InBinder \o (flush \o Append(deferred, from_peer)))
             = InBinder \o (flush \o Append(deferred, from_peer))
      BY <3>2, ConcatEmptySeq
    <3>4. QED  BY <2>2, <3>1, <3>2, <3>3 DEF AppendsBehind
  <2>6. QED  BY <1>2, <1>5, <2>1, <2>2, <2>4, <2>5
<1>6. CASE phase = "bound" /\ UNCHANGED sinkVars
  <2>1. actor' = "emit" /\ phase' = "bound" /\ from_peer' = from_peer
    BY <1>6 DEF OnOutput, sinkVars
  <2>2. Backlog = <<>> /\ Backlog' = <<from_peer>>
    BY <1>a, <1>1, <1>6, <2>1 DEF BacklogByPhase, InActor
  <2>3. Append(<<>>, from_peer) = <<from_peer>> /\ <<>> \in Seq(Chunks) /\ Len(<<>>) = 0
    BY EmptySeq
  <2>4. Len(Backlog) <= MaxPending /\ Backlog' = Append(Backlog, from_peer)
    BY <1>a, <2>2, <2>3
  <2>5. QED  BY <1>2, <1>6, <2>1, <2>4
<1>7. CASE phase = "failed" /\ UNCHANGED sinkVars
  <2>1. Backlog = InBinder /\ Backlog' = InBinder /\ phase' = phase
    BY <1>a, <1>1, <1>7 DEF BacklogByPhase, sinkVars
  <2>2. QED  BY <1>1, <2>1 DEF Channel!vars
<1>8. QED  BY <1>3, <1>4, <1>5, <1>6, <1>7 DEF OnOutput

\* The actor's own emission shows the chunk it holds, or breaks the channel.
LEMMA ActorEmitsChannel == IInv /\ IInv' /\ ActorEmits => [Channel!Next]_Channel!vars
<1> SUFFICES ASSUME IInv, IInv', ActorEmits PROVE Channel!Next
  OBVIOUS
<1>1. /\ TypeOK /\ ShapeInv /\ ClosedInv /\ BacklogByPhase /\ BacklogByPhase'
  BY BacklogLemma, BacklogLater DEF IInv
<1>2. actor = "emit" /\ phase = "bound" /\ opener # "emit" /\ ~closed_emitted
  BY <1>1 DEF ActorEmits, ShapeInv, ClosedInv
<1>3. Backlog = <<from_peer>> /\ Head(Backlog) = from_peer /\ Tail(Backlog) = <<>>
  <2>1. Backlog = <<from_peer>>
    BY <1>1, <1>2 DEF BacklogByPhase, InActor
  <2>2. Head(<<from_peer>>) = from_peer /\ Tail(<<from_peer>>) = <<>>
    OBVIOUS
  <2>3. QED  BY <2>1, <2>2
<1>4. actor' # "emit" /\ InBinder' = <<>> /\ InActor' = <<>>
  BY <1>2 DEF ActorEmits, AfterOutput, InBinder, InActor, openVars
<1>5. CASE Emit(from_peer) /\ UNCHANGED sinkVars
  <2>1. Backlog' = <<>> /\ phase' = phase /\ emitted' = Append(emitted, from_peer)
    BY <1>1, <1>2, <1>4, <1>5 DEF BacklogByPhase, sinkVars, Emit
  <2>2. Channel!Show
    BY <1>3, <2>1 DEF Channel!Show
  <2>3. QED  BY <2>2 DEF Channel!Next
<1>6. CASE EmitFails(from_peer)
  <2>1. Backlog' = <<>> /\ phase' = "failed" /\ emitted' = emitted
    BY <1>1, <1>4, <1>6 DEF BacklogByPhase, EmitFails
  <2>2. QED  BY <2>1 DEF Channel!Next, Channel!Break
<1>7. QED  BY <1>2, <1>5, <1>6 DEF ActorEmits, Repeated

\* bind's flip to Binding and each chunk it takes move the backlog on without a change.
LEMMA PopChannel == IInv /\ IInv' /\ (BeginBind \/ Pop) => UNCHANGED Channel!vars
<1> SUFFICES ASSUME IInv, IInv', BeginBind \/ Pop PROVE UNCHANGED Channel!vars
  OBVIOUS
<1>1. TypeOK /\ ShapeInv /\ ShapeInv' /\ BacklogByPhase /\ BacklogByPhase' /\ InBinder = <<>>
  BY BacklogLemma, BacklogLater DEF IInv, InBinder, BeginBind, Pop
<1>2. InActor' = InActor /\ emitted' = emitted
  BY DEF BeginBind, Pop, InActor, actorVars, history
<1>3. \A s \in Seq(Chunks) : s \o <<>> = s /\ <<>> \o s = s
  BY ConcatEmptySeq
<1>4. CASE BeginBind /\ phase = "pending"
  <2>1. phase' = "binding" /\ flush' = queue /\ deferred' = <<>> /\ InBinder' = <<>>
    BY <1>1, <1>4 DEF BeginBind, ShapeInv, InBinder
  <2>2. Backlog = queue /\ Backlog' = queue
    BY <1>1, <1>3, <1>4, <2>1 DEF BacklogByPhase, TypeOK
  <2>3. QED  BY <1>2, <1>4, <2>1, <2>2 DEF Channel!vars
<1>5. CASE phase = "failed" /\ phase' = "failed" /\ InBinder' = <<>>
  BY <1>1, <1>2, <1>5 DEF BacklogByPhase, Channel!vars
<1>6. CASE Pop /\ phase = "binding" /\ (flush # <<>> \/ deferred # <<>>)
  <2>1. /\ InBinder' = <<popped'>> /\ phase' = "binding"
        /\ flush # <<>> => popped' = Head(flush) /\ flush' = Tail(flush) /\ deferred' = deferred
        /\ flush = <<>> => popped' = Head(deferred) /\ flush' = <<>> /\ deferred' = Tail(deferred)
    BY <1>6 DEF Pop, InBinder
  <2>2. flush \in Seq(Chunks) /\ deferred \in Seq(Chunks) /\ flush \o deferred \in Seq(Chunks)
    BY <1>1, ConcatProperties DEF TypeOK
  <2>3. Backlog = flush \o deferred /\ Backlog' = InBinder' \o (flush' \o deferred')
    BY <1>1, <1>3, <1>6, <2>1, <2>2 DEF BacklogByPhase
  <2>4. CASE flush # <<>>
    <3>1. <<Head(flush)>> \o (Tail(flush) \o deferred) = flush \o deferred
      BY <2>2, <2>4, ConcatMoves, ChunkSeq
    <3>2. QED  BY <1>2, <1>6, <2>1, <2>3, <2>4, <3>1 DEF Channel!vars
  <2>5. CASE flush = <<>>
    <3>1. /\ <<Head(deferred)>> \o (Tail(deferred) \o <<>>) = deferred \o <<>>
          /\ Tail(deferred) \in Seq(Chunks)
      BY <1>6, <2>2, <2>5, ConcatMoves, ChunkSeq
    <3>2. /\ Tail(deferred) \o <<>> = Tail(deferred) /\ <<>> \o Tail(deferred) = Tail(deferred)
          /\ deferred \o <<>> = deferred /\ <<>> \o deferred = deferred
      BY <1>3, <2>2, <3>1
    <3>3. QED  BY <1>2, <1>6, <2>1, <2>3, <2>5, <3>1, <3>2 DEF Channel!vars
  <2>6. QED  BY <2>4, <2>5
<1>7. CASE Pop /\ phase = "binding" /\ flush = <<>> /\ deferred = <<>>
  <2>1. phase' = "bound" /\ InActor = <<>>
    BY <1>1, <1>7 DEF Pop, ShapeInv, InActor
  <2>2. Backlog = <<>> /\ Backlog' = <<>>
    BY <1>1, <1>2, <1>3, <1>7, <2>1, EmptySeq DEF BacklogByPhase
  <2>3. QED  BY <1>2, <1>7, <2>1, <2>2 DEF Channel!vars
<1>8. QED
  BY <1>1, <1>4, <1>5, <1>6, <1>7 DEF BeginBind, Pop, FailBind, ShapeInv, TypeOK, sinkVars,
       InBinder

\* The binder's emission shows the chunk it holds, or breaks the channel.
LEMMA BinderEmitsChannel == IInv /\ IInv' /\ BinderEmits => [Channel!Next]_Channel!vars
<1> SUFFICES ASSUME IInv, IInv', BinderEmits PROVE Channel!Next
  OBVIOUS
<1>1. TypeOK /\ ShapeInv /\ LastInv /\ BacklogByPhase /\ BacklogByPhase'
  BY BacklogLemma, BacklogLater DEF IInv
<1>2. /\ opener = "emit" /\ phase \in {"binding", "failed"} /\ popped \in Chunks
      /\ ~Repeated(popped)
  BY <1>1 DEF BinderEmits, ShapeInv, TypeOK, LastInv, Repeated
<1>3. InBinder = <<popped>> /\ InBinder' = <<>>
  BY <1>2 DEF BinderEmits, FailBind, InBinder
<1>4. CASE Emit(popped) /\ UNCHANGED sinkVars
  <2>1. phase' = phase /\ emitted' = Append(emitted, popped)
    BY <1>4 DEF Emit, sinkVars
  <2>2. /\ flush \o deferred \in Seq(Chunks)
        /\ <<>> \o (flush \o deferred) = flush \o deferred
    BY <1>1, ConcatProperties, ConcatEmptySeq DEF TypeOK
  <2>3. CASE phase = "binding"
    <3>1. Backlog = <<popped>> \o (flush \o deferred) /\ Backlog' = flush \o deferred
      BY <1>1, <1>3, <1>4, <2>1, <2>2, <2>3 DEF BacklogByPhase, sinkVars
    <3>2. Backlog # <<>> /\ Head(Backlog) = popped /\ Tail(Backlog) = Backlog'
      BY <1>2, <2>2, <3>1, ConcatMoves
    <3>3. Channel!Show
      BY <2>1, <3>2 DEF Channel!Show
    <3>4. QED  BY <3>3 DEF Channel!Next
  <2>4. CASE phase = "failed"
    <3>1. Backlog = <<popped>> /\ Backlog' = <<>>
      BY <1>1, <1>3, <2>1, <2>4 DEF BacklogByPhase
    <3>2. Channel!Show
      BY <2>1, <3>1 DEF Channel!Show
    <3>3. QED  BY <3>2 DEF Channel!Next
  <2>5. QED  BY <1>2, <2>3, <2>4
<1>5. CASE EmitFails(popped)
  <2>1. Backlog' = <<>> /\ phase' = "failed" /\ emitted' = emitted
    BY <1>1, <1>3, <1>5 DEF BacklogByPhase, EmitFails
  <2>2. QED  BY <2>1 DEF Channel!Next, Channel!Break
<1>6. QED  BY <1>2, <1>4, <1>5 DEF BinderEmits

\* Every other step leaves the channel alone.
LEMMA OtherChannel ==
    /\ IInv
    /\ \/ ReceiveData \/ ReceiveEnd \/ ActorEnds
       \/ Register \/ BinderEnds \/ Remove \/ TakeOut \/ CloseTransport \/ UNCHANGED vars
    => UNCHANGED Channel!vars
<1> SUFFICES ASSUME \/ ReceiveData \/ ReceiveEnd \/ ActorEnds
                    \/ Register \/ BinderEnds \/ Remove \/ TakeOut \/ CloseTransport
                    \/ UNCHANGED vars
             PROVE  UNCHANGED Channel!vars
  OBVIOUS
<1>1. UNCHANGED <<sinkVars, emitted>>
  BY DEF ReceiveData, ReceiveEnd, ActorEnds, Register, BinderEnds, Remove, TakeOut,
         CloseTransport, vars, history
<1>2. InBinder' = InBinder
  BY DEF ReceiveData, ReceiveEnd, ActorEnds, Register, BinderEnds, Remove, TakeOut,
         CloseTransport, vars, openVars, InBinder
<1>3. InActor' = InActor
  BY DEF ReceiveData, ReceiveEnd, ActorEnds, AfterOutput, Register, BinderEnds, Remove, TakeOut,
         CloseTransport, vars, actorVars, InActor
<1>4. QED  BY <1>1, <1>2, <1>3, SameChannel

\* ImplementsChannel for every bound: the sink, with its two emitting threads, the
\* overflow and the failed emissions, is a bounded FIFO channel.
THEOREM SinkImplementsChannel == Spec => ImplementsChannel
<1>1. Init => Channel!Init
  <2>1. <<>> \o <<>> = <<>>
    BY EmptySeq, ConcatEmptySeq
  <2>2. QED  BY <2>1 DEF Init, Channel!Init, Backlog, InBinder, InActor
<1>2. IInv /\ IInv' /\ [Next]_vars => [Channel!Next]_Channel!vars
  BY OnOutputChannel, ActorEmitsChannel, PopChannel, BinderEmitsChannel, OtherChannel
     DEF Next, Actor, Opener
<1>3. QED  BY <1>1, <1>2, Invariance, PTL DEF Spec, ImplementsChannel, Channel!Spec

----------------------------------------------------------------------------
(* The other end of the output path: the page of TerminalView.             *)

CONSTANTS MaxEffects, MaxEpoch, MaxPrebind

VARIABLES effect, mounted, pc, bridge, shown, handle_ref, ready, native, at, epoch,
          session_produced, finished, answer, page_closing, wire

View == INSTANCE TerminalView WITH produced <- session_produced, closing <- page_closing

\* What TerminalView assumes of its constants (ViewAssumption).
ViewSized == {MaxEffects, MaxOutput, MaxEpoch, MaxPrebind} \subseteq Nat

\* The order on the natural numbers is well founded, as a set of pairs.
Below == {p \in Nat \X Nat : p[1] < p[2]}

LEMMA NatMin ==
    ASSUME NEW T \in SUBSET Nat, T # {}
    PROVE  \E x \in T : \A y \in T : x <= y
<1>1. IsWellFoundedOn(OpToRel(<, Nat), Nat)
    BY NatLessThanWellFounded
<1>2. IsWellFoundedOn(Below, Nat)
    BY <1>1 DEF OpToRel, Below
<1>3. PICK x \in T : \A y \in T : ~(<<y, x>> \in Below)
    BY <1>2, WFMin
<1>4. ASSUME NEW y \in T
      PROVE  x <= y
  <2>1. y \in Nat /\ x \in Nat /\ ~(<<y, x>> \in Below)
      BY <1>3
  <2>2. y < x => <<y, x>> \in Below
      BY <2>1 DEF Below
  <2> QED
      BY <2>1, <2>2
<1> QED
    BY <1>4

\* Induction on a number, for a set instead of a predicate.
LEMMA SetInduction ==
    ASSUME NEW T, 0 \in T, \A n \in Nat : n \in T => n + 1 \in T
    PROVE  Nat \subseteq T
<1> SUFFICES ASSUME Nat \ T # {}
             PROVE  FALSE
    OBVIOUS
<1>1. PICK x \in Nat \ T : \A y \in Nat \ T : x <= y
    BY NatMin
<1>2. x - 1 \in Nat /\ x - 1 \in T
    BY <1>1
<1> QED
    BY <1>1, <1>2

\* The entry for i of the table f that OwnItems makes of the events.
Entry(f, e, events, i) ==
    IF i = 0 THEN <<>>
    ELSE IF events[i][1] = e THEN Append(f[i - 1], events[i][2])
    ELSE f[i - 1]

Filters(f, e, events, n) == f = [i \in 0 .. n |-> Entry(f, e, events, i)]

TheFilter(e, events) == CHOOSE f : Filters(f, e, events, Len(events))

LEMMA FilterExists ==
    ASSUME NEW S, NEW e, NEW events \in Seq(S)
    PROVE  Filters(TheFilter(e, events), e, events, Len(events))
<1> DEFINE T == {n \in Nat : \E f : Filters(f, e, events, n)}
<1>1. 0 \in T
  <2>1. Filters([i \in 0 .. 0 |-> <<>>], e, events, 0)
      BY DEF Filters, Entry
  <2> QED
      BY <2>1
<1>2. ASSUME NEW n \in Nat, n \in T
      PROVE  n + 1 \in T
  <2>1. PICK f : Filters(f, e, events, n)
      BY <1>2
  <2> DEFINE g == [i \in 0 .. n + 1 |-> IF i <= n THEN f[i] ELSE Entry(f, e, events, i)]
  <2>2. ASSUME NEW i \in 0 .. n + 1
        PROVE  g[i] = Entry(g, e, events, i)
    <3>1. CASE i = 0
        BY <2>1, <3>1 DEF Filters, Entry
    <3>2. CASE i # 0
      <4>1. g[i - 1] = f[i - 1]
          BY <3>2
      <4>2. Entry(g, e, events, i) = Entry(f, e, events, i)
          BY <3>2, <4>1 DEF Entry
      <4>3. i <= n => f[i] = Entry(f, e, events, i)
          BY <2>1, <3>2 DEF Filters
      <4> QED
          BY <4>2, <4>3
    <3> QED
        BY <3>1, <3>2
  <2>3. g = [i \in 0 .. n + 1 |-> Entry(g, e, events, i)]
    <3> DEFINE h == [i \in 0 .. n + 1 |-> Entry(g, e, events, i)]
    <3>1. \A i \in 0 .. n + 1 : g[i] = h[i]
        BY <2>2
    <3>2. DOMAIN g = 0 .. n + 1 /\ DOMAIN h = 0 .. n + 1
        OBVIOUS
    <3> QED
        BY <3>1, <3>2
  <2> HIDE DEF g
  <2>4. Filters(g, e, events, n + 1)
      BY <2>3 DEF Filters
  <2> QED
      BY <2>4
<1> HIDE DEF T
<1>3. Nat \subseteq T
    BY <1>1, <1>2, SetInduction
<1>4. \E f : Filters(f, e, events, Len(events))
    BY <1>3 DEF T
<1> QED
    BY <1>4 DEF TheFilter

LEMMA OwnIsFilter ==
    ASSUME NEW S, NEW e, NEW events \in Seq(S)
    PROVE  View!OwnItems(e, events) = TheFilter(e, events)[Len(events)]
BY DEF View!OwnItems, TheFilter, Filters, Entry

\* What an entry says of the one before it.
LEMMA FilterStep ==
    ASSUME NEW S, NEW e, NEW events \in Seq(S)
    PROVE  /\ TheFilter(e, events)[0] = <<>>
           /\ \A i \in 1 .. Len(events) :
                 TheFilter(e, events)[i] =
                    IF events[i][1] = e THEN Append(TheFilter(e, events)[i - 1], events[i][2])
                    ELSE TheFilter(e, events)[i - 1]
<1> DEFINE f == TheFilter(e, events)
<1>1. f = [i \in 0 .. Len(events) |-> Entry(f, e, events, i)]
    BY FilterExists DEF Filters
<1> HIDE DEF f
<1>2. \A i \in 0 .. Len(events) : f[i] = Entry(f, e, events, i)
    BY <1>1
<1>3. f[0] = <<>>
    BY <1>2 DEF Entry
<1>4. \A i \in 1 .. Len(events) : f[i] = Entry(f, e, events, i)
    BY <1>2
<1> QED
    BY <1>3, <1>4 DEF f, Entry

LEMMA FilterStart ==
    ASSUME NEW S, NEW e, NEW events \in Seq(S)
    PROVE  TheFilter(e, events)[0] = <<>>
BY FilterStep

\* No events, no items.
LEMMA OwnOfNone == ASSUME NEW e PROVE View!OwnItems(e, <<>>) = <<>>
<1>1. <<>> \in Seq({}) /\ Len(<<>>) = 0
    OBVIOUS
<1>2. View!OwnItems(e, <<>>) = TheFilter(e, <<>>)[Len(<<>>)]
    BY <1>1, OwnIsFilter
<1>3. TheFilter(e, <<>>)[0] = <<>>
    BY <1>1, FilterStart
<1> QED
    BY <1>1, <1>2, <1>3

\* The items are of the events.
LEMMA OwnType ==
    ASSUME NEW A, NEW B, NEW e, NEW events \in Seq(A \X B)
    PROVE  View!OwnItems(e, events) \in Seq(B)
<1> DEFINE f == TheFilter(e, events)
           T == {n \in Nat : n <= Len(events) => f[n] \in Seq(B)}
<1>1. 0 \in T
  <2>1. f[0] = <<>>
      BY FilterStart
  <2>2. f[0] \in Seq(B)
      BY <2>1
  <2> HIDE DEF f
  <2> QED
      BY <2>2
<1>2. ASSUME NEW n \in Nat, n \in T
      PROVE  n + 1 \in T
  <2>1. CASE n + 1 <= Len(events)
    <3>1. f[n] \in Seq(B)
        BY <1>2, <2>1
    <3>2. n + 1 \in 1 .. Len(events) /\ events[n + 1] \in A \X B
        BY <2>1
    <3>3. f[n + 1] = IF events[n + 1][1] = e THEN Append(f[n], events[n + 1][2]) ELSE f[n]
        BY <3>2, FilterStep
    <3> HIDE DEF f
    <3>4. f[n + 1] \in Seq(B)
        BY <3>1, <3>2, <3>3
    <3> QED
        BY <3>4
  <2> QED
      BY <2>1
<1> HIDE DEF T
<1>3. Len(events) \in T
    BY <1>1, <1>2, SetInduction
<1> QED
    BY <1>3, OwnIsFilter DEF T

\* One more event.
OwnGrows(e, events, ev) ==
    View!OwnItems(e, Append(events, ev)) =
        IF ev[1] = e THEN Append(View!OwnItems(e, events), ev[2]) ELSE View!OwnItems(e, events)

LEMMA OwnAppend ==
    ASSUME NEW A, NEW B, NEW e, NEW events \in Seq(A \X B), NEW ev \in A \X B
    PROVE  OwnGrows(e, events, ev)
<1> DEFINE more == Append(events, ev)
           f == TheFilter(e, events)
           g == TheFilter(e, more)
           T == {n \in Nat : n <= Len(events) => f[n] = g[n]}
<1>1. more \in Seq(A \X B) /\ Len(more) = Len(events) + 1 /\ more[Len(more)] = ev
    OBVIOUS
<1>2. \A i \in 1 .. Len(events) : more[i] = events[i]
    OBVIOUS
<1> HIDE DEF more
<1>3. 0 \in T
    BY <1>1, FilterStep
<1>4. ASSUME NEW n \in Nat, n \in T
      PROVE  n + 1 \in T
  <2>1. CASE n + 1 <= Len(events)
    <3>1. n + 1 \in 1 .. Len(events) /\ n + 1 \in 1 .. Len(more)
        BY <1>1, <2>1
    <3>2. f[n + 1] = IF events[n + 1][1] = e THEN Append(f[n], events[n + 1][2]) ELSE f[n]
        BY <3>1, FilterStep
    <3>3. g[n + 1] = IF more[n + 1][1] = e THEN Append(g[n], more[n + 1][2]) ELSE g[n]
        BY <1>1, <3>1, FilterStep
    <3> HIDE DEF f, g
    <3>4. f[n] = g[n]
        BY <1>4, <2>1
    <3>5. f[n + 1] = g[n + 1]
        BY <1>2, <3>1, <3>2, <3>3, <3>4
    <3> QED
        BY <3>5
  <2> QED
      BY <2>1
<1> HIDE DEF T
<1>5. Len(events) \in T
    BY <1>3, <1>4, SetInduction
<1>6. f[Len(events)] = g[Len(events)]
    BY <1>5 DEF T
<1>7. g[Len(more)] = IF ev[1] = e THEN Append(g[Len(events)], ev[2]) ELSE g[Len(events)]
    BY <1>1, FilterStep
<1>8. View!OwnItems(e, events) = f[Len(events)] /\ View!OwnItems(e, more) = g[Len(more)]
    BY <1>1, OwnIsFilter
<1> QED
    BY <1>6, <1>7, <1>8 DEF more, OwnGrows

ItemGoesBehind(s, t, x) == Append(s \o t, x) = s \o Append(t, x)

LEMMA AppendToSecond ==
    ASSUME NEW B, NEW s \in Seq(B), NEW t \in Seq(B), NEW x \in B
    PROVE  ItemGoesBehind(s, t, x)
<1>1. <<x>> \in Seq(B) /\ s \o t \in Seq(B)
    OBVIOUS
<1>2. Append(s \o t, x) = (s \o t) \o <<x>>
    BY <1>1, AppendIsConcat
<1>3. Append(t, x) = t \o <<x>>
    BY AppendIsConcat
<1>4. (s \o t) \o <<x>> = s \o (t \o <<x>>)
    BY <1>1, ConcatAssociative
<1> QED
    BY <1>2, <1>3, <1>4 DEF ItemGoesBehind

\* The first event.
OwnStarts(e, events) ==
    View!OwnItems(e, events) =
        IF Head(events)[1] = e THEN <<Head(events)[2]>> \o View!OwnItems(e, Tail(events))
        ELSE View!OwnItems(e, Tail(events))

LEMMA OwnHead ==
    ASSUME NEW A, NEW B, NEW e, NEW events \in Seq(A \X B), events # <<>>
    PROVE  OwnStarts(e, events)
<1> DEFINE rest == Tail(events)
           f == TheFilter(e, events)
           g == TheFilter(e, rest)
           first == IF Head(events)[1] = e THEN <<Head(events)[2]>> ELSE <<>>
           T == {n \in Nat : n <= Len(rest) => g[n] \in Seq(B) /\ f[n + 1] = first \o g[n]}
<1>1. rest \in Seq(A \X B) /\ Len(events) = Len(rest) + 1 /\ Len(rest) \in Nat
    OBVIOUS
<1>2. \A i \in 1 .. Len(rest) : rest[i] = events[i + 1] /\ rest[i] \in A \X B
    OBVIOUS
<1>3. events[1] = Head(events) /\ Head(events) \in A \X B /\ first \in Seq(B)
    OBVIOUS
<1> HIDE DEF rest
<1>4. /\ f[0] = <<>>
      /\ \A i \in 1 .. Len(events) :
            f[i] = IF events[i][1] = e THEN Append(f[i - 1], events[i][2]) ELSE f[i - 1]
    BY FilterStep
<1>5. /\ g[0] = <<>>
      /\ \A i \in 1 .. Len(rest) :
            g[i] = IF rest[i][1] = e THEN Append(g[i - 1], rest[i][2]) ELSE g[i - 1]
    BY <1>1, FilterStep
<1>6. View!OwnItems(e, events) = f[Len(events)] /\ View!OwnItems(e, rest) = g[Len(rest)]
    BY <1>1, OwnIsFilter
<1> HIDE DEF f, g
<1>7. f[1] = first
  <2>1. f[1] = IF events[1][1] = e THEN Append(f[1 - 1], events[1][2]) ELSE f[1 - 1]
      BY <1>1, <1>4
  <2>2. f[1 - 1] = <<>>
      BY <1>4
  <2> QED
      BY <1>3, <2>1, <2>2
<1> HIDE DEF first
<1>8. 0 \in T
  <2>1. g[0] \in Seq(B) /\ first \o g[0] = first
      BY <1>3, <1>5
  <2>2. f[0 + 1] = first
      BY <1>7
  <2> QED
      BY <2>1, <2>2
<1>9. ASSUME NEW n \in Nat, n \in T
      PROVE  n + 1 \in T
  <2>1. CASE n + 1 <= Len(rest)
    <3>1. n + 1 \in 1 .. Len(rest) /\ n + 2 \in 1 .. Len(events)
        BY <1>1, <2>1
    <3>2. f[n + 2] = IF events[n + 2][1] = e THEN Append(f[n + 1], events[n + 2][2])
                     ELSE f[n + 1]
        BY <3>1, <1>4
    <3>3. g[n + 1] = IF rest[n + 1][1] = e THEN Append(g[n], rest[n + 1][2]) ELSE g[n]
        BY <3>1, <1>5
    <3>4. rest[n + 1] = events[n + 2] /\ rest[n + 1][2] \in B
        BY <1>2, <3>1
    <3>5. g[n] \in Seq(B) /\ f[n + 1] = first \o g[n]
        BY <1>9, <2>1
    <3>6. g[n + 1] \in Seq(B)
        BY <3>3, <3>4, <3>5
    <3>7. Append(first \o g[n], rest[n + 1][2]) = first \o Append(g[n], rest[n + 1][2])
      <4>1. ItemGoesBehind(first, g[n], rest[n + 1][2])
          BY <1>3, <3>4, <3>5, AppendToSecond
      <4> QED
          BY <4>1 DEF ItemGoesBehind
    <3>8. f[n + 2] = first \o g[n + 1]
        BY <3>2, <3>3, <3>4, <3>5, <3>7
    <3> QED
        BY <3>6, <3>8
  <2> QED
      BY <2>1
<1> HIDE DEF T
<1>10. Len(rest) \in T
    BY <1>1, <1>8, <1>9, SetInduction
<1>11. f[Len(events)] = first \o g[Len(rest)] /\ g[Len(rest)] \in Seq(B)
    BY <1>1, <1>10 DEF T
<1>12. /\ View!OwnItems(e, events) = first \o View!OwnItems(e, rest)
       /\ View!OwnItems(e, rest) \in Seq(B)
    BY <1>6, <1>11
<1> QED
    BY <1>12 DEF rest, first, OwnStarts

\* Before its open command an effect has nothing.
Fresh(e) ==
    /\ e > effect => pc[e] = "none"
    /\ pc[e] \in {"none", "probe", "listen"} =>
          /\ native[e] = "none" /\ session_produced[e] = 0 /\ ~finished[e]
          /\ shown[e] = <<>> /\ bridge[e] = View!NoBridge
          /\ View!OwnItems(e, wire) = <<>>

\* Closed is the last event, and the replay leaves nothing behind.
Streaming(e) ==
    /\ native[e] # "gone" => ~finished[e]
    /\ bridge[e].bound => bridge[e].prebind = <<>>

\* Who waits for the answer of the open command listens.
Waiting(e) ==
    pc[e] = "invoke" => /\ bridge[e].listening /\ ~bridge[e].bound
                        /\ ~bridge[e].inactive /\ ~bridge[e].disposed

\* A handle that can be kept is active, was closed by the peer, or failed.
Keepable(e) ==
    pc[e] \in {"bound", "live"} /\ bridge[e].inactive =>
        bridge[e].remote_closed \/ bridge[e].failed

HeldIsOpen == handle_ref # View!NoHandle => ~bridge[handle_ref].remote_closed

FreshInv  == \A e \in View!Effects : Fresh(e)
StreamInv == \A e \in View!Effects : Streaming(e)
WaitInv   == \A e \in View!Effects : Waiting(e)
HandleInv == View!ReadyIsAttached /\ HeldIsOpen /\ \A e \in View!Effects : Keepable(e)

ViewInv ==
    View!TypeOK /\ FreshInv /\ StreamInv /\ WaitInv /\ HandleInv /\ View!OwnOutputInOrder

BridgeSet ==
    [prebind : Seq(View!Effects \X View!Items), overflowed : BOOLEAN, bound : BOOLEAN,
     inactive : BOOLEAN, remote_closed : BOOLEAN, failed : BOOLEAN, disposed : BOOLEAN,
     sent : BOOLEAN, listening : BOOLEAN]

Fits(b) == b \in BridgeSet /\ Len(b.prebind) <= MaxPrebind

\* The three parts of TypeOK: the listeners, the events, the rest.
BridgesOK ==
    bridge \in [View!Effects -> BridgeSet] /\ \A e \in View!Effects : Fits(bridge[e])

EventsOK ==
    /\ shown \in [View!Effects -> Seq(View!Items)]
    /\ wire \in Seq(View!Effects \X View!Items)

RestOK ==
    /\ effect \in 0 .. MaxEffects /\ mounted \in BOOLEAN
    /\ pc \in [View!Effects -> {"none", "probe", "listen", "invoke", "refusing", "bound",
                                "live", "disposing", "over"}]
    /\ handle_ref \in View!Effects \cup {View!NoHandle} /\ ready \in BOOLEAN
    /\ native \in [View!Effects -> {"none", "opening", "open", "gone"}]
    /\ at \in [View!Effects -> 0 .. MaxEpoch] /\ epoch \in 0 .. MaxEpoch
    /\ session_produced \in [View!Effects -> 0 .. MaxOutput]
    /\ finished \in [View!Effects -> BOOLEAN]
    /\ answer \in [View!Effects -> {"none", "ok", "error"}]
    /\ page_closing \in [View!Effects -> {"none", "sent", "answered"}]

LEMMA TypeParts == View!TypeOK <=> BridgesOK /\ EventsOK /\ RestOK
BY DEF View!TypeOK, BridgesOK, EventsOK, RestOK, BridgeSet, Fits

LEMMA TypePartsLater == View!TypeOK' <=> BridgesOK' /\ EventsOK' /\ RestOK'
BY DEF View!TypeOK, BridgesOK, EventsOK, RestOK, BridgeSet, Fits

\* One listener changes.
LEMMA BridgeUpdate ==
    ASSUME BridgesOK, NEW e \in View!Effects, NEW b, Fits(b),
           bridge' = [bridge EXCEPT ![e] = b]
    PROVE  BridgesOK'
BY DEF BridgesOK, Fits

\* The queue before the session id is emptied.
LEMMA OverflowType ==
    ASSUME NEW b \in BridgeSet, NEW q \in Seq(View!Effects \X View!Items)
    PROVE  [b EXCEPT !.overflowed = TRUE, !.prebind = q] \in BridgeSet
BY DEF BridgeSet

LEMMA BindType ==
    ASSUME NEW b \in BridgeSet, NEW q \in Seq(View!Effects \X View!Items),
           NEW closed \in BOOLEAN, NEW throws \in BOOLEAN
    PROVE  [b EXCEPT !.bound = TRUE, !.prebind = q, !.inactive = closed \/ throws,
                     !.remote_closed = closed, !.failed = throws, !.sent = throws,
                     !.listening = ~closed /\ ~throws] \in BridgeSet
BY DEF BridgeSet

\* What the listener of an effect does with an event keeps its locals in their domain.
LEMMA PayloadType ==
    ASSUME ViewSized, BridgesOK, NEW e \in View!Effects,
           NEW ev \in View!Effects \X View!Items, NEW throws \in BOOLEAN
    PROVE  Fits(View!OnPayload(e, ev, throws))
<1>1. Fits(bridge[e])
    BY DEF BridgesOK
<1>2. Fits(View!Queue(bridge[e], ev))
  <2> DEFINE b == bridge[e]
             more == Append(b.prebind, ev)
             nothing == <<>>
  <2>1. /\ more \in Seq(View!Effects \X View!Items) /\ Len(more) = Len(b.prebind) + 1
        /\ Len(b.prebind) \in Nat /\ MaxPrebind \in Nat
      BY <1>1 DEF Fits, BridgeSet, ViewSized
  <2>2. nothing \in Seq(View!Effects \X View!Items) /\ Len(nothing) = 0
      OBVIOUS
  <2> HIDE DEF more, nothing
  <2>3. CASE b.overflowed
      BY <1>1, <2>3 DEF View!Queue
  <2>4. CASE ~b.overflowed /\ Len(b.prebind) >= MaxPrebind
    <3>1. View!Queue(b, ev) = [b EXCEPT !.overflowed = TRUE, !.prebind = nothing]
        BY <2>4 DEF View!Queue, nothing
    <3> QED
      <4>1. View!Queue(b, ev) \in BridgeSet
          BY <1>1, <2>2, <3>1, OverflowType DEF Fits
      <4>2. View!Queue(b, ev).prebind = nothing
          BY <1>1, <3>1 DEF Fits, BridgeSet
      <4> QED
          BY <2>1, <2>2, <4>1, <4>2 DEF Fits
  <2>5. CASE ~b.overflowed /\ ~(Len(b.prebind) >= MaxPrebind)
    <3>1. View!Queue(b, ev) = [b EXCEPT !.prebind = more]
        BY <2>5 DEF View!Queue, more
    <3> QED
        BY <1>1, <2>1, <2>5, <3>1 DEF Fits, BridgeSet
  <2> QED
      BY <2>3, <2>4, <2>5
<1>3. Fits(View!Deliver(bridge[e], ev, throws))
    BY <1>1 DEF Fits, View!Deliver, BridgeSet
<1> QED
    BY <1>1, <1>2, <1>3 DEF View!OnPayload

\* dispose of a handle.
LEMMA DisposeType ==
    ASSUME BridgesOK, RestOK, NEW e \in View!Effects, View!Dispose(e)
    PROVE  /\ BridgesOK'
           /\ page_closing' \in [View!Effects -> {"none", "sent", "answered"}]
           /\ pc' \in [View!Effects -> {"none", "probe", "listen", "invoke", "refusing",
                                        "bound", "live", "disposing", "over"}]
<1> DEFINE b == [bridge[e] EXCEPT !.disposed = TRUE, !.inactive = TRUE,
                                  !.sent = @ \/ View!ClosesNow(bridge[e]),
                                  !.listening = @ /\ View!ClosesNow(bridge[e])]
<1>1. bridge' = [bridge EXCEPT ![e] = b]
    BY DEF View!Dispose, BridgesOK
<1>2. Fits(bridge[e])
    BY DEF BridgesOK
<1>3. Fits(b)
    BY <1>2 DEF Fits, BridgeSet, View!ClosesNow
<1> HIDE DEF b
<1>4. BridgesOK'
    BY <1>1, <1>3, BridgeUpdate
<1> QED
    BY <1>4 DEF View!Dispose, RestOK

\* A session leaves its registry.
LEMMA LeavesType ==
    ASSUME ViewSized, EventsOK, RestOK, NEW e \in View!Effects, View!Leaves(e), shown' = shown
    PROVE  /\ EventsOK'
           /\ native' \in [View!Effects -> {"none", "opening", "open", "gone"}]
           /\ finished' \in [View!Effects -> BOOLEAN]
<1>1. <<e, View!Closed>> \in View!Effects \X View!Items
    BY DEF View!Closed, View!Items, ViewSized
<1>2. wire' \in Seq(View!Effects \X View!Items)
  <2>1. CASE wire' = Append(wire, <<e, View!Closed>>)
    <3> DEFINE last == <<e, View!Closed>>
    <3> HIDE DEF last
    <3>1. last \in View!Effects \X View!Items /\ wire \in Seq(View!Effects \X View!Items)
        BY <1>1 DEF last, EventsOK
    <3>2. wire' = Append(wire, last)
        BY <2>1 DEF last
    <3> QED
        BY <3>1, <3>2
  <2>2. CASE UNCHANGED wire
      BY <2>2 DEF EventsOK
  <2> QED
      BY <2>1, <2>2 DEF View!Leaves
<1> QED
    BY <1>2 DEF View!Leaves, EventsOK, RestOK

\* Every step keeps every variable in its domain.
LEMMA ViewTypeStep ==
    ASSUME ViewSized
    PROVE  View!TypeOK /\ [View!Next]_View!vars => View!TypeOK'
<1> SUFFICES ASSUME BridgesOK, EventsOK, RestOK, [View!Next]_View!vars
             PROVE  BridgesOK' /\ EventsOK' /\ RestOK'
    BY TypeParts, TypePartsLater
<1> USE DEF View!viewVars, View!nativeVars
<1>1. ASSUME UNCHANGED bridge
      PROVE  BridgesOK'
    BY <1>1 DEF BridgesOK
<1>2. ASSUME UNCHANGED <<shown, wire>>
      PROVE  EventsOK'
    BY <1>2 DEF EventsOK
<1>3. ASSUME NEW e \in View!Effects
      PROVE  e \in Nat /\ e # View!NoHandle /\ Fits(bridge[e])
    BY DEF ViewSized, View!Effects, View!NoHandle, BridgesOK
<1>4. CASE View!Mount
  <2>1. effect + 1 \in View!Effects
      BY <1>4 DEF View!Mount, View!Effects, ViewSized, RestOK
  <2>2. effect' \in 0 .. MaxEffects /\ mounted' \in BOOLEAN /\ ready' \in BOOLEAN
    <3>1. effect < MaxEffects /\ effect' = effect + 1 /\ mounted' = TRUE /\ ready' = FALSE
        BY <1>4 DEF View!Mount
    <3>2. effect \in 0 .. MaxEffects /\ MaxEffects \in Nat
        BY DEF RestOK, ViewSized
    <3>3. effect' \in 0 .. MaxEffects
        BY <3>1, <3>2
    <3>4. mounted' \in BOOLEAN /\ ready' \in BOOLEAN
        BY <3>1
    <3> QED
        BY <3>3, <3>4
  <2>3. pc' = [pc EXCEPT ![effect + 1] = "probe"]
      BY <1>4 DEF View!Mount
  <2>4. pc' \in [View!Effects -> {"none", "probe", "listen", "invoke", "refusing", "bound",
                                  "live", "disposing", "over"}]
      BY <2>3 DEF RestOK
  <2>5. RestOK'
      BY <1>4, <2>2, <2>4 DEF View!Mount, RestOK
  <2> QED
      BY <1>4, <1>1, <1>2, <2>5 DEF View!Mount
<1>5. CASE View!Unmount
  <2>1. CASE handle_ref # View!NoHandle
    <3>1. handle_ref \in View!Effects
        BY <2>1 DEF RestOK
    <3>2. View!Dispose(handle_ref)
        BY <2>1, <1>5 DEF View!Unmount
    <3>3. BridgesOK' /\ RestOK'
        BY <3>1, <3>2, DisposeType, <1>5 DEF View!Unmount, RestOK
    <3> QED
        BY <1>5, <1>2, <3>3 DEF View!Unmount
  <2>2. CASE handle_ref = View!NoHandle
    <3>1. RestOK'
        BY <2>2, <1>5 DEF View!Unmount, RestOK
    <3> QED
        BY <2>2, <1>5, <1>1, <1>2, <3>1 DEF View!Unmount
  <2> QED
      BY <2>1, <2>2
<1>6. CASE View!Relogin
  <2>1. RestOK'
      BY <1>6 DEF View!Relogin, RestOK, ViewSized
  <2> QED
      BY <1>6, <1>1, <1>2, <2>1 DEF View!Relogin
<1>7. CASE View!Write
  <2>1. handle_ref \in View!Effects /\ View!Leaves(handle_ref)
      BY <1>7 DEF View!Write, RestOK
  <2>2. EventsOK' /\ RestOK'
      BY <1>7, <2>1, LeavesType DEF View!Write, RestOK
  <2> QED
      BY <1>7, <1>1, <2>2 DEF View!Write
<1>8. CASE View!DeliverEvent
  <2> DEFINE ev == Head(wire)
             takers == {e \in View!Effects : View!Takes(e, ev)}
  <2>1. ev \in View!Effects \X View!Items /\ wire' \in Seq(View!Effects \X View!Items)
      BY <1>8 DEF View!DeliverEvent, EventsOK
  <2>2. PICK throws \in {FALSE} \cup {ev[2] # View!Closed /\ takers # {}} :
             /\ bridge' = [e \in View!Effects |->
                              View!OnPayload(e, ev, throws /\ e \in takers)]
             /\ page_closing' = [e \in View!Effects |->
                                    IF throws /\ e \in takers /\ View!ClosesNow(bridge[e])
                                    THEN "sent" ELSE page_closing[e]]
             /\ shown' = [e \in View!Effects |-> IF e \in takers /\ ~throws
                                                 THEN Append(shown[e], ev[2]) ELSE shown[e]]
             /\ IF takers = {} \/ throws THEN UNCHANGED <<handle_ref, ready>>
                ELSE IF ev[2] = View!Closed
                     THEN handle_ref' = View!NoHandle /\ ready' = FALSE
                ELSE ready' = (ready \/ handle_ref \in takers) /\ UNCHANGED handle_ref
      BY <1>8 DEF View!DeliverEvent
  <2>3. throws \in BOOLEAN
      OBVIOUS
  <2> HIDE DEF ev, takers
  <2>4. ASSUME NEW e \in View!Effects
        PROVE  Fits(View!OnPayload(e, ev, throws /\ e \in takers))
      BY <2>1, <2>3, PayloadType
  <2>5. BridgesOK'
      BY <2>2, <2>4 DEF BridgesOK, Fits
  <2>6. EventsOK'
      BY <2>1, <2>2 DEF EventsOK
  <2>7. RestOK'
      BY <1>8, <2>2, <2>3 DEF View!DeliverEvent, RestOK
  <2> QED
      BY <2>5, <2>6, <2>7
<1>9. ASSUME NEW e \in View!Effects, View!Continue(e)
      PROVE  BridgesOK' /\ EventsOK' /\ RestOK'
  <2> USE DEF View!Goto, View!FailOpen
  <2>1. CASE View!Unavailable(e)
    <3>1. RestOK'
        BY <2>1 DEF View!Unavailable, RestOK
    <3> QED
        BY <2>1, <3>1, <1>1, <1>2 DEF View!Unavailable
  <2>2. CASE View!Probed(e)
    <3>1. RestOK'
        BY <2>2 DEF View!Probed, RestOK
    <3> QED
        BY <2>2, <3>1, <1>1, <1>2 DEF View!Probed
  <2>3. CASE View!Listened(e)
    <3>1. RestOK'
        BY <2>3 DEF View!Listened, RestOK
    <3>2. Fits([bridge[e] EXCEPT !.listening = TRUE])
        BY <1>3 DEF Fits, BridgeSet
    <3>3. bridge' = [bridge EXCEPT ![e] = [bridge[e] EXCEPT !.listening = TRUE]]
        BY <2>3 DEF View!Listened, BridgesOK
    <3>4. BridgesOK'
        BY <3>2, <3>3, BridgeUpdate
    <3> QED
        BY <2>3, <3>1, <3>4, <1>2 DEF View!Listened
  <2>4. CASE View!ListenFails(e)
    <3>1. RestOK'
        BY <2>4 DEF View!ListenFails, RestOK
    <3> QED
        BY <2>4, <3>1, <1>1, <1>2 DEF View!ListenFails
  <2>5. Fits([bridge[e] EXCEPT !.listening = FALSE])
      BY <1>3 DEF Fits, BridgeSet
  <2>6. CASE View!Rejected(e)
    <3>1. RestOK'
        BY <2>6 DEF View!Rejected, RestOK
    <3>2. bridge' = [bridge EXCEPT ![e] = [bridge[e] EXCEPT !.listening = FALSE]]
        BY <2>6 DEF View!Rejected, BridgesOK
    <3>3. BridgesOK'
        BY <2>5, <3>2, BridgeUpdate
    <3> QED
        BY <2>6, <3>1, <3>3, <1>2 DEF View!Rejected
  <2>7. CASE View!RefuseSession(e)
    <3>1. RestOK'
        BY <2>7 DEF View!RefuseSession, RestOK
    <3>2. Fits([bridge[e] EXCEPT !.sent = TRUE])
        BY <1>3 DEF Fits, BridgeSet
    <3>3. bridge' = [bridge EXCEPT ![e] = [bridge[e] EXCEPT !.sent = TRUE]]
        BY <2>7 DEF View!RefuseSession, BridgesOK
    <3>4. BridgesOK'
        BY <3>2, <3>3, BridgeUpdate
    <3> QED
        BY <2>7, <3>1, <3>4, <1>2 DEF View!RefuseSession
  <2>8. CASE View!BindSession(e)
    <3> DEFINE Shut(n) == n > 0 /\ View!Replay(e)[n] = View!Closed
               Bound(n) == [bridge[e] EXCEPT !.bound = TRUE, !.prebind = <<>>,
                                             !.inactive = Shut(n) \/ n < Len(View!Replay(e)),
                                             !.remote_closed = Shut(n),
                                             !.failed = n < Len(View!Replay(e)),
                                             !.sent = n < Len(View!Replay(e)),
                                             !.listening = ~Shut(n) /\
                                                           ~(n < Len(View!Replay(e)))]
    <3>1. PICK n \in 0 .. Len(View!Replay(e)) :
              /\ shown' = [shown EXCEPT ![e] = @ \o SubSeq(View!Replay(e), 1, n)]
              /\ bridge' = [bridge EXCEPT ![e] = Bound(n)]
              /\ page_closing' = IF n < Len(View!Replay(e))
                                 THEN [page_closing EXCEPT ![e] = "sent"] ELSE page_closing
              /\ handle_ref' = IF Shut(n) THEN View!NoHandle ELSE handle_ref
        BY <2>8 DEF View!BindSession, BridgesOK
    <3>2. RestOK'
        BY <2>8, <3>1 DEF View!BindSession, RestOK
    <3>3. Fits(Bound(n))
      <4> DEFINE nothing == <<>>
      <4>1. nothing \in Seq(View!Effects \X View!Items) /\ Len(nothing) = 0
          OBVIOUS
      <4>2. Bound(n).prebind = nothing /\ 0 <= MaxPrebind
          BY <1>3 DEF Fits, BridgeSet, ViewSized
      <4>3. Shut(n) \in BOOLEAN /\ (n < Len(View!Replay(e))) \in BOOLEAN
          OBVIOUS
      <4> HIDE DEF Shut
      <4>4. bridge[e] \in BridgeSet
          BY <1>3 DEF Fits
      <4>5. Bound(n) \in BridgeSet
          BY <4>1, <4>3, <4>4, BindType
      <4> QED
          BY <4>1, <4>2, <4>5 DEF Fits
    <3> HIDE DEF Bound
    <3>4. BridgesOK'
        BY <3>1, <3>3, BridgeUpdate
    <3>5. View!Replay(e) \in Seq(View!Items)
        BY <1>3, OwnType DEF View!Replay, Fits, BridgeSet
    <3>6. SubSeq(View!Replay(e), 1, n) \in Seq(View!Items)
        BY <3>5
    <3>7. EventsOK'
        BY <2>8, <3>1, <3>6 DEF View!BindSession, EventsOK
    <3> QED
        BY <3>2, <3>4, <3>7
  <2>9. CASE View!KeepHandle(e)
    <3>1. RestOK'
        BY <2>9 DEF View!KeepHandle, RestOK
    <3> QED
        BY <2>9, <3>1, <1>1, <1>2 DEF View!KeepHandle
  <2>10. CASE View!DropHandle(e)
    <3>1. BridgesOK' /\ RestOK'
        BY <2>10, DisposeType DEF View!DropHandle, RestOK
    <3> QED
        BY <2>10, <3>1, <1>2 DEF View!DropHandle
  <2>11. CASE View!CloseAnswered(e)
    <3>1. RestOK'
        BY <2>11 DEF View!CloseAnswered, RestOK
    <3>2. bridge' = [bridge EXCEPT ![e] = [bridge[e] EXCEPT !.listening = FALSE]]
        BY <2>11 DEF View!CloseAnswered, BridgesOK
    <3>3. BridgesOK'
        BY <2>5, <3>2, BridgeUpdate
    <3> QED
        BY <2>11, <3>1, <3>3, <1>2 DEF View!CloseAnswered
  <2> QED
      BY <1>9, <2>1, <2>2, <2>3, <2>4, <2>6, <2>7, <2>8, <2>9, <2>10, <2>11 DEF View!Continue
<1>10. ASSUME NEW e \in View!Effects,
              View!NativeStep(e) \/ View!NativeAnswers(e) \/ View!CloseArrives(e)
       PROVE  BridgesOK' /\ EventsOK' /\ RestOK'
  <2>1. CASE View!NativeOpens(e)
    <3>1. RestOK'
        BY <2>1 DEF View!NativeOpens, RestOK
    <3> QED
        BY <2>1, <3>1, <1>1, <1>2 DEF View!NativeOpens
  <2>2. CASE View!NativeFails(e)
    <3>1. RestOK'
        BY <2>2 DEF View!NativeFails, RestOK
    <3> QED
        BY <2>2, <3>1, <1>1, <1>2 DEF View!NativeFails
  <2>3. CASE View!Emits(e)
    <3>1. session_produced[e] + 1 \in View!Items \cap 0 .. MaxOutput
        BY <2>3 DEF View!Emits, RestOK, View!Items, ViewSized
    <3>2. EventsOK'
        BY <2>3, <3>1 DEF View!Emits, EventsOK
    <3>3. RestOK'
        BY <2>3, <3>1 DEF View!Emits, RestOK
    <3> QED
        BY <2>3, <3>2, <3>3, <1>1 DEF View!Emits
  <2>4. CASE View!NativeEnds(e)
    <3>1. EventsOK' /\ RestOK'
        BY <2>4, LeavesType DEF View!NativeEnds, RestOK
    <3> QED
        BY <2>4, <3>1, <1>1 DEF View!NativeEnds
  <2>5. CASE View!NativeAnswers(e)
    <3>1. RestOK'
        BY <2>5 DEF View!NativeAnswers, RestOK
    <3> QED
        BY <2>5, <3>1, <1>1, <1>2 DEF View!NativeAnswers
  <2>6. CASE View!CloseArrives(e)
    <3>1. CASE View!Leaves(e)
      <4>1. EventsOK' /\ RestOK'
          BY <2>6, <3>1, LeavesType DEF View!CloseArrives, RestOK
      <4> QED
          BY <2>6, <4>1, <1>1 DEF View!CloseArrives
    <3>2. CASE UNCHANGED <<native, finished, wire>>
      <4>1. RestOK'
          BY <2>6, <3>2 DEF View!CloseArrives, RestOK
      <4> QED
          BY <2>6, <3>2, <4>1, <1>1, <1>2 DEF View!CloseArrives
    <3> QED
        BY <2>6, <3>1, <3>2 DEF View!CloseArrives
  <2> QED
      BY <1>10, <2>1, <2>2, <2>3, <2>4, <2>5, <2>6 DEF View!NativeStep
<1>11. CASE UNCHANGED View!vars
  <2>1. RestOK'
      BY <1>11 DEF View!vars, RestOK
  <2> QED
      BY <1>11, <2>1, <1>1, <1>2 DEF View!vars
<1> QED
    BY <1>4, <1>5, <1>6, <1>7, <1>8, <1>9, <1>10, <1>11 DEF View!Next

----------------------------------------------------------------------------
(* Events.                                                                 *)

\* The terminals that take the event that is delivered.
Takers == {e \in View!Effects : View!Takes(e, Head(wire))}

\* DeliverEvent with what the terminal's onOutput makes of the event.
Delivers(throws) ==
    /\ wire # <<>> /\ wire' = Tail(wire)
    /\ throws => Head(wire)[2] # View!Closed
    /\ bridge' = [e \in View!Effects |->
                     View!OnPayload(e, Head(wire), throws /\ e \in Takers)]
    /\ shown' = [e \in View!Effects |-> IF e \in Takers /\ ~throws
                                        THEN Append(shown[e], Head(wire)[2]) ELSE shown[e]]
    /\ IF Takers = {} \/ throws THEN UNCHANGED <<handle_ref, ready>>
       ELSE IF Head(wire)[2] = View!Closed THEN handle_ref' = View!NoHandle /\ ready' = FALSE
       ELSE ready' = (ready \/ handle_ref \in Takers) /\ UNCHANGED handle_ref
    /\ UNCHANGED <<effect, mounted, pc, native, session_produced, finished>>

LEMMA DeliverCases == View!DeliverEvent => \E throws \in BOOLEAN : Delivers(throws)
BY DEF View!DeliverEvent, Delivers, Takers, View!nativeVars

\* A listener that does nothing with an event.
Ignores(e, ev) == ~View!Listens(e) \/ (bridge[e].bound /\ ~View!IsOwn(e, ev))

LEMMA PayloadIgnored ==
    ASSUME NEW e, NEW ev, NEW throws, Ignores(e, ev)
    PROVE  View!OnPayload(e, ev, throws) = bridge[e]
BY DEF Ignores, View!OnPayload

\* A listener that waits for the session id.
LEMMA PayloadQueued ==
    ASSUME BridgesOK, NEW e \in View!Effects, NEW ev, NEW throws,
           View!Listens(e), ~bridge[e].bound
    PROVE  LET b == View!OnPayload(e, ev, throws)
           IN  /\ ~b.bound /\ ~b.inactive /\ ~b.disposed /\ b.listening
               /\ b.remote_closed = bridge[e].remote_closed
               /\ ~b.overflowed => /\ ~bridge[e].overflowed
                                   /\ b.prebind = Append(bridge[e].prebind, ev)
<1>1. View!OnPayload(e, ev, throws) = View!Queue(bridge[e], ev)
    BY DEF View!OnPayload
<1>2. bridge[e] \in BridgeSet
    BY DEF BridgesOK
<1>3. ~bridge[e].inactive /\ ~bridge[e].disposed /\ bridge[e].listening
    BY DEF View!Listens
<1> QED
    BY <1>1, <1>2, <1>3 DEF View!Queue, BridgeSet

\* A listener that gets an event of its own session.
LEMMA PayloadDelivered ==
    ASSUME BridgesOK, NEW e \in View!Effects, NEW ev, NEW throws \in BOOLEAN,
           View!Listens(e), bridge[e].bound, View!IsOwn(e, ev)
    PROVE  LET b == View!OnPayload(e, ev, throws)
           IN  /\ b.bound /\ b.prebind = bridge[e].prebind
               /\ b.overflowed = bridge[e].overflowed /\ b.disposed = bridge[e].disposed
               /\ throws => b.failed /\ b.inactive /\ ~b.listening
                            /\ b.remote_closed = bridge[e].remote_closed
               /\ ~throws /\ ev[2] = View!Closed => b.remote_closed /\ ~b.listening
               /\ ~throws /\ ev[2] # View!Closed => b = bridge[e]
<1>1. View!OnPayload(e, ev, throws) = View!Deliver(bridge[e], ev, throws)
    BY DEF View!OnPayload
<1>2. bridge[e] \in BridgeSet
    BY DEF BridgesOK
<1> QED
    BY <1>1, <1>2 DEF View!Deliver, BridgeSet

\* Every event meets one of the three.
LEMMA PayloadCases ==
    ASSUME NEW e, NEW ev
    PROVE  \/ Ignores(e, ev)
           \/ View!Listens(e) /\ ~bridge[e].bound
           \/ View!Listens(e) /\ bridge[e].bound /\ View!IsOwn(e, ev)
BY DEF Ignores

\* An event of a session is one of its events and none of another's.
LEMMA WireGrows ==
    ASSUME EventsOK, NEW d \in View!Effects, NEW e \in View!Effects, NEW x \in View!Items,
           wire' = Append(wire, <<e, x>>)
    PROVE  View!OwnItems(d, wire') = IF d = e THEN Append(View!OwnItems(d, wire), x)
                                     ELSE View!OwnItems(d, wire)
<1> DEFINE ev == <<e, x>>
<1>1. ev \in View!Effects \X View!Items /\ ev[1] = e /\ ev[2] = x
    OBVIOUS
<1> HIDE DEF ev
<1>2. wire \in Seq(View!Effects \X View!Items)
    BY DEF EventsOK
<1>3. OwnGrows(d, wire, ev)
    BY <1>1, <1>2, OwnAppend
<1> QED
    BY <1>1, <1>3 DEF ev, OwnGrows

LEMMA WireShrinks ==
    ASSUME EventsOK, NEW d \in View!Effects, wire # <<>>
    PROVE  /\ Head(wire) \in View!Effects \X View!Items
           /\ View!OwnItems(d, wire) \in Seq(View!Items)
           /\ View!OwnItems(d, Tail(wire)) \in Seq(View!Items)
           /\ View!IsOwn(d, Head(wire)) =>
                 View!OwnItems(d, wire) = <<Head(wire)[2]>> \o View!OwnItems(d, Tail(wire))
           /\ ~View!IsOwn(d, Head(wire)) =>
                 View!OwnItems(d, wire) = View!OwnItems(d, Tail(wire))
<1>1. /\ wire \in Seq(View!Effects \X View!Items)
      /\ Tail(wire) \in Seq(View!Effects \X View!Items)
    BY DEF EventsOK
<1>2. Head(wire) \in View!Effects \X View!Items
    BY <1>1
<1>3. View!OwnItems(d, wire) \in Seq(View!Items)
    BY <1>1, OwnType
<1>4. View!OwnItems(d, Tail(wire)) \in Seq(View!Items)
    BY <1>1, OwnType
<1>5. OwnStarts(d, wire)
    BY <1>1, OwnHead
<1> QED
    BY <1>2, <1>3, <1>4, <1>5 DEF View!IsOwn, OwnStarts

LEMMA WireStaysForeign ==
    ASSUME EventsOK, NEW d \in View!Effects, wire # <<>>, View!OwnItems(d, wire) = <<>>
    PROVE  View!OwnItems(d, Tail(wire)) = <<>>
<1> DEFINE rest == View!OwnItems(d, Tail(wire))
           x == Head(wire)[2]
<1>1. rest \in Seq(View!Items) /\ x \in View!Items
    BY WireShrinks
<1>2. View!OwnItems(d, wire) = <<x>> \o rest \/ View!OwnItems(d, wire) = rest
    BY WireShrinks
<1> HIDE DEF rest, x
<1>3. <<x>> \o rest # <<>>
    BY <1>1
<1> QED
    BY <1>2, <1>3 DEF rest

----------------------------------------------------------------------------
(* The steps keep the invariant.                                           *)

ViewParts ==
    BridgesOK /\ EventsOK /\ RestOK /\ FreshInv /\ StreamInv /\ WaitInv /\ HandleInv

\* Whose handle the page holds, its effect is live.
LEMMA HeldIsLive ==
    ASSUME ViewParts, handle_ref # View!NoHandle
    PROVE  /\ handle_ref \in View!Effects /\ View!Mounted(handle_ref)
           /\ pc[handle_ref] = "live" /\ ~bridge[handle_ref].remote_closed
           /\ bridge[handle_ref].inactive => bridge[handle_ref].failed
BY DEF ViewParts, RestOK, HandleInv, HeldIsOpen, View!ReadyIsAttached

\* Nothing happens to an effect before its open command.
LEMMA FreshStep ==
    ASSUME ViewSized
    PROVE  ViewParts /\ [View!Next]_View!vars => FreshInv'
<1> SUFFICES ASSUME ViewParts, [View!Next]_View!vars, NEW d \in View!Effects
             PROVE  Fresh(d)'
    BY DEF FreshInv
<1> USE DEF View!viewVars, View!nativeVars
<1>1. Fresh(d) /\ EventsOK /\ BridgesOK /\ RestOK
    BY DEF ViewParts, FreshInv
<1>2. ASSUME UNCHANGED <<native, session_produced, finished, shown, bridge, wire, effect>>,
             pc'[d] \in {"none", "probe", "listen"} => pc[d] \in {"none", "probe", "listen"},
             d > effect => pc'[d] = pc[d]
      PROVE  Fresh(d)'
    BY <1>1, <1>2 DEF Fresh
<1>3. ASSUME NEW e \in View!Effects, pc[e] \notin {"none", "probe", "listen"},
             pc' = pc, effect' = effect,
             d # e => /\ native'[d] = native[d] /\ session_produced'[d] = session_produced[d]
                      /\ finished'[d] = finished[d] /\ shown'[d] = shown[d]
                      /\ bridge'[d] = bridge[d]
                      /\ View!OwnItems(d, wire') = View!OwnItems(d, wire)
      PROVE  Fresh(d)'
    BY <1>1, <1>3 DEF Fresh
<1>4. ASSUME NEW e \in View!Effects, native[e] # "none"
      PROVE  pc[e] \notin {"none", "probe", "listen"}
    BY <1>4 DEF ViewParts, FreshInv, Fresh
<1>5. ASSUME NEW e \in View!Effects, native[e] # "none", View!Leaves(e),
             UNCHANGED <<pc, effect, session_produced, shown, bridge>>
      PROVE  Fresh(d)'
  <2>1. pc[e] \notin {"none", "probe", "listen"}
      BY <1>4, <1>5
  <2>2. d # e => native'[d] = native[d] /\ finished'[d] = finished[d]
      BY <1>1, <1>5 DEF View!Leaves, RestOK
  <2>3. View!Closed \in View!Items
      BY DEF View!Closed, View!Items, ViewSized
  <2>4. d # e => View!OwnItems(d, wire') = View!OwnItems(d, wire)
      BY <1>1, <1>5, <2>3, WireGrows DEF View!Leaves
  <2> QED
      BY <1>3, <1>5, <2>1, <2>2, <2>4
<1>6. CASE View!Mount
  <2>1. /\ effect' = effect + 1 /\ effect + 1 \in View!Effects
        /\ pc' = [pc EXCEPT ![effect + 1] = "probe"]
      BY <1>1, <1>6 DEF View!Mount, RestOK, View!Effects, ViewSized
  <2>2. d \in Nat /\ effect \in Nat
      BY <1>1 DEF RestOK, View!Effects, ViewSized
  <2>3. d > effect' => d # effect + 1 /\ d > effect
      BY <2>1, <2>2
  <2>4. pc'[d] \in {"none", "probe", "listen"} => pc[d] \in {"none", "probe", "listen"}
      BY <1>1, <2>1, <2>2 DEF Fresh, RestOK
  <2>5. d > effect' => pc'[d] = "none"
      BY <1>1, <2>1, <2>3 DEF Fresh, RestOK
  <2> QED
      BY <1>1, <1>6, <2>4, <2>5 DEF View!Mount, Fresh
<1>7. CASE View!Unmount
  <2>1. CASE handle_ref # View!NoHandle
    <3>1. handle_ref \in View!Effects /\ pc[handle_ref] = "live" /\ View!Dispose(handle_ref)
        BY <1>7, <2>1, HeldIsLive DEF View!Unmount
    <3>2. /\ d # handle_ref => pc'[d] = pc[d] /\ bridge'[d] = bridge[d]
          /\ pc'[handle_ref] \in {"disposing", "over"}
        BY <1>1, <3>1 DEF View!Dispose, RestOK, BridgesOK
    <3>3. handle_ref <= effect
        BY <1>1, <3>1 DEF ViewParts, FreshInv, Fresh, View!Effects, RestOK, ViewSized
    <3> QED
        BY <1>1, <1>7, <3>1, <3>2, <3>3 DEF View!Unmount, Fresh
  <2>2. CASE handle_ref = View!NoHandle
      BY <1>2, <1>7, <2>2 DEF View!Unmount
  <2> QED
      BY <2>1, <2>2
<1>8. CASE View!Relogin
    BY <1>2, <1>8 DEF View!Relogin
<1>9. CASE View!Write
    BY <1>5, <1>9, HeldIsLive DEF View!Write
<1>10. CASE View!DeliverEvent
  <2>1. PICK throws \in BOOLEAN : Delivers(throws)
      BY <1>10, DeliverCases
  <2>2. CASE pc[d] \in {"none", "probe", "listen"}
    <3>1. bridge[d] = View!NoBridge
        BY <1>1, <2>2 DEF Fresh
    <3>2. ~View!Listens(d)
        BY <3>1 DEF View!Listens, View!NoBridge
    <3>3. bridge'[d] = bridge[d]
        BY <2>1, <3>2, PayloadIgnored DEF Delivers, Ignores
    <3>4. shown'[d] = shown[d]
        BY <2>1, <3>2 DEF Delivers, Takers, View!Takes
    <3>5. View!OwnItems(d, wire') = <<>>
        BY <1>1, <2>1, <2>2, WireStaysForeign DEF Delivers, Fresh
    <3> QED
        BY <1>1, <2>1, <3>3, <3>4, <3>5 DEF Delivers, Fresh
  <2>3. CASE pc[d] \notin {"none", "probe", "listen"}
      BY <1>1, <2>1, <2>3 DEF Delivers, Fresh
  <2> QED
      BY <2>2, <2>3
<1>11. ASSUME NEW e \in View!Effects, View!Continue(e)
       PROVE  Fresh(d)'
  <2> USE DEF View!Goto
  <2> USE DEF View!Continue, View!Unavailable, View!Probed, View!Listened, View!ListenFails,
              View!Rejected, View!RefuseSession, View!BindSession, View!KeepHandle,
              View!DropHandle, View!Dispose, View!CloseAnswered
  <2>1. pc[e] # "none"
      BY <1>11
  <2>5. d # e => pc'[d] = pc[d]
      BY <1>1, <1>11 DEF RestOK
  <2>6. UNCHANGED <<effect, session_produced, finished, wire>>
      BY <1>11
  <2>7. e <= effect
      BY <1>1, <2>1 DEF ViewParts, FreshInv, Fresh, RestOK, View!Effects, ViewSized
  <2>2. d # e => bridge'[d] = bridge[d] /\ shown'[d] = shown[d] /\ native'[d] = native[d]
      BY <1>1, <1>11 DEF RestOK, BridgesOK, EventsOK
  <2>3. CASE d # e
      BY <1>1, <2>5, <2>6, <2>2, <2>3 DEF Fresh
  <2>4. CASE d = e
    <3>1. CASE View!Probed(e)
        BY <1>1, <2>7, <2>4, <3>1 DEF Fresh, RestOK
    <3>2. CASE ~View!Probed(e)
      <4>1. pc'[e] \notin {"none", "probe", "listen"}
          BY <1>1, <1>11, <3>2 DEF RestOK
      <4>2. e \in Nat /\ effect \in Nat
          BY <1>1 DEF RestOK, View!Effects, ViewSized
      <4> QED
          BY <2>6, <2>7, <2>4, <4>1, <4>2 DEF Fresh
    <3> QED
        BY <3>1, <3>2
  <2> QED
      BY <2>3, <2>4
<1>12. ASSUME NEW e \in View!Effects,
              View!NativeStep(e) \/ View!NativeAnswers(e) \/ View!CloseArrives(e)
       PROVE  Fresh(d)'
  <2>1. CASE View!NativeOpens(e)
      BY <1>1, <1>3, <1>4, <2>1 DEF View!NativeOpens, RestOK
  <2>2. CASE View!NativeFails(e)
      BY <1>1, <1>3, <1>4, <2>2 DEF View!NativeFails, RestOK
  <2>3. CASE View!Emits(e)
    <3>1. session_produced[e] + 1 \in View!Items
        BY <1>1, <2>3 DEF View!Emits, RestOK, View!Items, ViewSized
    <3>2. d # e => View!OwnItems(d, wire') = View!OwnItems(d, wire)
        BY <1>1, <2>3, <3>1, WireGrows DEF View!Emits
    <3>3. d # e => session_produced'[d] = session_produced[d]
        BY <1>1, <2>3 DEF View!Emits, RestOK
    <3>4. pc[e] \notin {"none", "probe", "listen"}
        BY <1>4, <2>3 DEF View!Emits
    <3> QED
        BY <1>3, <2>3, <3>2, <3>3, <3>4 DEF View!Emits
  <2>4. CASE View!NativeEnds(e)
      BY <1>5, <2>4 DEF View!NativeEnds
  <2>5. CASE View!NativeAnswers(e)
      BY <1>2, <2>5 DEF View!NativeAnswers
  <2>6. CASE View!CloseArrives(e)
    <3>1. CASE native[e] = "open" /\ View!Leaves(e)
        BY <1>5, <2>6, <3>1 DEF View!CloseArrives
    <3>2. CASE UNCHANGED <<native, finished, wire>>
        BY <1>2, <2>6, <3>2 DEF View!CloseArrives
    <3> QED
        BY <2>6, <3>1, <3>2 DEF View!CloseArrives
  <2> QED
      BY <1>12, <2>1, <2>2, <2>3, <2>4, <2>5, <2>6 DEF View!NativeStep
<1>13. CASE UNCHANGED View!vars
    BY <1>2, <1>13 DEF View!vars
<1> QED
    BY <1>6, <1>7, <1>8, <1>9, <1>10, <1>11, <1>12, <1>13 DEF View!Next

\* A step that begins or ends to listen, or that sends the close command, leaves the other
\* locals alone.
SameHandle(d) ==
    /\ bridge'[d].bound = bridge[d].bound /\ bridge'[d].prebind = bridge[d].prebind
    /\ bridge'[d].inactive = bridge[d].inactive /\ bridge'[d].failed = bridge[d].failed
    /\ bridge'[d].remote_closed = bridge[d].remote_closed
    /\ bridge'[d].overflowed = bridge[d].overflowed
    /\ bridge'[d].disposed = bridge[d].disposed

LEMMA ListenChange ==
    ASSUME BridgesOK, NEW d \in View!Effects, NEW e \in View!Effects, NEW x \in BOOLEAN,
           bridge' = [bridge EXCEPT ![e].listening = x]
    PROVE  SameHandle(d) /\ (d # e => bridge'[d] = bridge[d]) /\ bridge'[e].listening = x
BY DEF SameHandle, BridgesOK, BridgeSet

LEMMA SentChange ==
    ASSUME BridgesOK, NEW d \in View!Effects, NEW e \in View!Effects,
           bridge' = [bridge EXCEPT ![e].sent = TRUE]
    PROVE  SameHandle(d) /\ bridge'[d].listening = bridge[d].listening
BY DEF SameHandle, BridgesOK, BridgeSet

\* Nothing follows Closed, and nothing is kept behind a bound handle.
LEMMA StreamStep ==
    ASSUME ViewSized
    PROVE  ViewParts /\ [View!Next]_View!vars => StreamInv'
<1> SUFFICES ASSUME ViewParts, [View!Next]_View!vars, NEW d \in View!Effects
             PROVE  Streaming(d)'
    BY DEF StreamInv
<1> USE DEF View!viewVars, View!nativeVars
<1>1. Streaming(d) /\ EventsOK /\ BridgesOK /\ RestOK
    BY DEF ViewParts, StreamInv
<1>2. ASSUME native'[d] # "gone" => native[d] # "gone" /\ finished'[d] = finished[d],
             bridge'[d].bound => bridge[d].bound /\ bridge'[d].prebind = bridge[d].prebind
      PROVE  Streaming(d)'
    BY <1>1, <1>2 DEF Streaming
<1>3. ASSUME NEW e \in View!Effects, View!Leaves(e), UNCHANGED bridge
      PROVE  Streaming(d)'
    BY <1>1, <1>3 DEF Streaming, View!Leaves, RestOK
<1>4. ASSUME NEW e \in View!Effects, View!Dispose(e)
      PROVE  bridge'[d].bound = bridge[d].bound /\ bridge'[d].prebind = bridge[d].prebind
    BY <1>1, <1>4 DEF View!Dispose, BridgesOK, BridgeSet
<1>5. CASE View!Mount
    BY <1>2, <1>5 DEF View!Mount
<1>6. CASE View!Unmount
  <2>1. CASE handle_ref # View!NoHandle
      BY <1>2, <1>4, <1>6, <2>1, HeldIsLive DEF View!Unmount
  <2>2. CASE handle_ref = View!NoHandle
      BY <1>2, <1>6, <2>2 DEF View!Unmount
  <2> QED
      BY <2>1, <2>2
<1>7. CASE View!Relogin
    BY <1>2, <1>7 DEF View!Relogin
<1>8. CASE View!Write
    BY <1>3, <1>8, HeldIsLive DEF View!Write
<1>9. CASE View!DeliverEvent
  <2>1. PICK throws \in BOOLEAN : Delivers(throws)
      BY <1>9, DeliverCases
  <2> DEFINE t == throws /\ d \in Takers
  <2>2. bridge'[d] = View!OnPayload(d, Head(wire), t) /\ t \in BOOLEAN
      BY <2>1 DEF Delivers
  <2> HIDE DEF t
  <2>3. UNCHANGED <<native, finished>>
      BY <2>1 DEF Delivers
  <2>4. CASE Ignores(d, Head(wire))
      BY <1>2, <2>2, <2>3, <2>4, PayloadIgnored
  <2>5. CASE View!Listens(d) /\ ~bridge[d].bound
      BY <1>1, <1>2, <2>2, <2>3, <2>5, PayloadQueued
  <2>6. CASE View!Listens(d) /\ bridge[d].bound /\ View!IsOwn(d, Head(wire))
      BY <1>1, <1>2, <2>2, <2>3, <2>6, PayloadDelivered
  <2> QED
      BY <2>4, <2>5, <2>6, PayloadCases
<1>10. ASSUME NEW e \in View!Effects, View!Continue(e)
       PROVE  Streaming(d)'
  <2> USE DEF View!Goto, View!FailOpen
  <2>1. CASE View!Unavailable(e) \/ View!Probed(e) \/ View!ListenFails(e) \/ View!KeepHandle(e)
      BY <1>2, <2>1 DEF View!Unavailable, View!Probed, View!ListenFails, View!KeepHandle
  <2>2. CASE View!Listened(e)
    <3>1. native'[d] = native[d] \/ native[d] = "none"
        BY <1>1, <2>2 DEF View!Listened, RestOK, ViewParts, FreshInv, Fresh
    <3>2. bridge'[d].bound = bridge[d].bound /\ bridge'[d].prebind = bridge[d].prebind
        BY <1>1, <2>2 DEF View!Listened, BridgesOK, BridgeSet
    <3> QED
        BY <1>2, <2>2, <3>1, <3>2 DEF View!Listened
  <2>3. CASE View!Rejected(e) \/ View!RefuseSession(e) \/ View!CloseAnswered(e)
    <3>1. SameHandle(d)
        BY <1>1, <2>3, ListenChange, SentChange DEF View!Rejected, View!RefuseSession,
               View!CloseAnswered
    <3> QED
        BY <1>2, <2>3, <3>1
           DEF SameHandle, View!Rejected, View!RefuseSession, View!CloseAnswered
  <2>4. CASE View!BindSession(e)
    <3>1. CASE d = e
      <4>1. bridge'[e].prebind = <<>>
          BY <1>1, <2>4 DEF View!BindSession, BridgesOK, BridgeSet
      <4> QED
          BY <1>1, <2>4, <3>1, <4>1 DEF View!BindSession, Streaming
    <3>2. CASE d # e
      <4>1. bridge'[d] = bridge[d]
          BY <1>1, <2>4, <3>2 DEF View!BindSession, BridgesOK
      <4> QED
          BY <1>2, <2>4, <4>1 DEF View!BindSession
    <3> QED
        BY <3>1, <3>2
  <2>5. CASE View!DropHandle(e)
      BY <1>2, <1>4, <2>5 DEF View!DropHandle
  <2> QED
      BY <1>10, <2>1, <2>2, <2>3, <2>4, <2>5 DEF View!Continue
<1>11. ASSUME NEW e \in View!Effects,
              View!NativeStep(e) \/ View!NativeAnswers(e) \/ View!CloseArrives(e)
       PROVE  Streaming(d)'
  <2>1. CASE View!NativeOpens(e)
    <3>1. native'[d] # "gone" => native[d] # "gone"
        BY <1>1, <2>1 DEF View!NativeOpens, RestOK
    <3> QED
        BY <1>2, <2>1, <3>1 DEF View!NativeOpens
  <2>2. CASE View!NativeFails(e)
    <3>1. native'[d] # "gone" => native[d] # "gone"
        BY <1>1, <2>2 DEF View!NativeFails, RestOK
    <3> QED
        BY <1>2, <2>2, <3>1 DEF View!NativeFails
  <2>3. CASE View!Emits(e) \/ View!NativeAnswers(e)
      BY <1>2, <2>3 DEF View!Emits, View!NativeAnswers
  <2>4. CASE View!NativeEnds(e)
      BY <1>3, <2>4 DEF View!NativeEnds
  <2>5. CASE View!CloseArrives(e)
    <3>1. CASE View!Leaves(e)
        BY <1>3, <2>5, <3>1 DEF View!CloseArrives
    <3>2. CASE UNCHANGED <<native, finished, wire>>
        BY <1>2, <2>5, <3>2 DEF View!CloseArrives
    <3> QED
        BY <2>5, <3>1, <3>2 DEF View!CloseArrives
  <2> QED
      BY <1>11, <2>1, <2>2, <2>3, <2>4, <2>5 DEF View!NativeStep
<1>12. CASE UNCHANGED View!vars
    BY <1>2, <1>12 DEF View!vars
<1> QED
    BY <1>5, <1>6, <1>7, <1>8, <1>9, <1>10, <1>11, <1>12 DEF View!Next

\* A handle that can be kept stays so until its effect goes on.
LEMMA KeepableStep ==
    ASSUME ViewSized
    PROVE  ViewParts /\ [View!Next]_View!vars => \A d \in View!Effects : Keepable(d)'
<1> SUFFICES ASSUME ViewParts, [View!Next]_View!vars, NEW d \in View!Effects
             PROVE  Keepable(d)'
    OBVIOUS
<1> USE DEF View!viewVars, View!nativeVars
<1>1. Keepable(d) /\ EventsOK /\ BridgesOK /\ RestOK
    BY DEF ViewParts, HandleInv
<1>2. ASSUME pc'[d] = pc[d] \/ pc'[d] \notin {"bound", "live"} \/ pc[d] \in {"bound", "live"},
             bridge'[d].inactive = bridge[d].inactive,
             bridge'[d].remote_closed = bridge[d].remote_closed,
             bridge'[d].failed = bridge[d].failed
      PROVE  Keepable(d)'
    BY <1>1, <1>2 DEF Keepable
<1>3. ASSUME NEW e \in View!Effects, View!Dispose(e)
      PROVE  Keepable(d)'
    BY <1>1, <1>3 DEF View!Dispose, BridgesOK, RestOK, Keepable
<1>4. ASSUME UNCHANGED <<pc, bridge>>
      PROVE  Keepable(d)'
    BY <1>2, <1>4
<1>5. CASE View!Mount
    BY <1>1, <1>2, <1>5 DEF View!Mount, RestOK
<1>6. CASE View!Unmount
    BY <1>3, <1>4, <1>6, HeldIsLive DEF View!Unmount
<1>7. CASE View!Relogin \/ View!Write
    BY <1>4, <1>7 DEF View!Relogin, View!Write
<1>8. CASE View!DeliverEvent
  <2>1. PICK throws \in BOOLEAN : Delivers(throws)
      BY <1>8, DeliverCases
  <2> DEFINE t == throws /\ d \in Takers
  <2>2. bridge'[d] = View!OnPayload(d, Head(wire), t) /\ t \in BOOLEAN
      BY <2>1 DEF Delivers
  <2> HIDE DEF t
  <2>3. pc' = pc
      BY <2>1 DEF Delivers
  <2>4. CASE Ignores(d, Head(wire))
      BY <1>2, <2>2, <2>3, <2>4, PayloadIgnored
  <2>5. CASE View!Listens(d) /\ ~bridge[d].bound
      BY <1>1, <2>2, <2>3, <2>5, PayloadQueued DEF Keepable
  <2>6. CASE View!Listens(d) /\ bridge[d].bound /\ View!IsOwn(d, Head(wire))
      BY <1>1, <2>2, <2>3, <2>6, PayloadDelivered DEF Keepable
  <2> QED
      BY <2>4, <2>5, <2>6, PayloadCases
<1>9. ASSUME NEW e \in View!Effects, View!Continue(e)
      PROVE  Keepable(d)'
  <2> USE DEF View!Goto, View!FailOpen
  <2>1. CASE View!Unavailable(e) \/ View!Probed(e) \/ View!ListenFails(e) \/ View!KeepHandle(e)
      BY <1>1, <1>2, <2>1 DEF View!Unavailable, View!Probed, View!ListenFails,
             View!KeepHandle, RestOK
  <2>2. CASE \/ View!Listened(e) \/ View!Rejected(e) \/ View!RefuseSession(e)
             \/ View!CloseAnswered(e)
    <3>1. SameHandle(d)
        BY <1>1, <2>2, ListenChange, SentChange DEF View!Listened, View!Rejected,
               View!RefuseSession, View!CloseAnswered
    <3>2. pc'[d] = pc[d] \/ pc'[d] \notin {"bound", "live"}
        BY <1>1, <2>2 DEF View!Listened, View!Rejected, View!RefuseSession,
               View!CloseAnswered, RestOK
    <3> QED
        BY <1>2, <3>1, <3>2 DEF SameHandle
  <2>3. CASE View!BindSession(e)
    <3>1. CASE d = e
      <4>1. bridge'[e].inactive => bridge'[e].remote_closed \/ bridge'[e].failed
          BY <1>1, <2>3 DEF View!BindSession, BridgesOK, BridgeSet
      <4> QED
          BY <3>1, <4>1 DEF Keepable
    <3>2. CASE d # e
        BY <1>1, <1>2, <2>3, <3>2 DEF View!BindSession, BridgesOK, RestOK
    <3> QED
        BY <3>1, <3>2
  <2>4. CASE View!DropHandle(e)
      BY <1>3, <2>4 DEF View!DropHandle
  <2> QED
      BY <1>9, <2>1, <2>2, <2>3, <2>4 DEF View!Continue
<1>10. ASSUME NEW e \in View!Effects,
              View!NativeStep(e) \/ View!NativeAnswers(e) \/ View!CloseArrives(e)
       PROVE  Keepable(d)'
    BY <1>4, <1>10 DEF View!NativeStep, View!NativeOpens, View!NativeFails, View!Emits,
           View!NativeEnds, View!NativeAnswers, View!CloseArrives
<1>11. CASE UNCHANGED View!vars
    BY <1>4, <1>11 DEF View!vars
<1> QED
    BY <1>5, <1>6, <1>7, <1>8, <1>9, <1>10, <1>11 DEF View!Next

\* The page's handle is the one of its effect, whatever it answers late.
LEMMA AttachStep ==
    ASSUME ViewSized
    PROVE  ViewParts /\ [View!Next]_View!vars => View!ReadyIsAttached' /\ HeldIsOpen'
<1> DEFINE Attached == View!ReadyIsAttached /\ HeldIsOpen
<1> SUFFICES ASSUME ViewParts, [View!Next]_View!vars
             PROVE  Attached'
    OBVIOUS
<1> USE DEF View!viewVars, View!nativeVars, View!Mounted
<1>1. Attached /\ EventsOK /\ BridgesOK /\ RestOK
    BY DEF ViewParts, HandleInv
<1>2. ASSUME ready' => ready, handle_ref' = handle_ref,
             handle_ref # View!NoHandle =>
                 /\ mounted' = mounted /\ effect' = effect
                 /\ pc'[handle_ref] = pc[handle_ref]
                 /\ bridge'[handle_ref] = bridge[handle_ref] \/ SameHandle(handle_ref)
      PROVE  Attached'
    BY <1>1, <1>2 DEF View!ReadyIsAttached, HeldIsOpen, SameHandle
<1>3. ASSUME handle_ref' = View!NoHandle, ~ready'
      PROVE  Attached'
    BY <1>3 DEF View!ReadyIsAttached, HeldIsOpen
<1>4. ASSUME UNCHANGED <<ready, handle_ref, mounted, effect, pc, bridge>>
      PROVE  Attached'
    BY <1>2, <1>4
<1>5. CASE View!Mount
  <2>1. handle_ref = View!NoHandle
      BY <1>1, <1>5 DEF View!Mount, View!ReadyIsAttached
  <2> QED
      BY <1>3, <1>5, <2>1 DEF View!Mount
<1>6. CASE View!Unmount
    BY <1>3, <1>6 DEF View!Unmount
<1>7. CASE View!Relogin \/ View!Write
    BY <1>4, <1>7 DEF View!Relogin, View!Write
<1>8. CASE View!DeliverEvent
  <2>1. PICK throws \in BOOLEAN : Delivers(throws)
      BY <1>8, DeliverCases
  <2>2. UNCHANGED <<mounted, effect, pc>>
      BY <2>1 DEF Delivers
  <2>3. CASE handle_ref' = View!NoHandle /\ handle_ref # View!NoHandle
      BY <1>3, <2>1, <2>3 DEF Delivers
  <2>4. CASE handle_ref' = handle_ref /\ handle_ref = View!NoHandle
    <3>1. View!NoHandle \notin Takers
        BY DEF Takers, View!Effects, View!NoHandle
    <3>2. ready' => ready
        BY <2>1, <2>4, <3>1 DEF Delivers
    <3> QED
        BY <1>2, <2>4, <3>2
  <2>5. CASE handle_ref' = handle_ref /\ handle_ref # View!NoHandle
    <3> DEFINE h == handle_ref
               t == throws /\ h \in Takers
    <3>1. h \in View!Effects /\ View!Mounted(h) /\ pc[h] = "live" /\ ~bridge[h].remote_closed
          /\ (bridge[h].inactive => bridge[h].failed)
        BY <2>5, HeldIsLive
    <3>2. bridge'[h] = View!OnPayload(h, Head(wire), t) /\ t \in BOOLEAN
        BY <2>1, <3>1 DEF Delivers
    <3>3. ASSUME View!Listens(h), bridge[h].bound, View!IsOwn(h, Head(wire))
          PROVE  h \in Takers /\ (~throws => Head(wire)[2] # View!Closed)
      <4>1. h \in Takers
          BY <3>1, <3>3 DEF Takers, View!Takes
      <4> QED
          BY <2>1, <2>5, <4>1 DEF Delivers
    <3>4. (t <=> throws) \/ ~(h \in Takers)
        OBVIOUS
    <3> HIDE DEF t
    <3>5. ~bridge'[h].remote_closed /\ (bridge'[h].inactive => bridge'[h].failed)
      <4>1. CASE Ignores(h, Head(wire))
          BY <3>1, <3>2, <4>1, PayloadIgnored
      <4>2. CASE View!Listens(h) /\ ~bridge[h].bound
          BY <1>1, <3>1, <3>2, <4>2, PayloadQueued
      <4>3. CASE View!Listens(h) /\ bridge[h].bound /\ View!IsOwn(h, Head(wire))
          BY <1>1, <3>1, <3>2, <3>3, <3>4, <4>3, PayloadDelivered
      <4> QED
          BY <4>1, <4>2, <4>3, PayloadCases
    <3> QED
        BY <2>2, <2>5, <3>1, <3>5 DEF View!ReadyIsAttached, HeldIsOpen
  <2>6. handle_ref' = View!NoHandle \/ handle_ref' = handle_ref
      BY <2>1 DEF Delivers
  <2> QED
      BY <2>3, <2>4, <2>5, <2>6
<1>9. ASSUME NEW e \in View!Effects, View!Continue(e)
      PROVE  Attached'
  <2> USE DEF View!Goto
  <2>1. pc[e] # "live"
      BY <1>9 DEF View!Continue, View!Unavailable, View!Probed, View!Listened,
             View!ListenFails, View!Rejected, View!RefuseSession, View!BindSession,
             View!KeepHandle, View!DropHandle, View!CloseAnswered
  <2>2. handle_ref # e
      BY <2>1, HeldIsLive DEF View!Effects, View!NoHandle
  <2>3. handle_ref # View!NoHandle => handle_ref \in View!Effects
      BY HeldIsLive
  <2>4. View!Mounted(e) => handle_ref = View!NoHandle /\ ~ready
      BY <1>1, <2>2 DEF View!ReadyIsAttached
  <2>5. ASSUME View!FailOpen(e), UNCHANGED <<mounted, effect>>,
               \A d \in View!Effects : d # e => pc'[d] = pc[d] /\ bridge'[d] = bridge[d]
        PROVE  Attached'
    <3>1. CASE View!Mounted(e)
        BY <1>3, <2>5, <3>1 DEF View!FailOpen
    <3>2. CASE ~View!Mounted(e)
        BY <1>2, <2>2, <2>3, <2>5, <3>2 DEF View!FailOpen
    <3> QED
        BY <3>1, <3>2
  <2>6. ASSUME UNCHANGED <<mounted, effect, handle_ref>>, ready' => ready,
               \A d \in View!Effects : d # e => pc'[d] = pc[d] /\ bridge'[d] = bridge[d]
        PROVE  Attached'
      BY <1>2, <2>2, <2>3, <2>6
  <2>7. CASE View!Unavailable(e) \/ View!Probed(e)
      BY <1>1, <2>6, <2>7 DEF View!Unavailable, View!Probed, RestOK
  <2>8. CASE View!Listened(e) \/ View!RefuseSession(e)
      BY <1>1, <2>6, <2>8 DEF View!Listened, View!RefuseSession, RestOK, BridgesOK
  <2>9. CASE View!ListenFails(e) \/ View!Rejected(e)
      BY <1>1, <2>5, <2>9 DEF View!ListenFails, View!Rejected, RestOK, BridgesOK
  <2>10. CASE View!BindSession(e)
    <3>1. View!Mounted(e)
        BY <2>10 DEF View!BindSession, View!Refuses, View!Cancelled
    <3>2. handle_ref' = View!NoHandle /\ ~ready'
        BY <2>4, <2>10, <3>1 DEF View!BindSession
    <3> QED
        BY <1>3, <3>2
  <2>11. CASE View!KeepHandle(e)
    <3>1. /\ View!Mounted(e) /\ ~bridge[e].remote_closed /\ pc[e] = "bound"
          /\ pc'[e] = "live" /\ handle_ref' = e
          /\ UNCHANGED <<mounted, effect, bridge>>
        BY <1>1, <2>11 DEF View!KeepHandle, View!Keeps, RestOK
    <3>2. bridge[e].inactive => bridge[e].failed
        BY <3>1 DEF ViewParts, HandleInv, Keepable
    <3>3. e # View!NoHandle
        BY DEF View!Effects, View!NoHandle
    <3> QED
        BY <3>1, <3>2, <3>3 DEF View!ReadyIsAttached, HeldIsOpen
  <2>12. CASE View!DropHandle(e)
      BY <1>1, <2>5, <2>12 DEF View!DropHandle, View!Dispose, RestOK, BridgesOK
  <2>13. CASE View!CloseAnswered(e)
    <3>1. /\ UNCHANGED <<mounted, effect>>
          /\ \A d \in View!Effects : d # e => pc'[d] = pc[d] /\ bridge'[d] = bridge[d]
        BY <1>1, <2>13 DEF View!CloseAnswered, RestOK, BridgesOK
    <3> QED
        BY <2>5, <2>6, <2>13, <3>1 DEF View!CloseAnswered
  <2> QED
      BY <1>9, <2>7, <2>8, <2>9, <2>10, <2>11, <2>12, <2>13 DEF View!Continue
<1>10. ASSUME NEW e \in View!Effects,
              View!NativeStep(e) \/ View!NativeAnswers(e) \/ View!CloseArrives(e)
       PROVE  Attached'
    BY <1>4, <1>10 DEF View!NativeStep, View!NativeOpens, View!NativeFails, View!Emits,
           View!NativeEnds, View!NativeAnswers, View!CloseArrives
<1>11. CASE UNCHANGED View!vars
    BY <1>4, <1>11 DEF View!vars
<1> QED
    BY <1>5, <1>6, <1>7, <1>8, <1>9, <1>10, <1>11 DEF View!Next

\* Nobody stops to listen while the answer of the open command is awaited.
LEMMA WaitingStep ==
    ASSUME ViewSized
    PROVE  ViewParts /\ [View!Next]_View!vars => WaitInv'
<1> SUFFICES ASSUME ViewParts, [View!Next]_View!vars, NEW d \in View!Effects
             PROVE  Waiting(d)'
    BY DEF WaitInv
<1> USE DEF View!viewVars, View!nativeVars
<1>1. Waiting(d) /\ EventsOK /\ BridgesOK /\ RestOK
    BY DEF ViewParts, WaitInv
<1>2. ASSUME pc'[d] = pc[d] \/ pc'[d] # "invoke", bridge'[d] = bridge[d] \/ pc[d] # "invoke"
      PROVE  Waiting(d)'
    BY <1>1, <1>2 DEF Waiting
<1>3. ASSUME NEW e \in View!Effects, View!Dispose(e)
      PROVE  Waiting(d)'
    BY <1>1, <1>3 DEF View!Dispose, BridgesOK, RestOK, Waiting
<1>4. ASSUME UNCHANGED <<pc, bridge>>
      PROVE  Waiting(d)'
    BY <1>2, <1>4
<1>5. CASE View!Mount
    BY <1>1, <1>2, <1>5 DEF View!Mount, RestOK
<1>6. CASE View!Unmount
    BY <1>3, <1>4, <1>6, HeldIsLive DEF View!Unmount
<1>7. CASE View!Relogin \/ View!Write
    BY <1>4, <1>7 DEF View!Relogin, View!Write
<1>8. CASE View!DeliverEvent
  <2>1. PICK throws \in BOOLEAN : Delivers(throws)
      BY <1>8, DeliverCases
  <2> DEFINE t == throws /\ d \in Takers
  <2>2. bridge'[d] = View!OnPayload(d, Head(wire), t)
      BY <2>1 DEF Delivers
  <2> HIDE DEF t
  <2>3. pc' = pc
      BY <2>1 DEF Delivers
  <2>4. CASE Ignores(d, Head(wire))
      BY <1>2, <2>2, <2>3, <2>4, PayloadIgnored
  <2>5. CASE View!Listens(d) /\ ~bridge[d].bound
      BY <1>1, <2>2, <2>3, <2>5, PayloadQueued DEF Waiting
  <2>6. CASE View!Listens(d) /\ bridge[d].bound
      BY <1>1, <2>3, <2>6 DEF Waiting
  <2> QED
      BY <2>4, <2>5, <2>6, PayloadCases
<1>9. ASSUME NEW e \in View!Effects, View!Continue(e)
      PROVE  Waiting(d)'
  <2> USE DEF View!Goto
  <2>1. CASE View!Listened(e)
    <3>1. CASE d = e
      <4>1. bridge[e] = View!NoBridge
          BY <1>1, <2>1 DEF View!Listened, ViewParts, FreshInv, Fresh
      <4>2. SameHandle(e) /\ bridge'[e].listening
          BY <1>1, <2>1, ListenChange DEF View!Listened
      <4> QED
          BY <3>1, <4>1, <4>2 DEF Waiting, SameHandle, View!NoBridge
    <3>2. CASE d # e
        BY <1>1, <1>2, <2>1, <3>2 DEF View!Listened, RestOK, BridgesOK
    <3> QED
        BY <3>1, <3>2
  <2>2. CASE ~View!Listened(e)
    <3>1. d = e => pc'[d] # "invoke"
        BY <1>1, <1>9, <2>2 DEF RestOK, View!Continue, View!Unavailable, View!Probed,
               View!ListenFails, View!Rejected, View!RefuseSession, View!BindSession,
               View!KeepHandle, View!DropHandle, View!Dispose, View!CloseAnswered
    <3>2. d # e => pc'[d] = pc[d] /\ bridge'[d] = bridge[d]
        BY <1>1, <1>9, <2>2 DEF RestOK, BridgesOK, View!Continue, View!Unavailable,
               View!Probed, View!ListenFails, View!Rejected, View!RefuseSession,
               View!BindSession, View!KeepHandle, View!DropHandle, View!Dispose,
               View!CloseAnswered
    <3> QED
        BY <1>2, <3>1, <3>2 DEF Waiting
  <2> QED
      BY <2>1, <2>2
<1>10. ASSUME NEW e \in View!Effects,
              View!NativeStep(e) \/ View!NativeAnswers(e) \/ View!CloseArrives(e)
       PROVE  Waiting(d)'
    BY <1>4, <1>10 DEF View!NativeStep, View!NativeOpens, View!NativeFails, View!Emits,
           View!NativeEnds, View!NativeAnswers, View!CloseArrives
<1>11. CASE UNCHANGED View!vars
    BY <1>4, <1>11 DEF View!vars
<1> QED
    BY <1>5, <1>6, <1>7, <1>8, <1>9, <1>10, <1>11 DEF View!Next

----------------------------------------------------------------------------
(* The order of the output.                                                *)

\* What a session emitted: its chunks, then Closed.
EmitOf(n, closed) ==
    [i \in 1 .. n |-> i] \o (IF closed THEN <<View!Closed>> ELSE <<>>)

OneMore(n) == EmitOf(n + 1, FALSE) = Append(EmitOf(n, FALSE), n + 1)
TheLast(n) == EmitOf(n, TRUE) = Append(EmitOf(n, FALSE), View!Closed)

LEMMA EmitNone == EmitOf(0, FALSE) = <<>>
<1> DEFINE s == [i \in 1 .. 0 |-> i]
<1>1. s = <<>>
    OBVIOUS
<1> HIDE DEF s
<1>2. s \o <<>> = <<>>
    BY <1>1
<1> QED
    BY <1>2 DEF EmitOf, s

LEMMA EmitMore ==
    ASSUME NEW n \in Nat
    PROVE  OneMore(n) /\ TheLast(n)
<1> DEFINE s == [i \in 1 .. n |-> i]
           t == [i \in 1 .. n + 1 |-> i]
<1>1. s \in Seq(Nat) /\ t \in Seq(Nat) /\ Len(s) = n /\ Len(t) = n + 1
    OBVIOUS
<1>2. t = Append(s, n + 1)
  <2>1. /\ Append(s, n + 1) \in Seq(Nat) /\ Len(Append(s, n + 1)) = n + 1
        /\ \A i \in 1 .. n + 1 : Append(s, n + 1)[i] = i
      BY <1>1
  <2>2. \A i \in 1 .. n + 1 : t[i] = i
      OBVIOUS
  <2> HIDE DEF s, t
  <2> QED
      BY <1>1, <2>1, <2>2, SeqEqual
<1> HIDE DEF s, t
<1>3. s \o <<>> = s /\ t \o <<>> = t
    BY <1>1, ConcatEmptySeq
<1>4. EmitOf(n, FALSE) = s /\ EmitOf(n + 1, FALSE) = t
    BY <1>3 DEF EmitOf, s, t
<1>5. Append(s, View!Closed) = s \o <<View!Closed>>
    BY <1>1, AppendIsConcat DEF View!Closed
<1>6. EmitOf(n, TRUE) = s \o <<View!Closed>>
    BY DEF EmitOf, s
<1> QED
    BY <1>2, <1>4, <1>5, <1>6 DEF OneMore, TheLast

Whole(s, p, w) == s \o p \o w

WireMore(s, p, w, x)   == Whole(s, p, Append(w, x)) = Append(Whole(s, p, w), x)
KeptMore(s, p, w, x)   == Whole(s, Append(p, x), w) = Whole(s, p, <<x>> \o w)
ShownMore(s, w, x)     == Whole(Append(s, x), <<>>, w) = Whole(s, <<>>, <<x>> \o w)
Replayed(s, p, w)      == Whole(s \o p, <<>>, w) = Whole(s, p, w)

\* An item moves from the wire to what is kept or shown without a change of the whole.
LEMMA WholeMoves ==
    ASSUME NEW B, NEW s \in Seq(B), NEW p \in Seq(B), NEW w \in Seq(B), NEW x \in B
    PROVE  WireMore(s, p, w, x) /\ KeptMore(s, p, w, x) /\ ShownMore(s, w, x)
<1>1. <<x>> \in Seq(B) /\ s \o p \in Seq(B) /\ p \o <<x>> \in Seq(B) /\ s \o <<x>> \in Seq(B)
    OBVIOUS
<1>2. WireMore(s, p, w, x)
  <2>1. ItemGoesBehind(s \o p, w, x)
      BY <1>1, AppendToSecond
  <2> QED
      BY <2>1 DEF ItemGoesBehind, WireMore, Whole
<1>3. Append(p, x) = p \o <<x>> /\ Append(s, x) = s \o <<x>>
    BY AppendIsConcat
<1>4. s \o <<>> = s /\ (s \o <<x>>) \o <<>> = s \o <<x>>
    BY <1>1, ConcatEmptySeq
<1>5. s \o (p \o <<x>>) = (s \o p) \o <<x>>
    BY <1>1, ConcatAssociative
<1>6. ((s \o p) \o <<x>>) \o w = (s \o p) \o (<<x>> \o w)
    BY <1>1, ConcatAssociative
<1>7. (s \o <<x>>) \o w = s \o (<<x>> \o w)
    BY <1>1, ConcatAssociative
<1>8. KeptMore(s, p, w, x)
    BY <1>3, <1>5, <1>6 DEF KeptMore, Whole
<1>9. ShownMore(s, w, x)
    BY <1>3, <1>4, <1>7 DEF ShownMore, Whole
<1> QED
    BY <1>2, <1>8, <1>9

LEMMA WholeReplayed ==
    ASSUME NEW B, NEW s \in Seq(B), NEW p \in Seq(B), NEW w \in Seq(B)
    PROVE  Replayed(s, p, w)
<1>1. s \o p \in Seq(B)
    OBVIOUS
<1>2. (s \o p) \o <<>> = s \o p
    BY <1>1, ConcatEmptySeq
<1> QED
    BY <1>2 DEF Replayed, Whole

LEMMA WholeNone == Whole(<<>>, <<>>, <<>>) = <<>>
BY DEF Whole

Reports(e) == View!Listens(e) /\ ~bridge[e].overflowed /\ View!Mounted(e)

Kept(e)  == View!OwnItems(e, bridge[e].prebind)
Going(e) == View!OwnItems(e, wire)

\* OwnOutputInOrder for one effect.
InOrder(e) ==
    Reports(e) => EmitOf(session_produced[e], finished[e]) = Whole(shown[e], Kept(e), Going(e))

LEMMA OrderParts == View!OwnOutputInOrder <=> \A e \in View!Effects : InOrder(e)
BY DEF View!OwnOutputInOrder, View!Emitted, InOrder, Reports, Kept, Going, EmitOf, Whole

LEMMA OrderPartsLater == View!OwnOutputInOrder' <=> \A e \in View!Effects : InOrder(e)'
BY DEF View!OwnOutputInOrder, View!Emitted, InOrder, Reports, Kept, Going, EmitOf, Whole

LEMMA FlowTypes ==
    ASSUME BridgesOK, EventsOK, NEW e \in View!Effects
    PROVE  /\ shown[e] \in Seq(View!Items) /\ Kept(e) \in Seq(View!Items)
           /\ Going(e) \in Seq(View!Items)
           /\ bridge[e].prebind \in Seq(View!Effects \X View!Items)
<1>1. bridge[e].prebind \in Seq(View!Effects \X View!Items)
    BY DEF BridgesOK, BridgeSet
<1>2. wire \in Seq(View!Effects \X View!Items) /\ shown[e] \in Seq(View!Items)
    BY DEF EventsOK
<1>3. Kept(e) \in Seq(View!Items)
    BY <1>1, OwnType DEF Kept
<1>4. Going(e) \in Seq(View!Items)
    BY <1>2, OwnType DEF Going
<1> QED
    BY <1>1, <1>2, <1>3, <1>4

\* What a session emits, its terminal shows in order.
LEMMA OrderStep ==
    ASSUME ViewSized
    PROVE  ViewParts /\ View!OwnOutputInOrder /\ [View!Next]_View!vars
               => View!OwnOutputInOrder'
<1> SUFFICES ASSUME ViewParts, View!OwnOutputInOrder, [View!Next]_View!vars,
                    NEW d \in View!Effects
             PROVE  InOrder(d)'
    BY OrderPartsLater
<1> USE DEF View!viewVars, View!nativeVars
<1>1. InOrder(d) /\ EventsOK /\ BridgesOK /\ RestOK
    BY OrderParts DEF ViewParts
<1>2. /\ shown[d] \in Seq(View!Items) /\ Kept(d) \in Seq(View!Items)
      /\ Going(d) \in Seq(View!Items)
    BY <1>1, FlowTypes
<1>3. Streaming(d) /\ Fresh(d) /\ Waiting(d)
    BY DEF ViewParts, StreamInv, FreshInv, WaitInv
<1>4. ASSUME Reports(d)' => Reports(d),
             session_produced'[d] = session_produced[d], finished'[d] = finished[d],
             shown'[d] = shown[d], Kept(d)' = Kept(d), Going(d)' = Going(d)
      PROVE  InOrder(d)'
    BY <1>1, <1>4 DEF InOrder
<1>5. ASSUME ~Reports(d)'
      PROVE  InOrder(d)'
    BY <1>5 DEF InOrder
<1>6. ASSUME UNCHANGED <<effect, mounted, bridge, session_produced, finished, shown, wire>>
      PROVE  InOrder(d)'
    BY <1>4, <1>6 DEF Reports, Kept, Going, View!Listens, View!Mounted
<1>7. ASSUME SameHandle(d), bridge'[d].listening => bridge[d].listening,
             mounted' => mounted, effect' = effect,
             UNCHANGED <<session_produced, finished, shown, wire>>
      PROVE  InOrder(d)'
    BY <1>4, <1>7 DEF SameHandle, Reports, Kept, Going, View!Listens, View!Mounted
<1>8. ASSUME NEW x \in View!Items, Reports(d)' => Reports(d),
             shown'[d] = shown[d], Kept(d)' = Kept(d), Going(d)' = Append(Going(d), x),
             EmitOf(session_produced'[d], finished'[d]) =
                 Append(EmitOf(session_produced[d], finished[d]), x)
      PROVE  InOrder(d)'
  <2>1. WireMore(shown[d], Kept(d), Going(d), x)
      BY <1>2, WholeMoves
  <2> QED
      BY <1>1, <1>8, <2>1 DEF InOrder, WireMore
<1>9. ASSUME NEW e \in View!Effects, View!Leaves(e), native[e] = "open",
             UNCHANGED <<effect, mounted, bridge, session_produced, shown>>
      PROVE  InOrder(d)'
  <2>1. (Reports(d)' => Reports(d)) /\ Kept(d)' = Kept(d)
      BY <1>9 DEF Reports, Kept, View!Listens, View!Mounted
  <2>2. View!Closed \in View!Items
      BY DEF View!Closed, View!Items, ViewSized
  <2>3. CASE UNCHANGED <<finished, wire>>
      BY <1>6, <1>9, <2>3
  <2>4. CASE /\ finished' = [finished EXCEPT ![e] = TRUE]
             /\ wire' = Append(wire, <<e, View!Closed>>)
    <3>1. Going(d)' = IF d = e THEN Append(Going(d), View!Closed) ELSE Going(d)
        BY <1>1, <2>2, <2>4, WireGrows DEF Going
    <3>2. CASE d # e
        BY <1>1, <1>4, <1>9, <2>1, <2>4, <3>1, <3>2 DEF RestOK
    <3>3. CASE d = e
      <4>1. ~finished[d] /\ finished'[d] = TRUE /\ finished[d] = FALSE
          BY <1>1, <1>3, <1>9, <2>4, <3>3 DEF Streaming, RestOK
      <4>2. session_produced[d] \in Nat /\ session_produced'[d] = session_produced[d]
          BY <1>1, <1>9 DEF RestOK
      <4>3. TheLast(session_produced[d])
          BY <4>2, EmitMore
      <4>4. EmitOf(session_produced'[d], finished'[d]) =
                Append(EmitOf(session_produced[d], finished[d]), View!Closed)
          BY <4>1, <4>2, <4>3 DEF TheLast
      <4> QED
          BY <1>8, <1>9, <2>1, <2>2, <3>1, <3>3, <4>4
    <3> QED
        BY <3>2, <3>3
  <2> QED
      BY <1>9, <2>3, <2>4 DEF View!Leaves
<1>10. ASSUME NEW e \in View!Effects, View!Dispose(e), mounted' => mounted, effect' = effect,
              UNCHANGED <<session_produced, finished, shown, wire>>
       PROVE  InOrder(d)'
  <2>1. CASE d = e
    <3>1. bridge'[e].disposed
        BY <1>1, <1>10 DEF View!Dispose, BridgesOK, BridgeSet
    <3> QED
        BY <1>5, <2>1, <3>1 DEF Reports, View!Listens
  <2>2. CASE d # e
    <3>1. bridge'[d] = bridge[d]
        BY <1>1, <1>10, <2>2 DEF View!Dispose, BridgesOK
    <3> QED
        BY <1>7, <1>10, <3>1 DEF SameHandle
  <2> QED
      BY <2>1, <2>2
<1>11. CASE View!Mount
  <2>1. d \in Nat /\ effect \in Nat /\ effect' = effect + 1 /\ bridge' = bridge
      BY <1>1, <1>11 DEF View!Mount, RestOK, View!Effects, ViewSized
  <2>2. CASE d # effect + 1
      BY <1>5, <2>1, <2>2 DEF Reports, View!Mounted
  <2>3. CASE d = effect + 1
    <3>1. bridge[d] = View!NoBridge
        BY <1>3, <2>1, <2>3 DEF Fresh
    <3> QED
        BY <1>5, <2>1, <3>1 DEF Reports, View!Listens, View!NoBridge
  <2> QED
      BY <2>2, <2>3
<1>12. CASE View!Unmount
  <2>1. ~mounted'
      BY <1>12 DEF View!Unmount
  <2> QED
      BY <1>5, <2>1 DEF Reports, View!Mounted
<1>13. CASE View!Relogin
    BY <1>6, <1>13 DEF View!Relogin
<1>14. CASE View!Write
    BY <1>9, <1>14, HeldIsLive DEF View!Write
<1>15. CASE View!DeliverEvent
  <2>1. PICK throws \in BOOLEAN : Delivers(throws)
      BY <1>15, DeliverCases
  <2> DEFINE t == throws /\ d \in Takers
             ev == Head(wire)
             x == Head(wire)[2]
             rest == View!OwnItems(d, Tail(wire))
  <2>2. /\ wire # <<>> /\ bridge'[d] = View!OnPayload(d, ev, t) /\ t \in BOOLEAN
        /\ UNCHANGED <<effect, mounted, session_produced, finished>>
        /\ shown'[d] = IF d \in Takers /\ ~throws THEN Append(shown[d], x) ELSE shown[d]
      BY <2>1 DEF Delivers
  <2>3. /\ ev \in View!Effects \X View!Items /\ rest \in Seq(View!Items)
        /\ View!IsOwn(d, ev) => Going(d) = <<x>> \o rest
        /\ ~View!IsOwn(d, ev) => Going(d) = rest
      BY <1>1, <2>2, WireShrinks DEF Going
  <2>4. Going(d)' = rest
      BY <2>1 DEF Delivers, Going
  <2>5. d \in Takers
            <=> View!Mounted(d) /\ View!Listens(d) /\ bridge[d].bound /\ View!IsOwn(d, ev)
      BY DEF Takers, View!Takes
  <2>6. x \in View!Items
      BY <2>3
  <2>7. (d \in Takers => (t <=> throws)) /\ View!Mounted(d)' = View!Mounted(d)
      BY <2>2 DEF View!Mounted
  <2> HIDE DEF t, rest, ev, x
  <2>8. CASE Ignores(d, ev)
    <3>1. bridge'[d] = bridge[d]
        BY <2>2, <2>8, PayloadIgnored
    <3>2. shown'[d] = shown[d]
        BY <2>2, <2>5, <2>8 DEF Ignores
    <3>3. Kept(d)' = Kept(d) /\ View!Listens(d)' = View!Listens(d)
        BY <3>1 DEF Kept, View!Listens
    <3>4. CASE ~View!Listens(d)
        BY <1>5, <3>3, <3>4 DEF Reports
    <3>5. CASE View!Listens(d)
      <4>1. Going(d)' = Going(d)
          BY <2>3, <2>4, <2>8, <3>5 DEF Ignores
      <4>2. Reports(d)' => Reports(d)
          BY <2>7, <3>1, <3>3 DEF Reports
      <4> QED
          BY <1>4, <2>2, <3>2, <3>3, <4>1, <4>2
    <3> QED
        BY <3>4, <3>5
  <2>9. CASE View!Listens(d) /\ ~bridge[d].bound
    <3>1. ~bridge'[d].overflowed => /\ ~bridge[d].overflowed
                                    /\ bridge'[d].prebind = Append(bridge[d].prebind, ev)
        BY <1>1, <2>2, <2>9, PayloadQueued
    <3>2. shown'[d] = shown[d]
        BY <2>2, <2>5, <2>9
    <3>3. CASE ~Reports(d)'
        BY <1>5, <3>3
    <3>4. CASE Reports(d)'
      <4>1. Reports(d) /\ bridge'[d].prebind = Append(bridge[d].prebind, ev)
          BY <2>7, <2>9, <3>1, <3>4 DEF Reports
      <4>2. OwnGrows(d, bridge[d].prebind, ev)
          BY <1>1, <2>3, FlowTypes, OwnAppend
      <4>3. Kept(d)' = IF View!IsOwn(d, ev) THEN Append(Kept(d), ev[2]) ELSE Kept(d)
          BY <4>1, <4>2 DEF Kept, OwnGrows, View!IsOwn
      <4>4. CASE View!IsOwn(d, ev)
        <5>1. KeptMore(shown[d], Kept(d), rest, x)
            BY <1>2, <2>3, <2>6, WholeMoves
        <5>2. Kept(d)' = Append(Kept(d), x)
            BY <4>3, <4>4 DEF ev, x
        <5> QED
            BY <1>1, <2>2, <2>3, <2>4, <3>2, <4>1, <4>4, <5>1, <5>2 DEF InOrder, KeptMore
      <4>5. CASE ~View!IsOwn(d, ev)
          BY <1>4, <2>2, <2>3, <2>4, <3>2, <4>1, <4>3, <4>5
      <4> QED
          BY <4>4, <4>5
    <3> QED
        BY <3>3, <3>4
  <2>10. CASE View!Listens(d) /\ bridge[d].bound /\ View!IsOwn(d, ev)
    <3>1. CASE ~Reports(d)'
        BY <1>5, <3>1
    <3>2. CASE Reports(d)'
      <4>1. d \in Takers
          BY <2>5, <2>7, <2>10, <3>2 DEF Reports
      <4>2. ~t /\ ev[2] # View!Closed /\ bridge'[d] = bridge[d]
          BY <1>1, <2>2, <2>10, <3>2, PayloadDelivered DEF Reports, View!Listens
      <4>3. shown'[d] = Append(shown[d], x)
          BY <2>2, <2>7, <4>1, <4>2
      <4>4. bridge[d].prebind = <<>>
          BY <1>3, <2>10 DEF Streaming
      <4>5. Kept(d) = <<>> /\ Kept(d)' = <<>>
          BY <4>2, <4>4, OwnOfNone DEF Kept
      <4>6. ShownMore(shown[d], rest, x)
          BY <1>2, <2>3, <2>6, WholeMoves
      <4>7. Reports(d)
          BY <2>7, <2>10, <3>2, <4>2 DEF Reports
      <4> QED
          BY <1>1, <2>2, <2>3, <2>4, <2>10, <4>3, <4>5, <4>6, <4>7 DEF InOrder, ShownMore
    <3> QED
        BY <3>1, <3>2
  <2> QED
      BY <2>8, <2>9, <2>10, PayloadCases
<1>16. ASSUME NEW e \in View!Effects, View!Continue(e)
       PROVE  InOrder(d)'
  <2> USE DEF View!Goto, View!FailOpen
  <2>1. CASE View!Unavailable(e) \/ View!Probed(e) \/ View!ListenFails(e) \/ View!KeepHandle(e)
      BY <1>6, <2>1 DEF View!Unavailable, View!Probed, View!ListenFails, View!KeepHandle
  <2>2. CASE View!Listened(e)
    <3>1. CASE d = e
      <4>1. /\ session_produced[d] = 0 /\ ~finished[d] /\ shown[d] = <<>> /\ Going(d) = <<>>
            /\ bridge[d] = View!NoBridge
          BY <1>3, <2>2, <3>1 DEF Fresh, View!Listened, Going
      <4>2. bridge'[d].prebind = <<>>
          BY <1>1, <2>2, <3>1, <4>1, ListenChange DEF View!Listened, SameHandle, View!NoBridge
      <4>3. Kept(d)' = <<>>
          BY <4>2, OwnOfNone DEF Kept
      <4>4. /\ session_produced'[d] = 0 /\ finished'[d] = FALSE /\ shown'[d] = <<>>
            /\ Going(d)' = <<>>
          BY <1>1, <2>2, <4>1 DEF View!Listened, Going, RestOK
      <4> QED
          BY <4>3, <4>4, EmitNone, WholeNone DEF InOrder
    <3>2. CASE d # e
      <4>1. bridge'[d] = bridge[d]
          BY <1>1, <2>2, <3>2 DEF View!Listened, BridgesOK
      <4> QED
          BY <1>7, <2>2, <4>1 DEF View!Listened, SameHandle
    <3> QED
        BY <3>1, <3>2
  <2>3. CASE View!Rejected(e) \/ View!CloseAnswered(e)
    <3>1. SameHandle(d) /\ (bridge'[d].listening => bridge[d].listening)
        BY <1>1, <2>3, ListenChange DEF View!Rejected, View!CloseAnswered
    <3> QED
        BY <1>7, <2>3, <3>1 DEF View!Rejected, View!CloseAnswered
  <2>4. CASE View!RefuseSession(e)
    <3>1. SameHandle(d) /\ (bridge'[d].listening => bridge[d].listening)
        BY <1>1, <2>4, SentChange DEF View!RefuseSession
    <3> QED
        BY <1>7, <2>4, <3>1 DEF View!RefuseSession
  <2>5. CASE View!BindSession(e)
    <3>1. CASE d # e
      <4>1. bridge'[d] = bridge[d] /\ shown'[d] = shown[d]
          BY <1>1, <2>5, <3>1 DEF View!BindSession, BridgesOK, EventsOK
      <4>2. (Reports(d)' => Reports(d)) /\ Kept(d)' = Kept(d) /\ Going(d)' = Going(d)
          BY <2>5, <4>1 DEF View!BindSession, Reports, Kept, Going, View!Listens, View!Mounted
      <4> QED
          BY <1>4, <2>5, <4>1, <4>2 DEF View!BindSession
    <3>2. CASE d = e
      <4> DEFINE r == View!Replay(e)
                 Shut(n) == n > 0 /\ View!Replay(e)[n] = View!Closed
                 Bound(n) == [bridge[e] EXCEPT
                                 !.bound = TRUE, !.prebind = <<>>,
                                 !.inactive = Shut(n) \/ n < Len(View!Replay(e)),
                                 !.remote_closed = Shut(n),
                                 !.failed = n < Len(View!Replay(e)),
                                 !.sent = n < Len(View!Replay(e)),
                                 !.listening = ~Shut(n) /\ ~(n < Len(View!Replay(e)))]
      <4>1. PICK n \in 0 .. Len(r) :
                /\ shown'[e] = shown[e] \o SubSeq(r, 1, n)
                /\ bridge'[e] = Bound(n)
          BY <1>1, <2>5 DEF View!BindSession, BridgesOK, EventsOK
      <4>2. r = Kept(e) /\ r \in Seq(View!Items)
          BY <1>2, <3>2 DEF Kept, View!Replay
      <4>3. /\ bridge'[e].prebind = <<>> /\ bridge'[e].overflowed = bridge[e].overflowed
            /\ bridge'[e].listening = (~Shut(n) /\ ~(n < Len(r)))
          BY <1>1, <4>1 DEF BridgesOK, BridgeSet
      <4> HIDE DEF Bound, r
      <4>4. CASE n < Len(r)
          BY <1>5, <3>2, <4>3, <4>4 DEF Reports, View!Listens
      <4>5. CASE n = Len(r)
        <5>1. SubSeq(r, 1, n) = r
            BY <4>2, <4>5
        <5>2. Kept(e)' = <<>>
            BY <4>3, OwnOfNone DEF Kept
        <5>3. Replayed(shown[d], Kept(d), Going(d))
            BY <1>2, WholeReplayed
        <5>4. UNCHANGED <<effect, mounted, session_produced, finished, wire>>
            BY <2>5 DEF View!BindSession
        <5>5. Reports(d)' => Reports(d)
            BY <1>3, <2>5, <3>2, <4>3, <5>4 DEF View!BindSession, View!Refuses, View!Cancelled,
                   Reports, View!Listens, Waiting
        <5>6. Going(d)' = Going(d)
            BY <5>4 DEF Going
        <5>7. shown'[d] = shown[d] \o Kept(d)
            BY <3>2, <4>1, <4>2, <5>1
        <5> QED
            BY <1>1, <3>2, <5>2, <5>3, <5>4, <5>5, <5>6, <5>7 DEF InOrder, Replayed
      <4> QED
          BY <4>1, <4>2, <4>4, <4>5
    <3> QED
        BY <3>1, <3>2
  <2>6. CASE View!DropHandle(e)
      BY <1>10, <2>6 DEF View!DropHandle
  <2> QED
      BY <1>16, <2>1, <2>2, <2>3, <2>4, <2>5, <2>6 DEF View!Continue
<1>17. ASSUME NEW e \in View!Effects,
              View!NativeStep(e) \/ View!NativeAnswers(e) \/ View!CloseArrives(e)
       PROVE  InOrder(d)'
  <2>1. CASE View!NativeOpens(e) \/ View!NativeFails(e) \/ View!NativeAnswers(e)
      BY <1>6, <2>1 DEF View!NativeOpens, View!NativeFails, View!NativeAnswers
  <2>2. CASE View!Emits(e)
    <3> DEFINE x == session_produced[e] + 1
    <3>1. x \in View!Items /\ session_produced[e] \in Nat
        BY <1>1, <2>2 DEF View!Emits, RestOK, View!Items, ViewSized
    <3>2. Going(d)' = IF d = e THEN Append(Going(d), x) ELSE Going(d)
        BY <1>1, <2>2, <3>1, WireGrows DEF View!Emits, Going
    <3>3. /\ (Reports(d)' => Reports(d)) /\ Kept(d)' = Kept(d) /\ shown'[d] = shown[d]
          /\ finished'[d] = finished[d]
        BY <2>2 DEF View!Emits, Reports, Kept, View!Listens, View!Mounted
    <3>4. CASE d # e
      <4>1. session_produced'[d] = session_produced[d]
          BY <1>1, <2>2, <3>4 DEF View!Emits, RestOK
      <4> QED
          BY <1>4, <3>2, <3>3, <3>4, <4>1
    <3>5. CASE d = e
      <4>1. session_produced'[d] = x /\ finished[d] = FALSE
          BY <1>1, <1>3, <2>2, <3>5 DEF View!Emits, RestOK, Streaming
      <4>2. OneMore(session_produced[d])
          BY <3>1, <3>5, EmitMore
      <4>3. EmitOf(session_produced'[d], finished'[d]) =
                Append(EmitOf(session_produced[d], finished[d]), x)
          BY <3>3, <3>5, <4>1, <4>2 DEF OneMore
      <4> HIDE DEF x
      <4> QED
          BY <1>8, <3>1, <3>2, <3>3, <3>5, <4>3
    <3> QED
        BY <3>4, <3>5
  <2>3. CASE View!NativeEnds(e)
      BY <1>9, <2>3 DEF View!NativeEnds
  <2>4. CASE View!CloseArrives(e)
    <3>1. CASE native[e] = "open" /\ View!Leaves(e)
        BY <1>9, <2>4, <3>1 DEF View!CloseArrives
    <3>2. CASE UNCHANGED <<native, finished, wire>>
        BY <1>6, <2>4, <3>2 DEF View!CloseArrives
    <3> QED
        BY <2>4, <3>1, <3>2 DEF View!CloseArrives
  <2> QED
      BY <1>17, <2>1, <2>2, <2>3, <2>4 DEF View!NativeStep
<1>18. CASE UNCHANGED View!vars
    BY <1>6, <1>18 DEF View!vars
<1> QED
    BY <1>11, <1>12, <1>13, <1>14, <1>15, <1>16, <1>17, <1>18 DEF View!Next

----------------------------------------------------------------------------
(* The properties of the page.                                             *)

LEMMA ViewInit ==
    ASSUME ViewSized
    PROVE  View!Init => ViewInv
<1> SUFFICES ASSUME View!Init
             PROVE  ViewInv
    OBVIOUS
<1> USE DEF View!Init
<1>1. View!NoBridge \in BridgeSet /\ Len(View!NoBridge.prebind) = 0
    BY DEF View!NoBridge, BridgeSet
<1>2. BridgesOK
    BY <1>1 DEF BridgesOK, Fits, ViewSized
<1>3. EventsOK
    BY DEF EventsOK
<1>4. RestOK
  <2>1. effect \in 0 .. MaxEffects /\ epoch \in 0 .. MaxEpoch
      BY DEF ViewSized
  <2>2. at \in [View!Effects -> 0 .. MaxEpoch]
      BY DEF ViewSized
  <2>3. session_produced \in [View!Effects -> 0 .. MaxOutput]
      BY DEF ViewSized
  <2>4. mounted \in BOOLEAN /\ ready \in BOOLEAN
      OBVIOUS
  <2>5. handle_ref \in View!Effects \cup {View!NoHandle}
      OBVIOUS
  <2>6. pc \in [View!Effects -> {"none", "probe", "listen", "invoke", "refusing", "bound",
                                 "live", "disposing", "over"}]
      OBVIOUS
  <2>7. native \in [View!Effects -> {"none", "opening", "open", "gone"}]
      OBVIOUS
  <2>8. finished \in [View!Effects -> BOOLEAN]
      OBVIOUS
  <2>9. answer \in [View!Effects -> {"none", "ok", "error"}]
      OBVIOUS
  <2>10. page_closing \in [View!Effects -> {"none", "sent", "answered"}]
      OBVIOUS
  <2> QED
      BY <2>1, <2>2, <2>3, <2>4, <2>5, <2>6, <2>7, <2>8, <2>9, <2>10 DEF RestOK
<1>5. \A e \in View!Effects : View!OwnItems(e, wire) = <<>>
    BY OwnOfNone
<1>6. FreshInv
    BY <1>5 DEF FreshInv, Fresh
<1>7. StreamInv /\ WaitInv
    BY DEF StreamInv, Streaming, WaitInv, Waiting, View!NoBridge
<1>8. HandleInv
    BY DEF HandleInv, HeldIsOpen, Keepable, View!ReadyIsAttached
<1>9. \A e \in View!Effects : InOrder(e)
    BY DEF InOrder, Reports, View!Listens, View!NoBridge
<1> QED
    BY <1>2, <1>3, <1>4, <1>6, <1>7, <1>8, <1>9, TypeParts, OrderParts DEF ViewInv

LEMMA ViewInvHolds ==
    ASSUME ViewSized
    PROVE  View!Spec => []ViewInv
<1>1. ViewInv /\ [View!Next]_View!vars => ViewInv'
  <2> SUFFICES ASSUME ViewInv, [View!Next]_View!vars
               PROVE  ViewInv'
      OBVIOUS
  <2>1. ViewParts
      BY TypeParts DEF ViewInv, ViewParts
  <2>2. View!TypeOK'
      BY ViewTypeStep DEF ViewInv
  <2>3. FreshInv' /\ StreamInv' /\ WaitInv'
      BY <2>1, FreshStep, StreamStep, WaitingStep
  <2>4. HandleInv'
      BY <2>1, KeepableStep, AttachStep DEF HandleInv
  <2>5. View!OwnOutputInOrder'
      BY <2>1, OrderStep DEF ViewInv
  <2> QED
      BY <2>2, <2>3, <2>4, <2>5 DEF ViewInv
<1> QED
    BY <1>1, ViewInit, PTL DEF View!Spec

\* Every variable of the page and of the sessions behind it stays in its domain, and the
\* queue before the session id is known within its bound.
THEOREM ViewTypeCorrect ==
    ASSUME ViewSized
    PROVE  View!Spec => []View!TypeOK
<1>1. ViewInv => View!TypeOK
    BY DEF ViewInv
<1> QED
    BY <1>1, ViewInvHolds, PTL

\* What a session emits, its terminal shows in order, without a loss or a repetition,
\* whether it comes before the answer of the open command, with it or after it.
THEOREM OutputInOrder ==
    ASSUME ViewSized
    PROVE  View!Spec => []View!OwnOutputInOrder
<1>1. ViewInv => View!OwnOutputInOrder
    BY DEF ViewInv
<1> QED
    BY <1>1, ViewInvHolds, PTL

\* The page calls only the terminal ready that is on it, with an open handle.
THEOREM ReadyAttached ==
    ASSUME ViewSized
    PROVE  View!Spec => []View!ReadyIsAttached
<1>1. ViewInv => View!ReadyIsAttached
    BY DEF ViewInv, HandleInv
<1> QED
    BY <1>1, ViewInvHolds, PTL

============================================================================
