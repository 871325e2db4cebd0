-------------------------- MODULE IpcTerminalSink --------------------------
(***************************************************************************)
(* The output path of one local terminal (ssh_ipc.rs, IpcTerminalSink):    *)
(* the transport's actor produces chunks before the terminal has a session *)
(* id, the open call registers the session and binds the sink to its id,   *)
(* and from then on the actor emits by itself.  The binder takes a chunk   *)
(* under the phase lock and emits it outside; the actor does the same once *)
(* the sink is bound.  Emission may fail at any time, the pending queue    *)
(* may overflow, and another command may close the session.                *)
(***************************************************************************)
EXTENDS Naturals, Sequences

CONSTANTS MaxPending, \* MAX_PENDING_SSH_OUTPUT
          MaxOutput   \* bound on the chunks the peer sends

ASSUME SinkAssumption ==
    /\ MaxPending \in Nat \ {0}
    /\ MaxOutput \in Nat

\* Data chunks are numbered in the order the peer sends them.
Closed == 0
Data == 1 .. MaxOutput
Chunks == Data \cup {Closed}

VARIABLES
    phase,          \* SinkPhase
    queue,          \* SinkPhase::Pending.queue
    flush,          \* SinkPhase::Binding.flush
    deferred,       \* SinkPhase::Binding.deferred
    saw_closed,     \* saw_closed of Pending and Binding
    closed_emitted, \* IpcTerminalSink.closed_emitted
    ended_once,     \* IpcTerminalSink.ended_once
    actor,          \* what the transport's actor does next
    from_peer,      \* the chunk the actor has in hand
    received,       \* number of data chunks the actor took from the peer
    cancelled,      \* close() was called on the transport
    opener,         \* what the open call does next
    popped,         \* the chunk the open call has in hand
    delivered,      \* bind's delivered_closed
    outcome,        \* result of the open call
    registered,     \* the registry holds the session
    closing,        \* a thread took the session out and is to close its transport
    produced,       \* every chunk handed to on_output
    emitted         \* every event the main window got

sinkVars   == <<phase, queue, flush, deferred, saw_closed>>
onceVars   == <<closed_emitted, ended_once>>
actorVars  == <<actor, from_peer, received>>
openVars   == <<opener, popped, delivered, outcome>>
regVars    == <<registered, closing, cancelled>>
history    == <<produced, emitted>>
vars == <<sinkVars, onceVars, actorVars, openVars, regVars, history>>

Init ==
    /\ phase = "pending" /\ queue = <<>> /\ flush = <<>> /\ deferred = <<>>
    /\ saw_closed = FALSE /\ closed_emitted = FALSE /\ ended_once = FALSE
    /\ actor = "select" /\ from_peer = Closed /\ received = 0 /\ cancelled = FALSE
    /\ opener = "register" /\ popped = Closed /\ delivered = FALSE /\ outcome = "none"
    /\ registered = FALSE /\ closing = FALSE
    /\ produced = <<>> /\ emitted = <<>>

----------------------------------------------------------------------------
(* The session and its transport.                                          *)

\* remove_on_transport_ended: a helper thread closes the transport.
RemoveSession ==
    /\ registered' = FALSE
    /\ closing' = (closing \/ registered)
    /\ UNCHANGED cancelled

\* close, close_all, a deletion or stale I/O: the session leaves the map first.
TakeOut ==
    /\ registered
    /\ RemoveSession
    /\ UNCHANGED <<sinkVars, onceVars, actorVars, openVars, history>>

CloseTransport ==
    /\ closing
    /\ closing' = FALSE
    /\ cancelled' = TRUE
    /\ UNCHANGED <<sinkVars, onceVars, actorVars, openVars, registered, history>>

\* invoke_ended_once, with the handler that perform_local_ssh_open installs.
InvokeEnded ==
    IF ended_once
    THEN UNCHANGED <<ended_once, regVars>>
    ELSE ended_once' = TRUE /\ RemoveSession

----------------------------------------------------------------------------
(* The actor: run_real_session_loop and on_output.                         *)

\* select! takes the peer's next message; a cancel comes before everything else.
ReceiveData ==
    /\ actor = "select"
    /\ ~cancelled
    /\ received < MaxOutput
    /\ received' = received + 1
    /\ from_peer' = received + 1
    /\ actor' = "output"
    /\ UNCHANGED <<sinkVars, onceVars, openVars, regVars, history>>

\* A cancel, EOF, exit status or dropped connection ends the loop with Closed.
ReceiveEnd ==
    /\ actor = "select"
    /\ from_peer' = Closed
    /\ actor' = "output"
    /\ UNCHANGED <<received, sinkVars, onceVars, openVars, regVars, history>>

AfterOutput == IF from_peer = Closed THEN "stop" ELSE "select"

MutantNeverFull == FALSE

\* The queue has no room for another chunk (those of the other phase are empty).
Full == Len(queue) + Len(flush) + Len(deferred) >= MaxPending

\* The phase becomes Failed and its queues are dropped.
Overflow ==
    /\ phase' = "failed"
    /\ queue' = <<>> /\ flush' = <<>> /\ deferred' = <<>>
    /\ UNCHANGED saw_closed

QueueUp ==
    /\ queue' = Append(queue, from_peer)
    /\ saw_closed' = (saw_closed \/ from_peer = Closed)
    /\ UNCHANGED <<phase, flush, deferred>>

MutantDefersFirst ==
    /\ deferred' = <<from_peer>> \o deferred
    /\ saw_closed' = (saw_closed \/ from_peer = Closed)
    /\ UNCHANGED <<phase, queue, flush>>

Defer ==
    /\ deferred' = Append(deferred, from_peer)
    /\ saw_closed' = (saw_closed \/ from_peer = Closed)
    /\ UNCHANGED <<phase, queue, flush>>

\* on_output under the phase lock; when the sink is bound it emits after the unlock.
OnOutput ==
    /\ actor = "output"
    /\ produced' = Append(produced, from_peer)
    /\ \/ phase \in {"pending", "binding"} /\ Full /\ Overflow
       \/ phase = "pending" /\ ~Full /\ QueueUp
       \/ phase = "binding" /\ ~Full /\ Defer
       \/ phase \in {"bound", "failed"} /\ UNCHANGED sinkVars
    /\ actor' = IF phase = "bound" THEN "emit" ELSE AfterOutput
    /\ UNCHANGED <<from_peer, received, onceVars, openVars, regVars, emitted>>

\* emit_one delivers the chunk and takes note of a first Closed.
Emit(chunk) ==
    /\ emitted' = Append(emitted, chunk)
    /\ closed_emitted' = (closed_emitted \/ chunk = Closed)

\* emit_one fails after it took note of a first Closed.
EmitFails(chunk) ==
    /\ phase' = "failed"
    /\ queue' = <<>> /\ flush' = <<>> /\ deferred' = <<>>
    /\ closed_emitted' = (closed_emitted \/ chunk = Closed)
    /\ UNCHANGED <<saw_closed, emitted>>

\* A second Closed is not emitted.
Repeated(chunk) == chunk = Closed /\ closed_emitted

ActorEmits ==
    /\ actor = "emit"
    /\ \/ /\ Repeated(from_peer)
          /\ actor' = AfterOutput
          /\ UNCHANGED <<sinkVars, closed_emitted, emitted>>
       \/ /\ ~Repeated(from_peer)
          /\ Emit(from_peer)
          /\ actor' = IF from_peer = Closed THEN "ended" ELSE AfterOutput
          /\ UNCHANGED sinkVars
       \/ /\ ~Repeated(from_peer)
          /\ EmitFails(from_peer)
          /\ actor' = "ended"
    /\ UNCHANGED <<from_peer, received, ended_once, openVars, regVars, produced>>

ActorEnds ==
    /\ actor = "ended"
    /\ InvokeEnded
    /\ actor' = AfterOutput
    /\ UNCHANGED <<from_peer, received, sinkVars, closed_emitted, openVars, history>>

----------------------------------------------------------------------------
(* The open call: open_session, bind, and what follows a failed bind.      *)

\* The insert may be refused; the open call then closes the transport itself.
Register ==
    /\ opener = "register"
    /\ \/ registered' = TRUE /\ opener' = "bind" /\ UNCHANGED <<outcome, cancelled>>
       \/ cancelled' = TRUE /\ opener' = "done" /\ outcome' = "refused" /\ UNCHANGED registered
    /\ UNCHANGED <<popped, delivered, sinkVars, onceVars, actorVars, closing, history>>

\* bind fails: the caller takes the session out of the registry.
FailBind == opener' = "remove" /\ outcome' = "error"

BeginBind ==
    /\ opener = "bind"
    /\ \/ /\ phase = "pending"
          /\ phase' = "binding" /\ flush' = queue /\ queue' = <<>>
          /\ opener' = "pop"
          /\ UNCHANGED <<deferred, saw_closed, outcome>>
       \/ phase # "pending" /\ FailBind /\ UNCHANGED sinkVars
    /\ UNCHANGED <<popped, delivered, onceVars, actorVars, regVars, history>>

\* The terminal ended before or during the bind.
EndedEarly == saw_closed \/ delivered

\* One turn of bind's loop under the phase lock.
Pop ==
    /\ opener = "pop"
    /\ \/ /\ phase = "binding" /\ flush # <<>>
          /\ popped' = Head(flush) /\ flush' = Tail(flush)
          /\ opener' = "emit"
          /\ UNCHANGED <<phase, deferred, outcome>>
       \/ /\ phase = "binding" /\ flush = <<>> /\ deferred # <<>>
          /\ popped' = Head(deferred) /\ deferred' = Tail(deferred)
          /\ opener' = "emit"
          /\ UNCHANGED <<phase, flush, outcome>>
       \/ /\ phase = "binding" /\ flush = <<>> /\ deferred = <<>>
          /\ phase' = "bound"
          /\ IF EndedEarly
             THEN opener' = "ended" /\ outcome' = "closed"
             ELSE opener' = "done" /\ outcome' = "ready"
          /\ UNCHANGED <<popped, flush, deferred>>
       \/ phase = "failed" /\ FailBind /\ UNCHANGED <<popped, phase, flush, deferred>>
    /\ UNCHANGED <<queue, saw_closed, delivered, onceVars, actorVars, regVars, history>>

BinderEmits ==
    /\ opener = "emit"
    /\ \/ /\ Repeated(popped)
          /\ opener' = "pop"
          /\ UNCHANGED <<sinkVars, closed_emitted, emitted, delivered, outcome>>
       \/ /\ ~Repeated(popped)
          /\ Emit(popped)
          /\ delivered' = (delivered \/ popped = Closed)
          /\ opener' = "pop"
          /\ UNCHANGED <<sinkVars, outcome>>
       \/ /\ ~Repeated(popped)
          /\ EmitFails(popped)
          /\ FailBind
          /\ UNCHANGED delivered
    /\ UNCHANGED <<popped, ended_once, actorVars, regVars, produced>>

BinderEnds ==
    /\ opener = "ended"
    /\ InvokeEnded
    /\ opener' = "remove"
    /\ UNCHANGED <<popped, delivered, outcome, sinkVars, closed_emitted, actorVars, history>>

MutantKeepFailed == UNCHANGED regVars

\* A bind that failed, or met Closed, leaves no session behind.
RemoveAfterBind == RemoveSession

Remove ==
    /\ opener = "remove"
    /\ RemoveAfterBind
    /\ opener' = "done"
    /\ UNCHANGED <<popped, delivered, outcome, sinkVars, onceVars, actorVars, history>>

----------------------------------------------------------------------------
Actor == ReceiveData \/ ReceiveEnd \/ OnOutput \/ ActorEmits \/ ActorEnds

Opener == Register \/ BeginBind \/ Pop \/ BinderEmits \/ BinderEnds \/ Remove

Next == Actor \/ Opener \/ TakeOut \/ CloseTransport

Spec == Init /\ [][Next]_vars
----------------------------------------------------------------------------
(* Properties.                                                             *)

InBinder == IF opener = "emit" THEN <<popped>> ELSE <<>>
InActor == IF actor = "emit" THEN <<from_peer>> ELSE <<>>

\* Produced and on the way to the window, in the order of the way.
Backlog == InBinder \o flush \o deferred \o queue \o InActor

\* Every variable stays in its domain, and the queues stay within their bound.
TypeOK ==
    /\ phase \in {"pending", "binding", "bound", "failed"}
    /\ queue \in Seq(Chunks) /\ flush \in Seq(Chunks) /\ deferred \in Seq(Chunks)
    /\ Len(queue) <= MaxPending /\ Len(flush) + Len(deferred) <= MaxPending
    /\ saw_closed \in BOOLEAN /\ closed_emitted \in BOOLEAN /\ ended_once \in BOOLEAN
    /\ actor \in {"select", "output", "emit", "ended", "stop"}
    /\ from_peer \in Chunks /\ received \in 0 .. MaxOutput
    /\ opener \in {"register", "bind", "pop", "emit", "ended", "remove", "done"}
    /\ popped \in Chunks /\ delivered \in BOOLEAN
    /\ outcome \in {"none", "refused", "ready", "closed", "error"}
    /\ registered \in BOOLEAN /\ closing \in BOOLEAN /\ cancelled \in BOOLEAN
    /\ produced \in Seq(Chunks) /\ emitted \in Seq(Chunks)

\* A session that is registered once its open call is over has a sink that still
\* works and a terminal whose end has not been handed to it: overflow, a failed
\* emission and an end before, during or after the bind all take the session out.
RegisteredIsLive ==
    registered /\ opener = "done" /\ actor # "ended" => phase = "bound" /\ actor # "stop"

\* Buffering loses nothing silently: when the open call has bound the sink the window
\* got every chunk since the connect, the first ones included, and after the end of
\* the terminal it got Closed; otherwise the sink is marked failed.
NothingLost == phase = "bound" => produced = emitted \o InActor

Channel == INSTANCE OutputChannel
    WITH Capacity <- MaxPending, backlog <- Backlog, broken <- phase = "failed"

\* The sink implements a bounded FIFO channel, though two threads emit: no chunk
\* overtakes another around the bind, none is shown twice, nothing follows Closed, and
\* a sink that failed shows at most the chunk that was on its way.
ImplementsChannel == Channel!Spec
============================================================================
