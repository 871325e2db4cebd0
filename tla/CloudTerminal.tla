--------------------------- MODULE CloudTerminal ---------------------------
(***************************************************************************)
(* Cloud terminals (cloud_terminal.rs): the open call that fetches a       *)
(* token, starts an I/O thread, waits for the server's ready and registers *)
(* the session; the I/O thread with its writer, its reader and the         *)
(* callback that routes output; the registry with its generation; and the  *)
(* commands and teardowns that race with them.                             *)
(*                                                                         *)
(* One session id per open call.  A mutex that is held over one step is    *)
(* that step; the pending queue's is held over the whole flush.            *)
(***************************************************************************)
EXTENDS Naturals, Sequences, FiniteSets

CONSTANTS Opens,         \* open calls; each names its session and its I/O thread
          Callers,       \* threads that run every other command
          MaxQueue,      \* MAX_TRANSPORT_CMD_QUEUE
          MaxPending,    \* MAX_PENDING_SSH_OUTPUT
          MaxOutput,     \* bound on the output messages of one peer
          MaxEpoch,      \* bound on the auth epochs explored
          MaxGeneration  \* bound on the registry generations explored

Threads == Opens \cup Callers

ASSUME CloudAssumption ==
    /\ Opens \cap Callers = {}
    /\ MaxQueue \in Nat \ {0}
    /\ {MaxPending, MaxOutput, MaxEpoch, MaxGeneration} \subseteq Nat

VARIABLES
    signed_in,      \* AuthMemory.session is there
    epoch,          \* AuthMemory.session_epoch
    generation,     \* CloudRegistryInner.generation
    sessions,       \* keys of CloudRegistryInner.sessions
    token,          \* epoch the prefetched token was issued under
    snap,           \* epoch of the open call's auth snapshot
    gen_ticket,     \* generation the open call read
    news,           \* first decisive event on the way to the open call
    holder,         \* session_id_holder is set
    pending,        \* PendingOutputQueue.events
    flushing,       \* events drained by the open call and not yet shown
    overflowed,     \* the overflow flag of the callback
    closed_emitted, \* the callback took the socket's end
    io,             \* what the writer half of the I/O thread does
    callback,       \* where the reader half is inside on_event
    produced,       \* output messages the peer has sent
    commands,       \* the command channel
    dead,           \* CloudSessionSlot.dead and close_invoked, set together
    pc,             \* what each open call and each caller does next
    todo            \* slots a caller holds: to close, or to write to

authVars == <<signed_in, epoch>>
mapVars  == <<generation, sessions>>
openVars == <<token, snap, gen_ticket>>
outVars  == <<holder, pending, flushing>>
evVars   == <<news, overflowed, closed_emitted>>
ioVars   == <<io, callback, produced, commands>>
vars == <<authVars, mapVars, openVars, outVars, evVars, ioVars, dead, pc, todo>>

Out    == "out"
Closed == "closed"

OpenPoints == {"idle", "snapshot", "ticket", "spawn", "wait", "check", "check_auth",
               "register", "bind", "flush", "show", "remove", "close", "cancel", "settle",
               "done", "failed"}
CallerPoints == {"ready", "lock_drain", "cutoff_drain", "again", "again_drain", "clear",
                 "close_drain", "check_before", "send", "check_after"}
Live == {"recv", "send", "closing"}

Init ==
    /\ signed_in = FALSE /\ epoch = 0
    /\ generation = 0 /\ sessions = {}
    /\ token = [o \in Opens |-> 0] /\ snap = [o \in Opens |-> 0]
    /\ gen_ticket = [o \in Opens |-> 0]
    /\ news = [o \in Opens |-> "none"]
    /\ holder = [o \in Opens |-> FALSE]
    /\ pending = [o \in Opens |-> <<>>] /\ flushing = [o \in Opens |-> <<>>]
    /\ overflowed = [o \in Opens |-> FALSE]
    /\ closed_emitted = [o \in Opens |-> FALSE]
    /\ io = [o \in Opens |-> "none"]
    /\ callback = [o \in Opens |-> "none"]
    /\ produced = [o \in Opens |-> 0]
    /\ commands = [o \in Opens |-> <<>>]
    /\ dead = [o \in Opens |-> FALSE]
    /\ pc = [t \in Threads |-> IF t \in Opens THEN "idle" ELSE "ready"]
    /\ todo = [c \in Callers |-> {}]

Goto(t, point) == pc' = [pc EXCEPT ![t] = point]

\* AuthStore::session_binding_current and snapshot_still_current
Bound(o) == signed_in /\ epoch = snap[o]

MutantSendUnbounded(o, cmd) ==
    IF io[o] # "ended" THEN commands' = [commands EXCEPT ![o] = Append(@, cmd)]
    ELSE UNCHANGED commands

\* try_send on the command channel: nothing if it is full or the I/O thread is gone.
TrySend(o, cmd) ==
    IF io[o] # "ended" /\ Len(commands[o]) < MaxQueue
    THEN commands' = [commands EXCEPT ![o] = Append(@, cmd)]
    ELSE UNCHANGED commands

\* close_slot_once, by whoever took the slot out of the registry.
CloseSlotOnce(o) ==
    /\ dead' = [dead EXCEPT ![o] = TRUE]
    /\ IF dead[o] THEN UNCHANGED commands ELSE TrySend(o, "close")

----------------------------------------------------------------------------
(* The session around it.                                                  *)

\* A deep link installs a session.  It closes no terminal.
Login ==
    /\ epoch < MaxEpoch
    /\ signed_in' = TRUE /\ epoch' = epoch + 1
    /\ UNCHANGED <<mapVars, openVars, outVars, evVars, ioVars, dead, pc, todo>>

----------------------------------------------------------------------------
(* The open call.                                                          *)

\* cloud_terminal_open: the token comes first, from the broker.
FetchToken(o) ==
    /\ pc[o] = "idle"
    /\ signed_in
    /\ token' = [token EXCEPT ![o] = epoch]
    /\ Goto(o, "snapshot")
    /\ UNCHANGED <<authVars, mapVars, snap, gen_ticket, outVars, evVars, ioVars, dead, todo>>

\* open_session takes its own snapshot of the session.
TakeSnapshot(o) ==
    /\ pc[o] = "snapshot"
    /\ snap' = [snap EXCEPT ![o] = epoch]
    /\ Goto(o, IF signed_in THEN "ticket" ELSE "failed")
    /\ UNCHANGED <<authVars, mapVars, token, gen_ticket, outVars, evVars, ioVars, dead, todo>>

TakeTicket(o) ==
    /\ pc[o] = "ticket"
    /\ gen_ticket' = [gen_ticket EXCEPT ![o] = generation]
    /\ Goto(o, "spawn")
    /\ UNCHANGED <<authVars, mapVars, token, snap, outVars, evVars, ioVars, dead, todo>>

\* Check the snapshot and start the I/O thread, which can fail.
Spawn(o) ==
    /\ pc[o] = "spawn"
    /\ \/ /\ Bound(o)
          /\ io' = [io EXCEPT ![o] = "handshake"]
          /\ Goto(o, "wait")
       \/ Goto(o, "failed") /\ UNCHANGED io
    /\ UNCHANGED <<authVars, mapVars, openVars, outVars, evVars, callback, produced,
                   commands, dead, todo>>

\* Ready, a failure, or the deadline of CLOUD_TERMINAL_READY_TIMEOUT.
AwaitReady(o) ==
    /\ pc[o] = "wait"
    /\ \/ ~overflowed[o] /\ news[o] = "ready" /\ Goto(o, "check")
       \/ Goto(o, "cancel")
    /\ UNCHANGED <<authVars, mapVars, openVars, outVars, evVars, ioVars, dead, todo>>

CheckOverflow(o) ==
    /\ pc[o] = "check"
    /\ Goto(o, IF overflowed[o] THEN "cancel" ELSE "check_auth")
    /\ UNCHANGED <<authVars, mapVars, openVars, outVars, evVars, ioVars, dead, todo>>

CheckSnapshot(o) ==
    /\ pc[o] = "check_auth"
    /\ Goto(o, IF Bound(o) THEN "register" ELSE "cancel")
    /\ UNCHANGED <<authVars, mapVars, openVars, outVars, evVars, ioVars, dead, todo>>

MutantAnyGeneration(o) == TRUE

TicketCurrent(o) == gen_ticket[o] = generation

\* Compare and insert under the registry's mutex; no id can be had without entropy.
Register(o) ==
    /\ pc[o] = "register"
    /\ \/ /\ TicketCurrent(o)
          /\ sessions' = sessions \cup {o}
          /\ Goto(o, "bind")
       \/ Goto(o, "cancel") /\ UNCHANGED sessions
    /\ UNCHANGED <<authVars, generation, openVars, outVars, evVars, ioVars, dead, todo>>

BindHolder(o) ==
    /\ pc[o] = "bind"
    /\ holder' = [holder EXCEPT ![o] = TRUE]
    /\ Goto(o, "flush")
    /\ UNCHANGED <<authVars, mapVars, openVars, pending, flushing, evVars, ioVars, dead, todo>>

\* Lock the pending queue and drain it; the lock is held until all is shown.
Flush(o) ==
    /\ pc[o] = "flush"
    /\ flushing' = [flushing EXCEPT ![o] = pending[o]]
    /\ pending' = [pending EXCEPT ![o] = <<>>]
    /\ Goto(o, "show")
    /\ UNCHANGED <<authVars, mapVars, openVars, holder, evVars, ioVars, dead, todo>>

MutantShowsClosedOnly(o) == Goto(o, "done")

\* The end of the socket was among the drained events: take the session out.
ShowClosed(o) == Goto(o, "remove")

Show(o) ==
    /\ pc[o] = "show"
    /\ \/ flushing[o] = <<>> /\ Goto(o, "done") /\ UNCHANGED flushing
       \/ /\ flushing[o] # <<>>
          /\ IF Head(flushing[o]) = Closed THEN ShowClosed(o) ELSE Goto(o, "show")
          /\ flushing' = [flushing EXCEPT ![o] = Tail(@)]
    /\ UNCHANGED <<authVars, mapVars, openVars, holder, pending, evVars, ioVars, dead, todo>>

RemoveAfterFlush(o) ==
    /\ pc[o] = "remove"
    /\ sessions' = sessions \ {o}
    /\ Goto(o, IF o \in sessions THEN "close" ELSE "done")
    /\ UNCHANGED <<authVars, generation, openVars, outVars, evVars, ioVars, dead, todo>>

CloseAfterFlush(o) ==
    /\ pc[o] = "close"
    /\ CloseSlotOnce(o)
    /\ Goto(o, "done")
    /\ UNCHANGED <<authVars, mapVars, openVars, outVars, evVars, io, callback, produced, todo>>

\* cancel_cloud_open_io: send Close, drop the sender, wait a bounded time.
Cancel(o) ==
    /\ pc[o] = "cancel"
    /\ TrySend(o, "close")
    /\ Goto(o, "settle")
    /\ UNCHANGED <<authVars, mapVars, openVars, outVars, evVars, io, callback, produced,
                   dead, todo>>

Settle(o) ==
    /\ pc[o] = "settle"
    /\ Goto(o, "failed")
    /\ UNCHANGED <<authVars, mapVars, openVars, outVars, evVars, ioVars, dead, todo>>

----------------------------------------------------------------------------
(* The I/O thread: the writer.                                             *)

MutantSenderKept(o) == io[o] # "none"

\* A sender of the command channel is still there: the open call's own, or one
\* in a slot that the registry or somebody else still holds.
SenderAlive(o) ==
    \/ pc[o] \in {"wait", "check", "check_auth", "register", "bind", "flush", "show",
                  "remove", "close", "cancel"}
    \/ o \in sessions
    \/ callback[o] = "close"
    \/ \E c \in Callers : o \in todo[c]

\* The future ends and drops the receiver with what is queued.
End(o) ==
    /\ io' = [io EXCEPT ![o] = "ended"]
    /\ callback' = [callback EXCEPT ![o] = "none"]
    /\ commands' = [commands EXCEPT ![o] = <<>>]

Reading(o) == callback[o] = "none"

WriterTakes(o) ==
    /\ io[o] = "recv" /\ Reading(o)
    /\ commands[o] # <<>>
    /\ commands' = [commands EXCEPT ![o] = Tail(@)]
    /\ io' = [io EXCEPT ![o] = IF Head(commands[o]) = "close" THEN "closing" ELSE "send"]
    /\ UNCHANGED <<authVars, mapVars, openVars, outVars, evVars, callback, produced, dead,
                   pc, todo>>

\* The bounded send succeeds, or fails and ends the writer with the whole thread.
WriterSends(o) ==
    /\ io[o] = "send" /\ Reading(o)
    /\ \/ io' = [io EXCEPT ![o] = "recv"] /\ UNCHANGED <<callback, commands>>
       \/ End(o)
    /\ UNCHANGED <<authVars, mapVars, openVars, outVars, evVars, produced, dead, pc, todo>>

\* The close handshake is over, or the last sender is gone.
WriterEnds(o) ==
    /\ Reading(o)
    /\ \/ io[o] = "closing"
       \/ io[o] = "recv" /\ commands[o] = <<>> /\ ~SenderAlive(o)
    /\ End(o)
    /\ UNCHANGED <<authVars, mapVars, openVars, outVars, evVars, produced, dead, pc, todo>>

----------------------------------------------------------------------------
(* The I/O thread: the handshake, the reader and its callback.             *)

\* The first decisive event is the one the waiting open call acts on.
Tell(o, event) ==
    news' = [news EXCEPT ![o] = IF news[o] = "none" THEN event ELSE news[o]]

\* on_event(SocketClosed), up to the swap of closed_emitted.
SocketClosed(o) ==
    IF overflowed[o]
    THEN callback' = [callback EXCEPT ![o] = "end"] /\ UNCHANGED <<news, closed_emitted>>
    ELSE /\ Tell(o, "bad")
         /\ closed_emitted' = [closed_emitted EXCEPT ![o] = TRUE]
         /\ callback' = [callback EXCEPT ![o] = "closed"]

\* connect_async within CLOUD_TERMINAL_HANDSHAKE_TIMEOUT
Handshake(o) ==
    /\ io[o] = "handshake" /\ Reading(o)
    /\ \/ io' = [io EXCEPT ![o] = "recv"] /\ UNCHANGED <<news, closed_emitted, callback>>
       \/ SocketClosed(o) /\ UNCHANGED io
    /\ UNCHANGED <<authVars, mapVars, openVars, outVars, overflowed, produced, commands, dead,
                   pc, todo>>

PeerReady(o) ==
    /\ io[o] \in Live /\ Reading(o)
    /\ ~overflowed[o]
    /\ Tell(o, "ready")
    /\ UNCHANGED <<authVars, mapVars, openVars, outVars, overflowed, closed_emitted, ioVars,
                   dead, pc, todo>>

\* An output or an error message; an error also fails an open call that waits.
PeerOutput(o) ==
    /\ io[o] \in Live /\ Reading(o)
    /\ ~overflowed[o]
    /\ produced[o] < MaxOutput
    /\ produced' = [produced EXCEPT ![o] = @ + 1]
    /\ callback' = [callback EXCEPT ![o] = "route"]
    /\ UNCHANGED news \/ Tell(o, "bad")
    /\ UNCHANGED <<authVars, mapVars, openVars, outVars, overflowed, closed_emitted, io,
                   commands, dead, pc, todo>>

PeerCloses(o) ==
    /\ io[o] \in Live /\ Reading(o)
    /\ SocketClosed(o)
    /\ UNCHANGED <<authVars, mapVars, openVars, outVars, overflowed, io, produced, commands,
                   dead, pc, todo>>

\* route_output reads the holder, and shows at once what has an id to go under.
Route(o) ==
    /\ callback[o] = "route"
    /\ callback' = [callback EXCEPT ![o] = IF holder[o] THEN "none" ELSE "push"]
    /\ UNCHANGED <<authVars, mapVars, openVars, outVars, evVars, io, produced, commands, dead,
                   pc, todo>>

PendingUnlocked(o) == pc[o] \notin {"show", "remove", "close"}

\* try_push, or overflow: nothing that was buffered will be shown.
PushPending(o) ==
    /\ callback[o] = "push"
    /\ PendingUnlocked(o)
    /\ \/ /\ Len(pending[o]) < MaxPending
          /\ pending' = [pending EXCEPT ![o] = Append(@, Out)]
          /\ UNCHANGED evVars
       \/ /\ Len(pending[o]) >= MaxPending
          /\ pending' = [pending EXCEPT ![o] = <<>>]
          /\ overflowed' = [overflowed EXCEPT ![o] = TRUE]
          /\ Tell(o, "bad")
          /\ UNCHANGED closed_emitted
    /\ callback' = [callback EXCEPT ![o] = "none"]
    /\ UNCHANGED <<authVars, mapVars, openVars, holder, flushing, io, produced, commands, dead,
                   pc, todo>>

RouteClosed(o) ==
    /\ callback[o] = "closed"
    /\ callback' = [callback EXCEPT ![o] = IF holder[o] THEN "remove" ELSE "push_closed"]
    /\ UNCHANGED <<authVars, mapVars, openVars, outVars, evVars, io, produced, commands, dead,
                   pc, todo>>

PushClosed(o) ==
    /\ callback[o] = "push_closed"
    /\ PendingUnlocked(o)
    /\ pending' = [pending EXCEPT ![o] = Append(@, Closed)]
    /\ callback' = [callback EXCEPT ![o] = "end"]
    /\ UNCHANGED <<authVars, mapVars, openVars, holder, flushing, evVars, io, produced,
                   commands, dead, pc, todo>>

\* remove_on_transport_ended, on the I/O thread.
RemoveEnded(o) ==
    /\ callback[o] = "remove"
    /\ sessions' = sessions \ {o}
    /\ callback' = [callback EXCEPT ![o] = IF o \in sessions THEN "close" ELSE "end"]
    /\ UNCHANGED <<authVars, generation, openVars, outVars, evVars, io, produced, commands,
                   dead, pc, todo>>

CloseEnded(o) ==
    /\ callback[o] = "close"
    /\ CloseSlotOnce(o)
    /\ callback' = [callback EXCEPT ![o] = "end"]
    /\ UNCHANGED <<authVars, mapVars, openVars, outVars, evVars, io, produced, pc, todo>>

ReaderEnds(o) ==
    /\ callback[o] = "end"
    /\ End(o)
    /\ UNCHANGED <<authVars, mapVars, openVars, outVars, evVars, produced, dead, pc, todo>>

----------------------------------------------------------------------------
(* The other commands.                                                     *)

RaiseGeneration == generation' = generation + 1

\* close_all, up to where the mutex is given back.
CloseAll(c, then) ==
    /\ RaiseGeneration
    /\ todo' = [todo EXCEPT ![c] = sessions]
    /\ sessions' = {}
    /\ Goto(c, then)
    /\ UNCHANGED <<authVars, openVars, outVars, evVars, ioVars, dead>>

\* Sleep, idle timeout, the lock button: CompositeTerminalLifecycleSink.
BeginLock(c) ==
    /\ pc[c] = "ready"
    /\ generation < MaxGeneration
    /\ CloseAll(c, "lock_drain")

\* A cutoff or a logout closes everything, seals the vault, which closes
\* everything again, and clears the session.
BeginCutoff(c) ==
    /\ pc[c] = "ready"
    /\ generation + 1 < MaxGeneration /\ epoch < MaxEpoch
    /\ CloseAll(c, "cutoff_drain")

CloseAgain(c) ==
    /\ pc[c] = "again"
    /\ CloseAll(c, "again_drain")

ClearNative(c) ==
    /\ pc[c] = "clear"
    /\ signed_in' = FALSE /\ epoch' = epoch + 1
    /\ Goto(c, "ready")
    /\ UNCHANGED <<mapVars, openVars, outVars, evVars, ioVars, dead, todo>>

AfterDrain(c) == CASE pc[c] = "cutoff_drain" -> "again"
                   [] pc[c] = "again_drain" -> "clear"
                   [] OTHER -> "ready"

\* close_slot_once of the slots that were taken out, one after the other.
Drain(c) ==
    /\ pc[c] \in {"lock_drain", "cutoff_drain", "again_drain", "close_drain"}
    /\ \/ todo[c] = {} /\ Goto(c, AfterDrain(c)) /\ UNCHANGED <<dead, commands, todo>>
       \/ \E o \in todo[c] :
             /\ CloseSlotOnce(o)
             /\ todo' = [todo EXCEPT ![c] = @ \ {o}]
             /\ UNCHANGED pc
    /\ UNCHANGED <<authVars, mapVars, openVars, outVars, evVars, io, callback, produced>>

\* A caller removes o from the registry and closes what it took out.
Remove(c, o) ==
    /\ sessions' = sessions \ {o}
    /\ todo' = [todo EXCEPT ![c] = sessions \cap {o}]
    /\ Goto(c, "close_drain")

\* close: of an unknown or a foreign session it says nothing.
CloseSession(c, o) ==
    /\ pc[c] = "ready"
    /\ pc[o] \in {"done"}
    /\ o \in sessions /\ Bound(o)
    /\ Remove(c, o)
    /\ UNCHANGED <<authVars, generation, openVars, outVars, evVars, ioVars, dead>>

\* write and resize: lookup_slot.
LookupSlot(c, o) ==
    /\ pc[c] = "ready"
    /\ pc[o] = "done"
    /\ o \in sessions
    /\ todo' = [todo EXCEPT ![c] = {o}]
    /\ Goto(c, "check_before")
    /\ UNCHANGED <<authVars, mapVars, openVars, outVars, evVars, ioVars, dead>>

Revalidate(c, o) ==
    /\ pc[c] \in {"check_before", "check_after"}
    /\ o \in todo[c]
    /\ IF dead[o] \/ ~Bound(o)
       THEN Remove(c, o)
       ELSE /\ UNCHANGED sessions
            /\ IF pc[c] = "check_before"
               THEN Goto(c, "send") /\ UNCHANGED todo
               ELSE Goto(c, "ready") /\ todo' = [todo EXCEPT ![c] = {}]
    /\ UNCHANGED <<authVars, generation, openVars, outVars, evVars, ioVars, dead>>

\* A full queue or a closed channel is an error for the caller and changes nothing.
SendCommand(c, o) ==
    /\ pc[c] = "send"
    /\ o \in todo[c]
    /\ TrySend(o, "write")
    /\ Goto(c, "check_after")
    /\ UNCHANGED <<authVars, mapVars, openVars, outVars, evVars, io, callback, produced, dead,
                   todo>>

----------------------------------------------------------------------------
OpenStep(o) ==
    \/ TakeSnapshot(o) \/ TakeTicket(o) \/ Spawn(o) \/ AwaitReady(o)
    \/ CheckOverflow(o) \/ CheckSnapshot(o) \/ Register(o) \/ BindHolder(o)
    \/ Flush(o) \/ Show(o) \/ RemoveAfterFlush(o) \/ CloseAfterFlush(o)
    \/ Cancel(o) \/ Settle(o)

\* What the I/O thread does without waiting for the peer beyond a timeout.
IoStep(o) ==
    \/ Handshake(o) \/ WriterTakes(o) \/ WriterSends(o) \/ WriterEnds(o)
    \/ Route(o) \/ PushPending(o) \/ RouteClosed(o) \/ PushClosed(o)
    \/ RemoveEnded(o) \/ CloseEnded(o) \/ ReaderEnds(o)

PeerStep(o) == PeerReady(o) \/ PeerOutput(o) \/ PeerCloses(o)

CallerStep(c) ==
    \/ CloseAgain(c) \/ ClearNative(c) \/ Drain(c)
    \/ \E o \in Opens : Revalidate(c, o) \/ SendCommand(c, o)

Begin(c) ==
    \/ BeginLock(c) \/ BeginCutoff(c)
    \/ \E o \in Opens : CloseSession(c, o) \/ LookupSlot(c, o)

Next ==
    \/ Login
    \/ \E o \in Opens : FetchToken(o) \/ OpenStep(o) \/ IoStep(o) \/ PeerStep(o)
    \/ \E c \in Callers : Begin(c) \/ CallerStep(c)

Spec == Init /\ [][Next]_vars

\* Threads run on; every wait of the open call and of the I/O thread is bounded by
\* a timeout of the code.  Nothing is asked of the peer or of the user.
FairSpec ==
    /\ Spec
    /\ \A o \in Opens : WF_vars(OpenStep(o)) /\ WF_vars(IoStep(o))
    /\ \A c \in Callers : WF_vars(CallerStep(c))
----------------------------------------------------------------------------
(* Properties.                                                             *)

\* Every variable stays in its domain and both queues within their capacity; the
\* end of a socket is always taken by the pending queue.
TypeOK ==
    /\ signed_in \in BOOLEAN /\ epoch \in Nat
    /\ generation \in Nat /\ sessions \subseteq Opens
    /\ token \in [Opens -> Nat] /\ snap \in [Opens -> Nat] /\ gen_ticket \in [Opens -> Nat]
    /\ news \in [Opens -> {"none", "ready", "bad"}]
    /\ holder \in [Opens -> BOOLEAN]
    /\ pending \in [Opens -> Seq({Out, Closed})] /\ flushing \in [Opens -> Seq({Out, Closed})]
    /\ overflowed \in [Opens -> BOOLEAN] /\ closed_emitted \in [Opens -> BOOLEAN]
    /\ io \in [Opens -> {"none", "handshake", "ended"} \cup Live]
    /\ callback \in [Opens -> {"none", "route", "push", "closed", "push_closed", "remove",
                               "close", "end"}]
    /\ produced \in [Opens -> Nat]
    /\ commands \in [Opens -> Seq({"write", "close"})]
    /\ \A o \in Opens : Len(commands[o]) <= MaxQueue /\ Len(pending[o]) <= MaxPending + 1
    /\ dead \in [Opens -> BOOLEAN]
    /\ pc \in [Threads -> OpenPoints \cup CallerPoints]
    /\ todo \in [Callers -> SUBSET Opens]

\* Open calls between their ticket and the insert, with a ticket still current.
Admitted ==
    {o \in Opens : /\ pc[o] \in {"spawn", "wait", "check", "check_auth", "register"}
                   /\ gen_ticket[o] = generation}

Barrier == INSTANCE SessionBarrier
    WITH Opens <- Opens, Keys <- {"every"},
         admitted <- {<<o, "every">> : o \in Admitted},
         registered <- {<<o, "every">> : o \in sessions}

\* The cloud registry implements the barrier of the local one: a close_all reaches
\* every open call under way, however long the server takes to be ready.
ImplementsBarrier == Barrier!Spec

\* A session whose I/O thread is gone stays registered for one of three reasons only:
\* the writer gave up, so that nobody reported the socket's end; the callback
\* overflowed and ignored it; or it was queued after the open call had drained the
\* queue.
LingeringExplained ==
    \A o \in sessions :
        pc[o] = "done" /\ io[o] = "ended" =>
            \/ ~closed_emitted[o]
            \/ overflowed[o]
            \/ \E i \in DOMAIN pending[o] : pending[o][i] = Closed

\* Whatever was closed, refused or given up lets go of its thread and socket, even
\* if the Close command found the queue full and the peer reads nothing.
UnregisteredIoEnds ==
    \A o \in Opens :
        pc[o] \in {"done", "failed"} /\ o \notin sessions ~> io[o] \in {"none", "ended"}

\* A terminal whose socket is gone leaves the registry.
EndedCloudSessionLeaves ==
    \A o \in Opens : pc[o] = "done" /\ io[o] = "ended" ~> o \notin sessions
============================================================================
