---------------------------- MODULE TerminalView ----------------------------
(***************************************************************************)
(* The terminal of the WebView (apps/admin): the effect of                 *)
(* useServerTerminal.ts that mounts and unmounts it, the native session    *)
(* that local-ssh-bridge.ts opens for it, and the commands and events      *)
(* between them and the native client.                                     *)
(*                                                                         *)
(* JavaScript runs one task at a time: a step is what runs between two     *)
(* waits for the native client.  Events reach every listener in the order  *)
(* of their emission; the answers of commands come on a way of their own,  *)
(* before or after events that were emitted earlier.  Local and cloud      *)
(* sessions take the same path.                                            *)
(***************************************************************************)
EXTENDS Naturals, Sequences

CONSTANTS MaxEffects,  \* mounts of the terminal (bound)
          MaxOutput,   \* chunks of one session (bound)
          MaxEpoch,    \* sign-ins that replace the session (bound)
          MaxPrebind   \* MAX_PENDING_LOCAL_SSH_OUTPUT

ASSUME ViewAssumption == {MaxEffects, MaxOutput, MaxEpoch, MaxPrebind} \subseteq Nat

\* The runs of the effect, in their order; each opens at most one session, which goes by
\* its number.
Effects == 1 .. MaxEffects
NoHandle == 0

\* The chunks of a session are numbered; its last event says that it is closed.
Closed == 0

VARIABLES
    effect,     \* the last run of the effect
    mounted,    \* its cleanup has not run: its `disposed` is FALSE
    pc,         \* per effect: where its `start` waits
    bridge,     \* per effect: the locals of openNativeTerminalSession
    shown,      \* per effect: what its xterm was given
    handle_ref, \* localHandleRef: the effect whose handle it holds, or NoHandle
    ready,      \* what the hook tells the page
    native,     \* per effect: its session in the native client
    at,         \* per effect: the auth epoch its session is bound to
    epoch,      \* the auth epoch
    produced,   \* per effect: how many chunks its session emitted
    finished,   \* per effect: its session emitted Closed
    answer,     \* per effect: the answer of its open command
    closing,    \* per effect: its close command
    wire        \* events emitted and not delivered

viewVars   == <<effect, mounted, handle_ref, ready>>
nativeVars == <<native, at, produced, finished>>
vars == <<viewVars, pc, bridge, shown, nativeVars, epoch, answer, closing, wire>>

Mounted(e) == mounted /\ e = effect

\* onAbort and `disposed`: the cleanup of an effect sets both.
Cancelled(e) == ~Mounted(e)

NoBridge == [prebind |-> <<>>, overflowed |-> FALSE, bound |-> FALSE, inactive |-> FALSE,
             remote_closed |-> FALSE, failed |-> FALSE, disposed |-> FALSE, sent |-> FALSE,
             listening |-> FALSE]

Init ==
    /\ effect = 0 /\ mounted = FALSE
    /\ pc = [e \in Effects |-> "none"]
    /\ bridge = [e \in Effects |-> NoBridge]
    /\ shown = [e \in Effects |-> <<>>]
    /\ handle_ref = NoHandle /\ ready = FALSE
    /\ native = [e \in Effects |-> "none"]
    /\ at = [e \in Effects |-> 0] /\ epoch = 0
    /\ produced = [e \in Effects |-> 0] /\ finished = [e \in Effects |-> FALSE]
    /\ answer = [e \in Effects |-> "none"]
    /\ closing = [e \in Effects |-> "none"]
    /\ wire = <<>>

----------------------------------------------------------------------------
(* The handle of a session.                                                *)

\* sendLocalCloseOnce has something to close.
ClosesNow(b) == ~b.sent /\ ~b.remote_closed

\* dispose: close the session unless that was done, then stop listening; the wait for
\* the close comes between.
Dispose(e) ==
    /\ bridge' = [bridge EXCEPT ![e].disposed = TRUE, ![e].inactive = TRUE,
                                ![e].sent = @ \/ ClosesNow(bridge[e]),
                                ![e].listening = @ /\ ClosesNow(bridge[e])]
    /\ closing' = IF ClosesNow(bridge[e]) THEN [closing EXCEPT ![e] = "sent"] ELSE closing
    /\ pc' = [pc EXCEPT ![e] = IF ClosesNow(bridge[e]) THEN "disposing" ELSE "over"]

----------------------------------------------------------------------------
(* Mount and unmount.                                                      *)

\* The effect begins; it asks the vault whether it holds the key.
Mount ==
    /\ ~mounted /\ effect < MaxEffects
    /\ effect' = effect + 1 /\ mounted' = TRUE
    /\ ready' = FALSE
    /\ pc' = [pc EXCEPT ![effect + 1] = "probe"]
    /\ UNCHANGED <<bridge, shown, handle_ref, nativeVars, epoch, answer, closing, wire>>

\* The cleanup of the effect: the page is left, or a new run of the effect follows.
Unmount ==
    /\ mounted
    /\ mounted' = FALSE /\ ready' = FALSE
    /\ handle_ref' = NoHandle
    /\ IF handle_ref # NoHandle THEN Dispose(handle_ref) ELSE UNCHANGED <<bridge, closing, pc>>
    /\ UNCHANGED <<effect, shown, nativeVars, epoch, answer, wire>>

----------------------------------------------------------------------------
(* start: choose a path, listen, open.                                     *)

Goto(e, p) == pc' = [pc EXCEPT ![e] = p]

\* No way in: the key is not here and the cloud does not have it either.
Unavailable(e) ==
    /\ pc[e] = "probe"
    /\ Goto(e, "over")
    /\ ready' = (ready /\ ~Mounted(e))
    /\ UNCHANGED <<effect, mounted, handle_ref, bridge, shown, nativeVars, epoch, answer,
                   closing, wire>>

\* openLocal or openDesktopCloud; an effect that is over by now does nothing.
Probed(e) ==
    /\ pc[e] = "probe"
    /\ Goto(e, IF Mounted(e) THEN "listen" ELSE "over")
    /\ UNCHANGED <<viewVars, bridge, shown, nativeVars, epoch, answer, closing, wire>>

\* The listener is there; the open command goes out, even for an effect that is over.
Listened(e) ==
    /\ pc[e] = "listen"
    /\ Goto(e, "invoke")
    /\ bridge' = [bridge EXCEPT ![e].listening = TRUE]
    /\ native' = [native EXCEPT ![e] = "opening"] /\ at' = [at EXCEPT ![e] = epoch]
    /\ UNCHANGED <<viewVars, shown, produced, finished, epoch, answer, closing, wire>>

\* The catch of openLocal: only an effect that still runs touches the page.
FailOpen(e) ==
    /\ handle_ref' = IF Mounted(e) THEN NoHandle ELSE handle_ref
    /\ ready' = (ready /\ ~Mounted(e))

ListenFails(e) ==
    /\ pc[e] = "listen"
    /\ Goto(e, "over")
    /\ FailOpen(e)
    /\ UNCHANGED <<effect, mounted, bridge, shown, nativeVars, epoch, answer, closing, wire>>

Rejected(e) ==
    /\ pc[e] = "invoke" /\ answer[e] = "error"
    /\ Goto(e, "over")
    /\ bridge' = [bridge EXCEPT ![e].listening = FALSE]
    /\ FailOpen(e)
    /\ UNCHANGED <<effect, mounted, shown, nativeVars, epoch, answer, closing, wire>>

\* The session came too late, or its first output did not fit.
Refuses(e) == bridge[e].overflowed \/ Cancelled(e)

RefuseSession(e) ==
    /\ pc[e] = "invoke" /\ answer[e] = "ok" /\ Refuses(e)
    /\ Goto(e, "refusing")
    /\ bridge' = [bridge EXCEPT ![e].sent = TRUE]
    /\ closing' = [closing EXCEPT ![e] = "sent"]
    /\ UNCHANGED <<viewVars, shown, nativeVars, epoch, answer, wire>>

\* What of these events is for the session of e, in their order.
OwnItems(e, events) ==
    LET own[i \in 0 .. Len(events)] ==
            IF i = 0 THEN <<>>
            ELSE IF events[i][1] = e THEN Append(own[i - 1], events[i][2])
            ELSE own[i - 1]
    IN own[Len(events)]

MutantReplayNothing(e) == <<>>

\* What the listener kept for this session.
Replay(e) == OwnItems(e, bridge[e].prebind)

\* The handle is bound and the kept events are shown, up to one that says Closed or that
\* the terminal throws at.
BindSession(e) ==
    /\ pc[e] = "invoke" /\ answer[e] = "ok" /\ ~Refuses(e)
    /\ \E n \in 0 .. Len(Replay(e)) :
          LET closed == n > 0 /\ Replay(e)[n] = Closed
              throws == n < Len(Replay(e))
          IN /\ throws => Replay(e)[n + 1] # Closed
             /\ shown' = [shown EXCEPT ![e] = @ \o SubSeq(Replay(e), 1, n)]
             /\ bridge' = [bridge EXCEPT
                   ![e] = [@ EXCEPT !.bound = TRUE, !.prebind = <<>>,
                                    !.inactive = closed \/ throws,
                                    !.remote_closed = closed,
                                    !.failed = throws, !.sent = throws,
                                    !.listening = ~closed /\ ~throws]]
             /\ closing' = IF throws THEN [closing EXCEPT ![e] = "sent"] ELSE closing
             /\ handle_ref' = IF closed THEN NoHandle ELSE handle_ref
    /\ Goto(e, "bound")
    /\ UNCHANGED <<effect, mounted, ready, nativeVars, epoch, answer, wire>>

----------------------------------------------------------------------------
(* The continuation of openLocal and openDesktopCloud.                     *)

MutantKeepsClosed(e) == Mounted(e)

MutantKeepsAlways(e) == ~bridge[e].remote_closed

Keeps(e) == Mounted(e) /\ ~bridge[e].remote_closed

KeepHandle(e) ==
    /\ pc[e] = "bound" /\ Keeps(e)
    /\ Goto(e, "live")
    /\ handle_ref' = e /\ ready' = TRUE
    /\ UNCHANGED <<effect, mounted, bridge, shown, nativeVars, epoch, answer, closing, wire>>

\* The effect is over, or the session was closed before it was shown.
DropHandle(e) ==
    /\ pc[e] = "bound" /\ ~Keeps(e)
    /\ Dispose(e)
    /\ FailOpen(e)
    /\ UNCHANGED <<effect, mounted, shown, nativeVars, epoch, answer, wire>>

\* The close command was answered: dispose and the refusal of an open go on.
CloseAnswered(e) ==
    /\ pc[e] \in {"refusing", "disposing"} /\ closing[e] = "answered"
    /\ Goto(e, "over")
    /\ bridge' = [bridge EXCEPT ![e].listening = FALSE]
    /\ IF pc[e] = "refusing" THEN FailOpen(e) ELSE UNCHANGED <<handle_ref, ready>>
    /\ UNCHANGED <<effect, mounted, shown, nativeVars, epoch, answer, closing, wire>>

----------------------------------------------------------------------------
(* Events.                                                                 *)

\* The filter on the session id.
IsOwn(e, ev) == ev[1] = e

\* onPayload does something: a handle that is closed or disposed of ignores its events.
Listens(e) == bridge[e].listening /\ ~bridge[e].disposed /\ ~bridge[e].inactive

MutantUnboundedQueue(b, ev) == [b EXCEPT !.prebind = Append(@, ev)]

\* onPayload before the session id is known: the queue is for everybody's events.
Queue(b, ev) ==
    IF b.overflowed THEN b
    ELSE IF Len(b.prebind) >= MaxPrebind
         THEN [b EXCEPT !.overflowed = TRUE, !.prebind = <<>>]
         ELSE [b EXCEPT !.prebind = Append(@, ev)]

\* deliver: to the terminal that shows it, or throws; Closed ends the handle.
Deliver(b, ev, throws) ==
    IF throws
    THEN [b EXCEPT !.failed = TRUE, !.inactive = TRUE, !.listening = FALSE, !.sent = TRUE]
    ELSE IF ev[2] = Closed
         THEN [b EXCEPT !.inactive = TRUE, !.remote_closed = TRUE, !.listening = FALSE]
         ELSE b

\* onPayload of one listener.
OnPayload(e, ev, throws) ==
    CASE Listens(e) /\ ~bridge[e].bound                 -> Queue(bridge[e], ev)
      [] Listens(e) /\ bridge[e].bound /\ IsOwn(e, ev) -> Deliver(bridge[e], ev, throws)
      [] OTHER                                          -> bridge[e]

\* The terminal on the page takes the event: onOutput of an effect that is over ignores it.
Takes(e, ev) == Mounted(e) /\ Listens(e) /\ bridge[e].bound /\ IsOwn(e, ev)

\* The oldest event goes to every listener.  Of its terminal's onOutput it can make the
\* session's last word, one more chunk, or an exception that ends the handle.
DeliverEvent ==
    /\ wire # <<>>
    /\ wire' = Tail(wire)
    /\ LET ev == Head(wire)
           takers == {e \in Effects : Takes(e, ev)}
       IN \E throws \in {FALSE} \cup {ev[2] # Closed /\ takers # {}} :
             /\ bridge' = [e \in Effects |-> OnPayload(e, ev, throws /\ e \in takers)]
             /\ closing' = [e \in Effects |-> IF throws /\ e \in takers /\ ClosesNow(bridge[e])
                                              THEN "sent" ELSE closing[e]]
             /\ shown' = [e \in Effects |-> IF e \in takers /\ ~throws
                                            THEN Append(shown[e], ev[2]) ELSE shown[e]]
             /\ IF takers = {} \/ throws THEN UNCHANGED <<handle_ref, ready>>
                ELSE IF ev[2] = Closed THEN handle_ref' = NoHandle /\ ready' = FALSE
                ELSE ready' = (ready \/ handle_ref \in takers) /\ UNCHANGED handle_ref
    /\ UNCHANGED <<effect, mounted, pc, nativeVars, epoch, answer>>

----------------------------------------------------------------------------
(* The native client, as SshSessions, CloudTerminal and IpcTerminalSink    *)
(* have it: a session is registered, emits, and answers the open call last.*)

Foreign(e) == at[e] # epoch

\* A deep link replaces the session: the terminals of the last one stay.
Relogin ==
    /\ epoch < MaxEpoch /\ epoch' = epoch + 1
    /\ UNCHANGED <<viewVars, pc, bridge, shown, nativeVars, answer, closing, wire>>

NativeOpens(e) ==
    /\ native[e] = "opening" /\ ~Foreign(e)
    /\ native' = [native EXCEPT ![e] = "open"]
    /\ UNCHANGED <<viewVars, pc, bridge, shown, at, produced, finished, epoch, answer, closing,
                   wire>>

\* The open call fails before its session was registered or at the binding of its sink.
NativeFails(e) ==
    /\ native[e] \in {"opening", "open"} /\ answer[e] = "none"
    /\ native' = [native EXCEPT ![e] = "gone"]
    /\ answer' = [answer EXCEPT ![e] = "error"]
    /\ UNCHANGED <<viewVars, pc, bridge, shown, at, produced, finished, epoch, closing, wire>>

NativeAnswers(e) ==
    /\ native[e] \in {"open", "gone"} /\ answer[e] = "none"
    /\ answer' = [answer EXCEPT ![e] = "ok"]
    /\ UNCHANGED <<viewVars, pc, bridge, shown, nativeVars, epoch, closing, wire>>

Emits(e) ==
    /\ native[e] = "open" /\ produced[e] < MaxOutput
    /\ produced' = [produced EXCEPT ![e] = @ + 1]
    /\ wire' = Append(wire, <<e, produced[e] + 1>>)
    /\ UNCHANGED <<viewVars, pc, bridge, shown, native, at, finished, epoch, answer, closing>>

\* A session leaves its registry and says so, unless its sink is broken.
Leaves(e) ==
    /\ native' = [native EXCEPT ![e] = "gone"]
    /\ \/ finished' = [finished EXCEPT ![e] = TRUE] /\ wire' = Append(wire, <<e, Closed>>)
       \/ UNCHANGED <<finished, wire>>

\* The peer ends it, or a lock, a cutoff or a deletion does.
NativeEnds(e) ==
    /\ native[e] = "open"
    /\ Leaves(e)
    /\ UNCHANGED <<viewVars, pc, bridge, shown, at, produced, epoch, answer, closing>>

\* The close command: it answers Ok and does nothing for a session that is not of this
\* sign-in, or that is not there.
CloseArrives(e) ==
    /\ closing[e] = "sent"
    /\ closing' = [closing EXCEPT ![e] = "answered"]
    /\ IF native[e] = "open" /\ ~Foreign(e) THEN Leaves(e)
       ELSE UNCHANGED <<native, finished, wire>>
    /\ UNCHANGED <<viewVars, pc, bridge, shown, at, produced, epoch, answer>>

\* A keystroke or a resize of the terminal on the page: refused for a session that is not
\* of this sign-in, which is closed.
Write ==
    /\ handle_ref # NoHandle /\ ~bridge[handle_ref].inactive
    /\ native[handle_ref] = "open" /\ Foreign(handle_ref)
    /\ Leaves(handle_ref)
    /\ UNCHANGED <<viewVars, pc, bridge, shown, at, produced, epoch, answer, closing>>

----------------------------------------------------------------------------
(* Everything together.                                                    *)

\* The tasks of the WebView that wait for nothing but their turn.
Continue(e) ==
    \/ Unavailable(e) \/ Probed(e) \/ Listened(e) \/ ListenFails(e)
    \/ Rejected(e) \/ RefuseSession(e) \/ BindSession(e)
    \/ KeepHandle(e) \/ DropHandle(e) \/ CloseAnswered(e)

NativeStep(e) == NativeOpens(e) \/ NativeFails(e) \/ Emits(e) \/ NativeEnds(e)

Next ==
    \/ Mount \/ Unmount \/ Relogin \/ Write \/ DeliverEvent
    \/ \E e \in Effects : Continue(e) \/ NativeStep(e) \/ NativeAnswers(e) \/ CloseArrives(e)

Spec == Init /\ [][Next]_vars

\* The WebView runs its tasks and gets its events; an open command whose session is
\* registered, and a close command, are answered.  A connect that waits for a dialog owes
\* nothing, nor do the user and the peer.
FairSpec ==
    /\ Spec
    /\ WF_vars(DeliverEvent)
    /\ \A e \in Effects :
          WF_vars(Continue(e)) /\ WF_vars(NativeAnswers(e)) /\ WF_vars(CloseArrives(e))

----------------------------------------------------------------------------
(* Properties.                                                             *)

Items == 0 .. MaxOutput

\* Every variable stays in its domain, and the queue before the session id is known within
\* its bound though everybody's events go into it.
TypeOK ==
    /\ effect \in 0 .. MaxEffects /\ mounted \in BOOLEAN
    /\ pc \in [Effects -> {"none", "probe", "listen", "invoke", "refusing", "bound", "live",
                           "disposing", "over"}]
    /\ bridge \in [Effects -> [prebind : Seq(Effects \X Items), overflowed : BOOLEAN,
                               bound : BOOLEAN, inactive : BOOLEAN, remote_closed : BOOLEAN,
                               failed : BOOLEAN, disposed : BOOLEAN, sent : BOOLEAN,
                               listening : BOOLEAN]]
    /\ \A e \in Effects : Len(bridge[e].prebind) <= MaxPrebind
    /\ shown \in [Effects -> Seq(Items)]
    /\ handle_ref \in Effects \cup {NoHandle} /\ ready \in BOOLEAN
    /\ native \in [Effects -> {"none", "opening", "open", "gone"}]
    /\ at \in [Effects -> 0 .. MaxEpoch] /\ epoch \in 0 .. MaxEpoch
    /\ produced \in [Effects -> 0 .. MaxOutput] /\ finished \in [Effects -> BOOLEAN]
    /\ answer \in [Effects -> {"none", "ok", "error"}]
    /\ closing \in [Effects -> {"none", "sent", "answered"}]
    /\ wire \in Seq(Effects \X Items)

\* All that the session of e emitted.
Emitted(e) ==
    [i \in 1 .. produced[e] |-> i] \o (IF finished[e] THEN <<Closed>> ELSE <<>>)

\* Until its handle ends, what a session emitted is what its terminal was shown, what waits
\* for the session id, and what is under way, in this order: nothing is lost between the
\* listener, the answer of the open call and the replay, nothing is shown twice, and
\* nothing of another session is shown.
OwnOutputInOrder ==
    \A e \in Effects :
        Listens(e) /\ ~bridge[e].overflowed /\ Mounted(e) =>
            Emitted(e) = shown[e] \o OwnItems(e, bridge[e].prebind) \o OwnItems(e, wire)

\* The page calls a terminal ready only while it is on it, with the handle of a session
\* nobody reported closed, unless xterm threw; and no handle outlives its effect.
ReadyIsAttached ==
    /\ ready => handle_ref # NoHandle
    /\ handle_ref # NoHandle =>
          /\ Mounted(handle_ref) /\ pc[handle_ref] = "live"
          /\ bridge[handle_ref].inactive => bridge[handle_ref].failed

\* A session whose terminal is gone is closed, whenever in its open call the page was left,
\* and its listener too; only one of an earlier sign-in stays, for which the close command
\* does nothing.
SessionFollowsView ==
    \A e \in Effects :
        /\ native[e] = "open" /\ ~Mounted(e) ~> native[e] # "open" \/ Foreign(e)
        /\ native[e] = "gone" /\ ~Mounted(e) ~> ~bridge[e].listening
============================================================================
