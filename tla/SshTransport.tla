---------------------------- MODULE SshTransport ----------------------------
(***************************************************************************)
(* The actor behind one local SSH terminal (ssh_transport.rs): a thread    *)
(* with a runtime of its own that sets a session up under one deadline,    *)
(* then serves commands and peer messages until it is cancelled or the     *)
(* peer goes; the open call that waits for it; the threads that send it    *)
(* commands and wait for the answer; and the threads that close it.        *)
(*                                                                         *)
(* The host key callback asks the user on the actor's own thread, where    *)
(* neither the deadline nor the cancel is looked at until it returns.      *)
(***************************************************************************)
EXTENDS Naturals, Sequences, Functions

CONSTANTS Callers,   \* threads in write() or resize()
          Closers,   \* threads in close() or drop
          MaxQueue,  \* MAX_TRANSPORT_CMD_QUEUE
          MaxBurst,  \* FAIR_IO_MAX_BURST
          MaxInbox,  \* bound on the peer messages that wait for the actor
          None

ASSUME TransportAssumption ==
    /\ Callers \cap Closers = {}
    /\ None \notin Callers
    /\ {MaxQueue, MaxBurst, MaxInbox} \subseteq Nat \ {0}

VARIABLES
    clock,       \* 0, past the setup deadline, past the parent's grace
    parent,      \* the open call
    ready,       \* what the ready channel holds
    actor,       \* what the actor does next
    connected,   \* there is a session handle
    channel,     \* there is a session channel
    closes,      \* channel closes of the actor
    disconnects, \* disconnects of the actor
    inbox,       \* peer messages the actor has not read
    peer_gone,   \* behind them: EOF, close, exit status, or the connection lost
    burst,       \* FairIoScheduler.consecutive_peer, up to MaxBurst
    waited,      \* peer messages served while the first command was waiting
    told,        \* emit_closed_once has told the sink
    queue,       \* the command channel, as the callers whose commands they are
    current,     \* the caller whose command the actor has in hand
    reply,       \* the oneshot channel of each caller's command
    cancelled,   \* the watch value
    closed,      \* ActorSshTransport.closed
    pc           \* what each caller and each closer does next

setupVars == <<clock, parent, ready>>
sshVars   == <<connected, channel, closes, disconnects>>
peerVars  == <<inbox, peer_gone>>
loopVars  == <<burst, waited, told>>
cmdVars   == <<queue, current, reply>>
endVars   == <<cancelled, closed>>
vars == <<setupVars, actor, sshVars, peerVars, loopVars, cmdVars, endVars, pc>>

Stages == {"connect", "hash", "auth", "channel", "pty", "shell"}
Serving == {"top", "select", "perform", "teardown", "last"}

Init ==
    /\ clock = 0 /\ parent = "opening" /\ ready = "none"
    /\ actor = "connect"
    /\ connected = FALSE /\ channel = FALSE /\ closes = 0 /\ disconnects = 0
    /\ inbox = 0 /\ peer_gone = FALSE
    /\ burst = 0 /\ waited = 0 /\ told = FALSE
    /\ queue = <<>> /\ current = None /\ reply = [c \in Callers |-> "none"]
    /\ cancelled = FALSE /\ closed = FALSE
    /\ pc = [t \in Callers \cup Closers |-> "ready"]

Goto(t, point) == pc' = [pc EXCEPT ![t] = point]

\* The setup deadline passes, and two seconds later the parent's.
Tick ==
    /\ clock < 2 /\ parent = "opening"
    /\ clock' = clock + 1
    /\ UNCHANGED <<parent, ready, actor, sshVars, peerVars, loopVars, cmdVars, endVars, pc>>

----------------------------------------------------------------------------
(* The open call: open_russh_transport.                                    *)

CancelActor == cancelled' = TRUE

AwaitReady ==
    /\ parent = "opening"
    /\ \/ ready = "ok" /\ parent' = "open" /\ UNCHANGED cancelled
       \/ ready = "error" /\ parent' = "joining" /\ CancelActor
       \/ clock = 2 /\ ready = "none" /\ parent' = "joining" /\ CancelActor
    /\ UNCHANGED <<clock, ready, actor, sshVars, peerVars, loopVars, cmdVars, closed, pc>>

\* join_actor_thread: the actor ended, or the bounded wait for it did.
JoinFailed ==
    /\ parent = "joining"
    /\ parent' = "failed"
    /\ UNCHANGED <<clock, ready, actor, sshVars, peerVars, loopVars, cmdVars, endVars, pc>>

----------------------------------------------------------------------------
(* The actor: setup.                                                       *)

\* The first message stays in the buffer; after the parent left there is none.
TellParent(result) ==
    IF parent \in {"open", "failed"} THEN UNCHANGED ready ELSE ready' = result

\* The end of the thread drops the commands that wait, and with them their replies.
DropCommands ==
    /\ queue' = <<>>
    /\ reply' = [c \in Callers |-> IF c \in Range(queue) THEN "dropped" ELSE reply[c]]
    /\ UNCHANGED current

End == actor' = "ended" /\ DropCommands

AskUser ==
    /\ actor = "connect"
    /\ actor' = "dialog"
    /\ UNCHANGED <<setupVars, sshVars, peerVars, loopVars, cmdVars, endVars, pc>>

\* The dialog returns; a refusal fails the connect, and the handshake goes on
\* otherwise whatever happened in the meantime.
UserAnswers ==
    /\ actor = "dialog"
    /\ actor' \in {"key_accepted", "key_refused"}
    /\ UNCHANGED <<setupVars, sshVars, peerVars, loopVars, cmdVars, endVars, pc>>

\* await_setup_stage: a cancel wins over the deadline, and that over the result.
Aborted == cancelled \/ clock >= 1

\* client::connect is through, and the first handle exists.
Connected ==
    /\ actor \in {"connect", "key_accepted"} /\ ~Aborted
    /\ connected' = TRUE
    /\ actor' = "hash"
    /\ UNCHANGED <<setupVars, channel, closes, disconnects, peerVars, loopVars, cmdVars,
                   endVars, pc>>

NextStage == [hash |-> "auth", auth |-> "channel", channel |-> "pty", pty |-> "shell",
              shell |-> "tell"]

StageDone ==
    /\ actor \in DOMAIN NextStage /\ ~Aborted
    /\ channel' = (channel \/ actor = "channel")
    /\ actor' = NextStage[actor]
    /\ UNCHANGED <<setupVars, connected, closes, disconnects, peerVars, loopVars, cmdVars,
                   endVars, pc>>

MutantOnlyDisconnects(at) ==
    /\ disconnects' = IF at \in Stages \ {"connect"} THEN disconnects + 1 ELSE disconnects
    /\ UNCHANGED closes

\* plan_setup_failure and run_cleanup_io, by what exists when the stage fails.
CleanUp(at) ==
    /\ disconnects' = IF at \in (Stages \ {"connect"}) \cup {"tell"}
                      THEN disconnects + 1 ELSE disconnects
    /\ closes' = IF at \in {"pty", "shell", "tell"} THEN closes + 1 ELSE closes

\* A stage that fails, times out or is cancelled cleans up, reports and ends.
StageFails ==
    /\ actor \in Stages \cup {"key_accepted", "key_refused"}
    /\ CleanUp(actor)
    /\ TellParent("error")
    /\ End
    /\ UNCHANGED <<clock, parent, connected, channel, peerVars, loopVars, endVars, pc>>

\* The setup is complete; without a parent the actor does not stay.
TellReady ==
    /\ actor = "tell"
    /\ \/ /\ parent \in {"opening", "joining"}
          /\ ready' = "ok" /\ actor' = "top"
          /\ UNCHANGED <<closes, disconnects, cmdVars>>
       \/ /\ parent = "failed"
          /\ CleanUp("tell") /\ End
          /\ UNCHANGED ready
    /\ UNCHANGED <<clock, parent, connected, channel, peerVars, loopVars, endVars, pc>>

----------------------------------------------------------------------------
(* The actor: the I/O loop.                                                *)

Top ==
    /\ actor = "top"
    /\ actor' = IF cancelled THEN "teardown" ELSE "select"
    /\ UNCHANGED <<setupVars, sshVars, peerVars, loopVars, cmdVars, endVars, pc>>

MutantPrefersPeer == FALSE

PreferCmdFirst == burst >= MaxBurst

PeerReady == inbox > 0 \/ peer_gone
CmdReady == queue # <<>>

SelectCancel ==
    /\ actor = "select" /\ cancelled
    /\ actor' = "teardown"
    /\ UNCHANGED <<setupVars, sshVars, peerVars, loopVars, cmdVars, endVars, pc>>

\* One message goes to the sink; the last one ends the loop.
SelectPeer ==
    /\ actor = "select" /\ ~cancelled
    /\ PeerReady /\ (CmdReady => ~PreferCmdFirst)
    /\ burst' = IF burst < MaxBurst THEN burst + 1 ELSE burst
    /\ waited' = IF CmdReady THEN waited + 1 ELSE 0
    /\ \/ inbox > 0 /\ inbox' = inbox - 1 /\ actor' = "top" /\ UNCHANGED <<told, cmdVars>>
       \/ inbox = 0 /\ told' = TRUE /\ End /\ UNCHANGED inbox
    /\ UNCHANGED <<setupVars, sshVars, peer_gone, endVars, pc>>

SelectCmd ==
    /\ actor = "select" /\ ~cancelled
    /\ CmdReady /\ (PeerReady => PreferCmdFirst)
    /\ burst' = 0 /\ waited' = 0
    /\ current' = Head(queue) /\ queue' = Tail(queue)
    /\ actor' = "perform"
    /\ UNCHANGED <<setupVars, sshVars, peerVars, told, reply, endVars, pc>>

Answer(result) ==
    /\ reply' = [reply EXCEPT ![current] = result]
    /\ current' = None
    /\ actor' = "top"
    /\ UNCHANGED queue

\* The backend takes the command or fails it, sooner or later or never.
Perform ==
    /\ actor = "perform" /\ ~cancelled
    /\ \E result \in {"ok", "error"} : Answer(result)
    /\ UNCHANGED <<setupVars, sshVars, peerVars, loopVars, endVars, pc>>

MutantWaitsForBackend == FALSE

\* await_or_cancel
CancelPreempts == cancelled

PerformCancelled ==
    /\ actor = "perform" /\ CancelPreempts
    /\ Answer("error")
    /\ UNCHANGED <<setupVars, sshVars, peerVars, loopVars, endVars, pc>>

\* Refuse what is queued, close the channel and disconnect within the budget.
Teardown ==
    /\ actor = "teardown"
    /\ queue' = <<>>
    /\ reply' = [c \in Callers |-> IF c \in Range(queue) THEN "error" ELSE reply[c]]
    /\ closes' = closes + 1 /\ disconnects' = disconnects + 1
    /\ actor' = "last"
    /\ UNCHANGED <<current, setupVars, connected, channel, peerVars, loopVars, endVars, pc>>

TellClosed ==
    /\ actor = "last"
    /\ told' = TRUE
    /\ End
    /\ UNCHANGED <<setupVars, sshVars, peerVars, burst, waited, endVars, pc>>

----------------------------------------------------------------------------
(* The threads that use the transport.                                     *)

BeginCommand(c) ==
    /\ parent = "open" /\ pc[c] = "ready"
    /\ ~cancelled /\ ~closed
    /\ Goto(c, "send")
    /\ UNCHANGED <<setupVars, actor, sshVars, peerVars, loopVars, cmdVars, endVars>>

MutantQueuesAnyway == TRUE

QueueAccepts == Len(queue) < MaxQueue

\* try_send: a full queue and an ended actor are errors at once.
SendCommand(c) ==
    /\ pc[c] = "send"
    /\ \/ /\ actor # "ended" /\ QueueAccepts
          /\ queue' = Append(queue, c)
          /\ reply' = [reply EXCEPT ![c] = "none"]
          /\ Goto(c, "await")
          /\ UNCHANGED current
       \/ /\ actor = "ended" \/ ~QueueAccepts
          /\ Goto(c, "ready")
          /\ UNCHANGED cmdVars
    /\ UNCHANGED <<setupVars, actor, sshVars, peerVars, loopVars, endVars>>

\* The poll for the answer looks at the cancel first.
AwaitReply(c) ==
    /\ pc[c] = "await"
    /\ cancelled \/ reply[c] # "none"
    /\ Goto(c, "ready")
    /\ UNCHANGED <<setupVars, actor, sshVars, peerVars, loopVars, cmdVars, endVars>>

\* close(): only the first of them signals and joins.
BeginClose(k) ==
    /\ parent = "open" /\ pc[k] = "ready"
    /\ closed' = TRUE
    /\ Goto(k, IF closed THEN "done" ELSE "signal")
    /\ UNCHANGED <<setupVars, actor, sshVars, peerVars, loopVars, cmdVars, cancelled>>

SignalCancel(k) ==
    /\ pc[k] = "signal"
    /\ cancelled' = TRUE
    /\ Goto(k, "join")
    /\ UNCHANGED <<setupVars, actor, sshVars, peerVars, loopVars, cmdVars, closed>>

\* The actor ended, or the bounded wait for it did.
Join(k) ==
    /\ pc[k] = "join"
    /\ Goto(k, "done")
    /\ UNCHANGED <<setupVars, actor, sshVars, peerVars, loopVars, cmdVars, endVars>>

----------------------------------------------------------------------------
PeerSends ==
    /\ actor \in Serving /\ ~peer_gone
    /\ \/ inbox < MaxInbox /\ inbox' = inbox + 1 /\ UNCHANGED peer_gone
       \/ peer_gone' = TRUE /\ UNCHANGED inbox
    /\ UNCHANGED <<setupVars, actor, sshVars, loopVars, cmdVars, endVars, pc>>

\* What the actor does without waiting for user, peer or backend.
ActorStep ==
    \/ Connected \/ StageDone \/ StageFails \/ TellReady
    \/ Top \/ SelectCancel \/ SelectPeer \/ SelectCmd \/ PerformCancelled \/ Teardown
    \/ TellClosed

OpenStep == AwaitReady \/ JoinFailed
CallerStep(c) == SendCommand(c) \/ AwaitReply(c)
CloserStep(k) == SignalCancel(k) \/ Join(k)

Next ==
    \/ Tick \/ OpenStep \/ ActorStep
    \/ AskUser \/ UserAnswers \/ Perform \/ PeerSends
    \/ \E c \in Callers : BeginCommand(c) \/ CallerStep(c)
    \/ \E k \in Closers : BeginClose(k) \/ CloserStep(k)

Spec == Init /\ [][Next]_vars

\* Threads run on and the deadlines pass.  The user may never answer the dialog, the
\* backend never take a command, the peer send for ever.
FairSpec ==
    /\ Spec
    /\ WF_vars(Tick) /\ WF_vars(OpenStep) /\ WF_vars(ActorStep)
    /\ \A c \in Callers : WF_vars(CallerStep(c))
    /\ \A k \in Closers : WF_vars(CloserStep(k))

----------------------------------------------------------------------------
(* Properties.                                                             *)

\* Every variable stays in its domain, the command channel within its capacity.
TypeOK ==
    /\ clock \in 0 .. 2
    /\ parent \in {"opening", "joining", "open", "failed"}
    /\ ready \in {"none", "ok", "error"}
    /\ actor \in Stages \cup Serving \cup {"dialog", "key_accepted", "key_refused", "tell",
                                           "ended"}
    /\ connected \in BOOLEAN /\ channel \in BOOLEAN
    /\ closes \in Nat /\ disconnects \in Nat
    /\ inbox \in 0 .. MaxInbox /\ peer_gone \in BOOLEAN
    /\ burst \in 0 .. MaxBurst /\ waited \in Nat /\ told \in BOOLEAN
    /\ queue \in Seq(Callers) /\ Len(queue) <= MaxQueue
    /\ current \in Callers \cup {None} /\ (current # None <=> actor = "perform")
    /\ reply \in [Callers -> {"none", "ok", "error", "dropped"}]
    /\ cancelled \in BOOLEAN /\ closed \in BOOLEAN
    /\ pc \in [Callers \cup Closers -> {"ready", "send", "await", "signal", "join", "done"}]

\* Remote output that never pauses holds a keystroke up for at most MaxBurst messages.
CommandWaitsBounded == waited <= MaxBurst

\* A setup that fails leaves nothing behind: one disconnect if a handle existed, one
\* close if a channel did, and never more than one of each.
SetupLeavesNothing ==
    /\ disconnects <= 1 /\ closes <= 1
    /\ actor = "ended" /\ ~told =>
          /\ disconnects = IF connected THEN 1 ELSE 0
          /\ closes = IF channel THEN 1 ELSE 0

\* An open call that failed leaves no actor running, though the actor may have become
\* ready just as its parent gave up; only a dialog nobody answers can hold it.
FailedOpenEnds == parent = "failed" ~> actor \in {"ended", "dialog"}

\* A cancelled actor tells the sink and ends, though the backend never takes the
\* command it is performing.
CancelEndsActor == cancelled /\ actor \in Serving ~> actor = "ended" /\ told

\* Whoever waits for an answer gets one when the actor is gone.
NobodyWaitsForEnded ==
    \A c \in Callers : pc[c] = "await" /\ actor = "ended" ~> pc[c] # "await"

\* Nobody is stuck with a transport: neither the actor of an open call that failed, nor a
\* cancelled one, nor who waits for one that is gone.
EverybodyLetsGo == FailedOpenEnds /\ CancelEndsActor /\ NobodyWaitsForEnded
============================================================================
