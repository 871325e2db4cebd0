------------------------- MODULE HostKeyPolicyProofs -------------------------
(***************************************************************************)
(* Proofs about HostKeyPolicy for every set of open calls, of principals   *)
(* and of keys, and for every number of sessions and rotations; and after  *)
(* them about SshTransport, whose actor runs the policy as a callback, for *)
(* every set of callers and of closers and every capacity.                 *)
(***************************************************************************)
EXTENDS HostKeyPolicy, Sequences, TLAPS

\* A call that holds a pin holds one the cloud had since, and one that is past the write to
\* the cloud presents a key the cloud had since.
Fetched == {"prepare", "connect", "check", "dialog", "confirmed", "cloud", "written", "record",
            "recorded", "accepted"}
Pinned  == {"written", "record", "recorded", "accepted"}

PinInv ==
    \A o \in Opens :
        /\ pc[o] \in Fetched => pin[o] \in held[o]
        /\ pc[o] \in Pinned => presented[o] \in held[o]

\* The host presented a key, and a record of its principal stays.
RecordInv ==
    \A o \in Opens :
        /\ pc[o] \in Fetched \ {"prepare", "connect"} => presented[o] \in Keys
        /\ pc[o] \in {"recorded", "accepted"} => local_pin[who[o]] # None

\* A session that lapsed during the dialog is not the current one again.
LapseInv ==
    \A o \in Opens :
        /\ at[o] <= epoch
        /\ lapsed[o] => pc[o] \in {"idle", "dialog", "confirmed", "failed"}
        /\ lapsed[o] /\ pc[o] \in {"dialog", "confirmed"} => at[o] < epoch

IInv == TypeOK /\ PinInv /\ RecordInv /\ LapseInv

----------------------------------------------------------------------------
\* The invariant holds at the start ...
LEMMA InvInit == Init => IInv
BY PolicyAssumption
   DEF Init, IInv, TypeOK, PinInv, RecordInv, LapseInv, Points, Fetched, Pinned

\* Every step keeps every variable in its domain.
LEMMA TypeStep == TypeOK /\ [Next]_vars => TypeOK'
<1> SUFFICES ASSUME TypeOK, [Next]_vars
             PROVE  TypeOK'
    OBVIOUS
<1> USE PolicyAssumption DEF TypeOK, Points, Goto, authVars, cloudVars, targetVars
<1>1. CASE ChangeSession
    BY <1>1 DEF ChangeSession
<1>2. CASE Rotate
    BY <1>2 DEF Rotate, SetPin
<1>3. ASSUME NEW o \in Opens, Open(o)
      PROVE  TypeOK'
  <2>1. CASE TakeSnapshot(o)
      BY <2>1 DEF TakeSnapshot, SignedIn
  <2>2. CASE FetchMetadata(o)
      BY <2>2 DEF FetchMetadata
  <2>3. CASE Prepare(o) \/ Evaluate(o) \/ UserAnswers(o) \/ Confirmed(o)
      BY <2>3 DEF Prepare, Evaluate, UserAnswers, Confirmed, AfterDialog, Revalidate
  <2>4. CASE Connect(o)
      BY <2>4 DEF Connect
  <2>5. CASE WriteCloud(o)
      BY <2>5 DEF WriteCloud, SetPin, CloudFails
  <2>6. CASE Written(o) \/ Recorded(o)
      BY <2>6 DEF Written, Recorded, Revalidate
  <2>7. CASE Record(o)
      BY <2>7 DEF Record, RecordFails, Namespace
  <2>8. CASE Again(o)
      BY <2>8 DEF Again
  <2> QED
      BY <1>3, <2>1, <2>2, <2>3, <2>4, <2>5, <2>6, <2>7, <2>8 DEF Open
<1>4. CASE UNCHANGED vars
    BY <1>4 DEF vars
<1> QED
    BY <1>1, <1>2, <1>3, <1>4 DEF Next

\* A pin that was read stays among what the cloud held, and a confirmed key joins it.
LEMMA PinStep == IInv /\ [Next]_vars => PinInv'
<1> SUFFICES ASSUME IInv, [Next]_vars
             PROVE  PinInv'
    OBVIOUS
<1> USE DEF IInv, TypeOK, PinInv, Points, Fetched, Pinned, Goto,
            authVars, cloudVars, targetVars
<1>1. CASE ChangeSession
    BY <1>1 DEF ChangeSession
<1>2. CASE Rotate
    BY <1>2 DEF Rotate, SetPin
<1>3. ASSUME NEW o \in Opens, Open(o)
      PROVE  PinInv'
  <2>1. CASE TakeSnapshot(o)
      BY <2>1 DEF TakeSnapshot
  <2>2. CASE FetchMetadata(o)
      BY <2>2 DEF FetchMetadata
  <2>3. CASE Prepare(o) \/ UserAnswers(o) \/ Confirmed(o) \/ Written(o) \/ Recorded(o)
      BY <2>3 DEF Prepare, UserAnswers, Confirmed, AfterDialog, Revalidate, Written, Recorded
  <2>4. CASE Connect(o)
      BY <2>4 DEF Connect
  <2>5. CASE Evaluate(o)
      BY <2>5 DEF Evaluate, Matches
  <2>6. CASE WriteCloud(o)
      BY <2>6 DEF WriteCloud, SetPin, CloudFails
  <2>7. CASE Record(o)
      BY <2>7 DEF Record, RecordFails
  <2>8. CASE Again(o)
      BY <2>8 DEF Again
  <2> QED
      BY <1>3, <2>1, <2>2, <2>3, <2>4, <2>5, <2>6, <2>7, <2>8 DEF Open
<1>4. CASE UNCHANGED vars
    BY <1>4 DEF vars
<1> QED
    BY <1>1, <1>2, <1>3, <1>4 DEF Next

\* A record is a key, and no record is taken away.
LEMMA RecordStep == IInv /\ [Next]_vars => RecordInv'
<1> SUFFICES ASSUME IInv, [Next]_vars
             PROVE  RecordInv'
    OBVIOUS
<1> USE PolicyAssumption
    DEF IInv, TypeOK, RecordInv, Points, Fetched, Goto, authVars, cloudVars, targetVars
<1>1. CASE ChangeSession
    BY <1>1 DEF ChangeSession
<1>2. CASE Rotate
    BY <1>2 DEF Rotate
<1>3. ASSUME NEW o \in Opens, Open(o)
      PROVE  RecordInv'
  <2>1. CASE TakeSnapshot(o)
      BY <2>1 DEF TakeSnapshot
  <2>2. CASE FetchMetadata(o)
      BY <2>2 DEF FetchMetadata
  <2>3. CASE Prepare(o) \/ UserAnswers(o) \/ Confirmed(o) \/ Written(o) \/ Recorded(o)
      BY <2>3 DEF Prepare, UserAnswers, Confirmed, AfterDialog, Revalidate, Written, Recorded
  <2>4. CASE Connect(o)
      BY <2>4 DEF Connect
  <2>5. CASE Evaluate(o)
      BY <2>5 DEF Evaluate
  <2>6. CASE WriteCloud(o)
      BY <2>6 DEF WriteCloud, CloudFails
  <2>7. CASE Record(o)
      BY <2>7 DEF Record, RecordFails, Namespace
  <2>8. CASE Again(o)
      BY <2>8 DEF Again
  <2> QED
      BY <1>3, <2>1, <2>2, <2>3, <2>4, <2>5, <2>6, <2>7, <2>8 DEF Open
<1>4. CASE UNCHANGED vars
    BY <1>4 DEF vars
<1> QED
    BY <1>1, <1>2, <1>3, <1>4 DEF Next

\* Once the session ended during the dialog, no later one has the epoch of the call.
LEMMA LapseStep == IInv /\ [Next]_vars => LapseInv'
<1> SUFFICES ASSUME IInv, [Next]_vars
             PROVE  LapseInv'
    OBVIOUS
<1> USE DEF IInv, TypeOK, LapseInv, Points, Goto, authVars, cloudVars, targetVars
<1>1. CASE ChangeSession
    BY <1>1 DEF ChangeSession
<1>2. CASE Rotate
    BY <1>2 DEF Rotate
<1>3. ASSUME NEW o \in Opens, Open(o)
      PROVE  LapseInv'
  <2>1. CASE TakeSnapshot(o)
      BY <2>1 DEF TakeSnapshot
  <2>2. CASE FetchMetadata(o)
      BY <2>2 DEF FetchMetadata
  <2>3. CASE Prepare(o) \/ Evaluate(o) \/ Written(o) \/ Recorded(o)
      BY <2>3 DEF Prepare, Evaluate, Revalidate, Written, Recorded
  <2>4. CASE Connect(o) \/ UserAnswers(o) \/ Again(o)
      BY <2>4 DEF Connect, UserAnswers, Again
  <2>5. CASE Confirmed(o)
      BY <2>5 DEF Confirmed, AfterDialog, Revalidate, Current
  <2>6. CASE WriteCloud(o)
      BY <2>6 DEF WriteCloud, CloudFails
  <2>7. CASE Record(o)
      BY <2>7 DEF Record, RecordFails
  <2> QED
      BY <1>3, <2>1, <2>2, <2>3, <2>4, <2>5, <2>6, <2>7 DEF Open
<1>4. CASE UNCHANGED vars
    BY <1>4 DEF vars
<1> QED
    BY <1>1, <1>2, <1>3, <1>4 DEF Next

\* ... and for ever.
LEMMA Invariance == Spec => []IInv
<1>1. IInv /\ [Next]_vars => IInv'
    BY TypeStep, PinStep, RecordStep, LapseStep DEF IInv
<1> QED
    BY <1>1, InvInit, PTL DEF Spec

----------------------------------------------------------------------------
(* The properties.                                                         *)

\* Every variable stays in its domain, and a call under way has a principal.
THEOREM PolicyTypeCorrect == Spec => []TypeOK
<1>1. IInv => TypeOK
    BY DEF IInv
<1> QED
    BY <1>1, Invariance, PTL

\* A terminal runs only on a key the cloud held since the call read the pin, and with a
\* record of its user's: whoever else pins, rotates or records meanwhile.
THEOREM AcceptedKeysStand == Spec => []AcceptedStands
<1>1. IInv => AcceptedStands
    BY DEF IInv, PinInv, RecordInv, AcceptedStands, AcceptedWasPinned, AcceptedIsRecorded,
           Fetched, Pinned
<1> QED
    BY <1>1, Invariance, PTL

\* The answer to a question asked in one session pins nothing in another.
THEOREM AnswersStay == Spec => []AnswersStayInSession
<1>1. IInv => AnswersStayInSession
    BY DEF IInv, LapseInv, AnswersStayInSession
<1> QED
    BY <1>1, Invariance, PTL

\* Nothing is recorded on disk before the cloud holds it, nor for anybody but the principal
\* whose call it was.
THEOREM RecordsFollow == Spec => RecordsFollowCloud
<1> DEFINE Follows ==
        \A p \in Principals :
            local_pin'[p] # local_pin[p] =>
                \E o \in Opens : who[o] = p /\ pc[o] = "record" /\ local_pin'[p] \in held[o]
<1>1. IInv /\ [Next]_vars => [Follows]_vars
  <2> SUFFICES ASSUME IInv, Next, NEW p \in Principals, local_pin'[p] # local_pin[p]
               PROVE  \E o \in Opens :
                          who[o] = p /\ pc[o] = "record" /\ local_pin'[p] \in held[o]
      OBVIOUS
  <2>1. PICK o \in Opens : Record(o)
      BY DEF Next, Open, ChangeSession, Rotate, TakeSnapshot, FetchMetadata, Prepare, Connect,
             Evaluate, UserAnswers, Confirmed, WriteCloud, Written, Recorded, Again
  <2>2. local_pin' = [local_pin EXCEPT ![who[o]] = presented[o]]
      BY <2>1 DEF Record, Namespace
  <2>3. who[o] = p /\ local_pin'[p] = presented[o]
      BY <2>2 DEF IInv, TypeOK
  <2>4. pc[o] = "record" /\ presented[o] \in held[o]
      BY <2>1 DEF Record, IInv, PinInv, Pinned
  <2> QED
      BY <2>3, <2>4
<1> QED
    BY <1>1, Invariance, PTL DEF Spec, RecordsFollowCloud

----------------------------------------------------------------------------
(* The transport actor of SshTransport, on whose thread the policy is asked. *)

CONSTANTS Callers, Closers, MaxQueue, MaxBurst, MaxInbox, NoCaller

VARIABLES clock, parent, ready, actor, connected, channel, closes, disconnects, inbox,
          peer_gone, burst, waited, told, queue, current, reply, cancelled, closed, thread_pc

Actor == INSTANCE SshTransport WITH pc <- thread_pc, None <- NoCaller

\* What SshTransport assumes of its constants (TransportAssumption).
ActorSized ==
    /\ Callers \cap Closers = {}
    /\ NoCaller \notin Callers
    /\ {MaxQueue, MaxBurst, MaxInbox} \subseteq Nat \ {0}

\* A command that waits has seen no more peer messages than the scheduler counted.
WaitInv == waited <= burst

\* What exists goes with the stage, and nothing is given back before the end.
SetupInv ==
    /\ actor # "ended" =>
          /\ connected <=> actor \notin {"connect", "dialog", "key_accepted", "key_refused"}
          /\ channel <=> actor \in {"pty", "shell", "tell"} \cup Actor!Serving
          /\ ~told
    /\ actor \notin {"last", "ended"} => disconnects = 0 /\ closes = 0
    /\ Actor!SetupLeavesNothing

ActorInv == Actor!TypeOK /\ WaitInv /\ SetupInv

\* The commands that an ending actor drops.
LEMMA DropType ==
    ASSUME ActorSized, Actor!TypeOK, Actor!DropCommands
    PROVE  /\ queue' \in Seq(Callers) /\ Len(queue') <= MaxQueue /\ current' = current
           /\ reply' \in [Callers -> {"none", "ok", "error", "dropped"}]
BY DEF ActorSized, Actor!TypeOK, Actor!DropCommands

\* Every step keeps every variable in its domain.
LEMMA ActorTypeStep ==
    ASSUME ActorSized
    PROVE  Actor!TypeOK /\ [Actor!Next]_Actor!vars => Actor!TypeOK'
<1> SUFFICES ASSUME Actor!TypeOK, [Actor!Next]_Actor!vars
             PROVE  Actor!TypeOK'
    OBVIOUS
<1> USE DEF ActorSized, Actor!TypeOK, Actor!Stages, Actor!Serving, Actor!setupVars,
        Actor!sshVars, Actor!peerVars, Actor!loopVars, Actor!cmdVars, Actor!endVars
<1>1. CASE Actor!Tick
    BY <1>1 DEF Actor!Tick
<1>2. CASE Actor!AwaitReady
  <2>1. parent' \in {"open", "joining"}
      BY <1>2 DEF Actor!AwaitReady
  <2>2. cancelled' \in BOOLEAN
      BY <1>2 DEF Actor!AwaitReady, Actor!CancelActor
  <2>3. UNCHANGED <<clock, ready, actor, Actor!sshVars, Actor!peerVars, Actor!loopVars,
                    Actor!cmdVars, closed, thread_pc>>
      BY <1>2 DEF Actor!AwaitReady
  <2> QED
      BY <2>1, <2>2, <2>3
<1>3. CASE Actor!JoinFailed
    BY <1>3 DEF Actor!JoinFailed
<1>4. CASE Actor!Connected
    BY <1>4 DEF Actor!Connected, Actor!Aborted
<1>5. CASE Actor!StageDone
    BY <1>5 DEF Actor!StageDone, Actor!Aborted, Actor!NextStage
<1>6. CASE Actor!StageFails
    BY <1>6 DEF Actor!StageFails, Actor!TellParent, Actor!End, Actor!CleanUp, Actor!DropCommands
<1>7. CASE Actor!TellReady
  <2>1. CASE actor' = "top" /\ ready' = "ok" /\ UNCHANGED <<closes, disconnects, Actor!cmdVars>>
      BY <2>1, <1>7 DEF Actor!TellReady
  <2>2. CASE Actor!DropCommands
      BY <2>2, DropType, <1>7 DEF Actor!TellReady, Actor!CleanUp, Actor!End
  <2> QED
      BY <2>1, <2>2, <1>7 DEF Actor!TellReady, Actor!End
<1>8. CASE Actor!Top
    BY <1>8 DEF Actor!Top
<1>9. CASE Actor!SelectCancel
    BY <1>9 DEF Actor!SelectCancel
<1>10. CASE Actor!SelectPeer
  <2>1. /\ burst' \in 0 .. MaxBurst /\ waited' \in Nat
        /\ inbox' \in 0 .. MaxInbox
      BY <1>10 DEF Actor!SelectPeer
  <2>2. told' \in BOOLEAN
      BY <1>10 DEF Actor!SelectPeer
  <2>3. CASE actor' = "top" /\ UNCHANGED Actor!cmdVars
      BY <2>1, <2>2, <2>3, <1>10 DEF Actor!SelectPeer
  <2>4. CASE Actor!End
      BY <2>1, <2>2, <2>4, DropType, <1>10 DEF Actor!SelectPeer, Actor!End
  <2> QED
      BY <2>3, <2>4, <1>10 DEF Actor!SelectPeer
<1>11. CASE Actor!SelectCmd
    BY <1>11 DEF Actor!SelectCmd, Actor!PreferCmdFirst, Actor!PeerReady, Actor!CmdReady
<1>12. CASE Actor!PerformCancelled
    BY <1>12 DEF Actor!PerformCancelled, Actor!Answer, Actor!CancelPreempts
<1>13. CASE Actor!Teardown
    BY <1>13 DEF Actor!Teardown
<1>14. CASE Actor!TellClosed
    BY <1>14 DEF Actor!TellClosed, Actor!End, Actor!DropCommands
<1>15. CASE Actor!AskUser
    BY <1>15 DEF Actor!AskUser
<1>16. CASE Actor!UserAnswers
    BY <1>16 DEF Actor!UserAnswers
<1>17. CASE Actor!Perform
    BY <1>17 DEF Actor!Perform, Actor!Answer
<1>18. CASE Actor!PeerSends
  <2>1. inbox' \in 0 .. MaxInbox
      BY <1>18 DEF Actor!PeerSends
  <2>2. peer_gone' \in BOOLEAN
      BY <1>18 DEF Actor!PeerSends
  <2> QED
      BY <2>1, <2>2, <1>18 DEF Actor!PeerSends
<1>19. ASSUME NEW c \in Callers, Actor!BeginCommand(c) \/ Actor!CallerStep(c)
      PROVE  Actor!TypeOK'
  <2>1. CASE Actor!BeginCommand(c)
      BY <2>1 DEF Actor!BeginCommand, Actor!Goto
  <2>2. CASE Actor!SendCommand(c)
    <3>1. thread_pc' \in [Callers \cup Closers ->
                              {"ready", "send", "await", "signal", "join", "done"}]
        BY <2>2 DEF Actor!SendCommand, Actor!Goto
    <3>2. CASE UNCHANGED Actor!cmdVars
        BY <3>1, <3>2, <2>2 DEF Actor!SendCommand
    <3>3. CASE /\ Actor!QueueAccepts /\ queue' = Append(queue, c) /\ UNCHANGED current
               /\ reply' = [reply EXCEPT ![c] = "none"]
      <4>1. queue' \in Seq(Callers) /\ Len(queue') = Len(queue) + 1 /\ Len(queue) \in Nat
          BY <3>3
      <4>2. Len(queue') <= MaxQueue
          BY <4>1, <3>3 DEF Actor!QueueAccepts
      <4> QED
          BY <3>1, <3>3, <4>1, <4>2, <2>2 DEF Actor!SendCommand
    <3> QED
        BY <3>2, <3>3, <2>2 DEF Actor!SendCommand
  <2>3. CASE Actor!AwaitReply(c)
      BY <2>3 DEF Actor!AwaitReply, Actor!Goto
  <2> QED
      BY <1>19, <2>1, <2>2, <2>3 DEF Actor!CallerStep
<1>20. ASSUME NEW k \in Closers, Actor!BeginClose(k) \/ Actor!CloserStep(k)
      PROVE  Actor!TypeOK'
  <2>1. CASE Actor!BeginClose(k)
      BY <2>1 DEF Actor!BeginClose, Actor!Goto
  <2>2. CASE Actor!SignalCancel(k)
      BY <2>2 DEF Actor!SignalCancel, Actor!Goto
  <2>3. CASE Actor!Join(k)
      BY <2>3 DEF Actor!Join, Actor!Goto
  <2> QED
      BY <1>20, <2>1, <2>2, <2>3 DEF Actor!CloserStep
<1>21. CASE UNCHANGED Actor!vars
    BY <1>21 DEF Actor!vars
<1> QED
    BY <1>1, <1>2, <1>3, <1>4, <1>5, <1>6, <1>7, <1>8, <1>9, <1>10, <1>11, <1>12, <1>13, <1>14,
       <1>15, <1>16, <1>17, <1>18, <1>19, <1>20, <1>21 DEF Actor!Next, Actor!OpenStep,
       Actor!ActorStep

\* Every peer message that a command waits for is counted.
LEMMA ActorWaitStep ==
    ASSUME ActorSized
    PROVE  Actor!TypeOK /\ WaitInv /\ [Actor!Next]_Actor!vars => WaitInv'
<1> SUFFICES ASSUME Actor!TypeOK, WaitInv, [Actor!Next]_Actor!vars
             PROVE  WaitInv'
    OBVIOUS
<1> USE DEF ActorSized, Actor!TypeOK, WaitInv, Actor!setupVars, Actor!sshVars, Actor!peerVars,
        Actor!loopVars, Actor!cmdVars, Actor!endVars
<1>1. CASE Actor!Tick
    BY <1>1 DEF Actor!Tick
<1>2. CASE Actor!AwaitReady
    BY <1>2 DEF Actor!AwaitReady
<1>3. CASE Actor!JoinFailed
    BY <1>3 DEF Actor!JoinFailed
<1>4. CASE Actor!Connected
    BY <1>4 DEF Actor!Connected
<1>5. CASE Actor!StageDone
    BY <1>5 DEF Actor!StageDone
<1>6. CASE Actor!StageFails
    BY <1>6 DEF Actor!StageFails
<1>7. CASE Actor!TellReady
    BY <1>7 DEF Actor!TellReady
<1>8. CASE Actor!Top
    BY <1>8 DEF Actor!Top
<1>9. CASE Actor!SelectCancel
    BY <1>9 DEF Actor!SelectCancel
<1>10. CASE Actor!SelectPeer
    BY <1>10 DEF Actor!SelectPeer, Actor!PreferCmdFirst, Actor!PeerReady, Actor!CmdReady
<1>11. CASE Actor!SelectCmd
    BY <1>11 DEF Actor!SelectCmd, Actor!PreferCmdFirst, Actor!PeerReady, Actor!CmdReady
<1>12. CASE Actor!PerformCancelled
    BY <1>12 DEF Actor!PerformCancelled
<1>13. CASE Actor!Teardown
    BY <1>13 DEF Actor!Teardown
<1>14. CASE Actor!TellClosed
    BY <1>14 DEF Actor!TellClosed
<1>15. CASE Actor!AskUser
    BY <1>15 DEF Actor!AskUser
<1>16. CASE Actor!UserAnswers
    BY <1>16 DEF Actor!UserAnswers
<1>17. CASE Actor!Perform
    BY <1>17 DEF Actor!Perform
<1>18. CASE Actor!PeerSends
    BY <1>18 DEF Actor!PeerSends
<1>19. ASSUME NEW c \in Callers, Actor!BeginCommand(c) \/ Actor!CallerStep(c)
      PROVE  WaitInv'
  <2>1. CASE Actor!BeginCommand(c)
      BY <2>1 DEF Actor!BeginCommand
  <2>2. CASE Actor!SendCommand(c)
      BY <2>2 DEF Actor!SendCommand
  <2>3. CASE Actor!AwaitReply(c)
      BY <2>3 DEF Actor!AwaitReply
  <2> QED
      BY <1>19, <2>1, <2>2, <2>3 DEF Actor!CallerStep
<1>20. ASSUME NEW k \in Closers, Actor!BeginClose(k) \/ Actor!CloserStep(k)
      PROVE  WaitInv'
  <2>1. CASE Actor!BeginClose(k)
      BY <2>1 DEF Actor!BeginClose
  <2>2. CASE Actor!SignalCancel(k)
      BY <2>2 DEF Actor!SignalCancel
  <2>3. CASE Actor!Join(k)
      BY <2>3 DEF Actor!Join
  <2> QED
      BY <1>20, <2>1, <2>2, <2>3 DEF Actor!CloserStep
<1>21. CASE UNCHANGED Actor!vars
    BY <1>21 DEF Actor!vars
<1> QED
    BY <1>1, <1>2, <1>3, <1>4, <1>5, <1>6, <1>7, <1>8, <1>9, <1>10, <1>11, <1>12, <1>13, <1>14,
       <1>15, <1>16, <1>17, <1>18, <1>19, <1>20, <1>21 DEF Actor!Next, Actor!OpenStep,
       Actor!ActorStep

\* Every stage that fails gives back what the stages before it made.
LEMMA ActorSetupStep ==
    ASSUME ActorSized
    PROVE  Actor!TypeOK /\ SetupInv /\ [Actor!Next]_Actor!vars => SetupInv'
<1> SUFFICES ASSUME Actor!TypeOK, SetupInv, [Actor!Next]_Actor!vars
             PROVE  SetupInv'
    OBVIOUS
<1> USE DEF ActorSized, SetupInv, Actor!SetupLeavesNothing, Actor!Stages, Actor!Serving,
        Actor!setupVars, Actor!sshVars, Actor!peerVars, Actor!loopVars, Actor!cmdVars,
        Actor!endVars
<1>1. CASE Actor!Tick
    BY <1>1 DEF Actor!Tick
<1>2. CASE Actor!AwaitReady
    BY <1>2 DEF Actor!AwaitReady
<1>3. CASE Actor!JoinFailed
    BY <1>3 DEF Actor!JoinFailed
<1>4. CASE Actor!Connected
    BY <1>4 DEF Actor!Connected, Actor!Aborted
<1>5. CASE Actor!StageDone
  <2>1. \/ actor = "hash" /\ actor' = "auth"
        \/ actor = "auth" /\ actor' = "channel"
        \/ actor = "channel" /\ actor' = "pty"
        \/ actor = "pty" /\ actor' = "shell"
        \/ actor = "shell" /\ actor' = "tell"
      BY <1>5 DEF Actor!StageDone, Actor!NextStage
  <2> QED
      BY <2>1, <1>5 DEF Actor!StageDone
<1>6. CASE Actor!StageFails
    BY <1>6 DEF Actor!StageFails, Actor!End, Actor!CleanUp
<1>7. CASE Actor!TellReady
    BY <1>7 DEF Actor!TellReady, Actor!End, Actor!CleanUp
<1>8. CASE Actor!Top
    BY <1>8 DEF Actor!Top
<1>9. CASE Actor!SelectCancel
    BY <1>9 DEF Actor!SelectCancel
<1>10. CASE Actor!SelectPeer
    BY <1>10 DEF Actor!SelectPeer, Actor!End, Actor!PeerReady, Actor!CmdReady
<1>11. CASE Actor!SelectCmd
    BY <1>11 DEF Actor!SelectCmd, Actor!PeerReady, Actor!CmdReady
<1>12. CASE Actor!PerformCancelled
    BY <1>12 DEF Actor!PerformCancelled, Actor!Answer, Actor!CancelPreempts
<1>13. CASE Actor!Teardown
    BY <1>13 DEF Actor!Teardown
<1>14. CASE Actor!TellClosed
    BY <1>14 DEF Actor!TellClosed, Actor!End
<1>15. CASE Actor!AskUser
    BY <1>15 DEF Actor!AskUser
<1>16. CASE Actor!UserAnswers
    BY <1>16 DEF Actor!UserAnswers
<1>17. CASE Actor!Perform
    BY <1>17 DEF Actor!Perform, Actor!Answer
<1>18. CASE Actor!PeerSends
    BY <1>18 DEF Actor!PeerSends
<1>19. ASSUME NEW c \in Callers, Actor!BeginCommand(c) \/ Actor!CallerStep(c)
      PROVE  SetupInv'
  <2>1. CASE Actor!BeginCommand(c)
      BY <2>1 DEF Actor!BeginCommand
  <2>2. CASE Actor!SendCommand(c)
      BY <2>2 DEF Actor!SendCommand
  <2>3. CASE Actor!AwaitReply(c)
      BY <2>3 DEF Actor!AwaitReply
  <2> QED
      BY <1>19, <2>1, <2>2, <2>3 DEF Actor!CallerStep
<1>20. ASSUME NEW k \in Closers, Actor!BeginClose(k) \/ Actor!CloserStep(k)
      PROVE  SetupInv'
  <2>1. CASE Actor!BeginClose(k)
      BY <2>1 DEF Actor!BeginClose
  <2>2. CASE Actor!SignalCancel(k)
      BY <2>2 DEF Actor!SignalCancel
  <2>3. CASE Actor!Join(k)
      BY <2>3 DEF Actor!Join
  <2> QED
      BY <1>20, <2>1, <2>2, <2>3 DEF Actor!CloserStep
<1>21. CASE UNCHANGED Actor!vars
    BY <1>21 DEF Actor!vars
<1> QED
    BY <1>1, <1>2, <1>3, <1>4, <1>5, <1>6, <1>7, <1>8, <1>9, <1>10, <1>11, <1>12, <1>13, <1>14,
       <1>15, <1>16, <1>17, <1>18, <1>19, <1>20, <1>21 DEF Actor!Next, Actor!OpenStep,
       Actor!ActorStep

\* The invariant holds at the start, and always.
LEMMA ActorInit ==
    ASSUME ActorSized
    PROVE  Actor!Init => ActorInv
<1> SUFFICES ASSUME Actor!Init
             PROVE  ActorInv
    OBVIOUS
<1>1. queue \in Seq(Callers) /\ Len(queue) <= MaxQueue
    BY DEF ActorSized, Actor!Init
<1>2. Actor!TypeOK
  <2>1. burst \in 0 .. MaxBurst /\ inbox \in 0 .. MaxInbox
      BY DEF ActorSized, Actor!Init
  <2>2. reply \in [Callers -> {"none", "ok", "error", "dropped"}]
      BY DEF Actor!Init
  <2>3. thread_pc \in [Callers \cup Closers ->
                           {"ready", "send", "await", "signal", "join", "done"}]
      BY DEF Actor!Init
  <2>4. clock \in 0 .. 2 /\ closes \in Nat /\ disconnects \in Nat /\ waited \in Nat
      BY DEF Actor!Init
  <2> QED
      BY <1>1, <2>1, <2>2, <2>3, <2>4 DEF Actor!Init, Actor!TypeOK, Actor!Stages
<1>3. WaitInv /\ SetupInv
    BY DEF Actor!Init, WaitInv, SetupInv, Actor!SetupLeavesNothing, Actor!Serving
<1> QED
    BY <1>2, <1>3 DEF ActorInv

LEMMA ActorInvHolds ==
    ASSUME ActorSized
    PROVE  Actor!Spec => []ActorInv
<1>1. ActorInv /\ [Actor!Next]_Actor!vars => ActorInv'
    BY ActorTypeStep, ActorWaitStep, ActorSetupStep DEF ActorInv
<1> QED
    BY <1>1, ActorInit, PTL DEF Actor!Spec

\* Every variable of the actor and of the threads around it stays in its domain, the command
\* channel within its capacity.
THEOREM TransportTypeCorrect ==
    ASSUME ActorSized
    PROVE  Actor!Spec => []Actor!TypeOK
<1>1. ActorInv => Actor!TypeOK
    BY DEF ActorInv
<1> QED
    BY <1>1, ActorInvHolds, PTL

\* Whatever the peer sends, the command at the head of the channel waits for at most
\* MaxBurst messages (FairIoScheduler).
THEOREM CommandWaits ==
    ASSUME ActorSized
    PROVE  Actor!Spec => []Actor!CommandWaitsBounded
<1>1. ActorInv => Actor!CommandWaitsBounded
    BY DEF ActorSized, ActorInv, Actor!TypeOK, WaitInv, Actor!CommandWaitsBounded
<1> QED
    BY <1>1, ActorInvHolds, PTL

\* At whatever stage a setup fails, is cancelled or loses its parent, it gives back the handle
\* and the channel that exist by then, once, and nothing else.
THEOREM SetupIsClean ==
    ASSUME ActorSized
    PROVE  Actor!Spec => []Actor!SetupLeavesNothing
<1>1. ActorInv => Actor!SetupLeavesNothing
    BY DEF ActorInv, SetupInv
<1> QED
    BY <1>1, ActorInvHolds, PTL
============================================================================
