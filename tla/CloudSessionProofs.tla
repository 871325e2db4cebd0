------------------------- MODULE CloudSessionProofs -------------------------
(***************************************************************************)
(* Theorems about CloudSession, for any number of requests, logins and     *)
(* teardowns.                                                              *)
(***************************************************************************)
EXTENDS CloudSession, TLAPS

\* A task that waits, or is about to, though its epoch is cancelled, has a change to see
\* or somebody about to notify it.
WakeInv ==
    \A r \in Requests :
        stage[r] \in {"await", "parked"} /\ ~changed[r] /\ Cancelled(r) =>
            \E q \in Requests : stage[q] = "notify"

\* An answer came in no earlier than its request was sent; once its binding is checked,
\* it came in under the same epoch.
AnswerInv ==
    \A r \in Requests :
        /\ stage[r] = "bound" => sent[r] <= arrived[r]
        /\ stage[r] = "recheck" => arrived[r] = sent[r]

\* Only the latest attempt is pending or being exchanged, and it was not given up.
AttemptInv ==
    /\ pending \in {None, begun}
    /\ pending # None => pending \notin dead
    /\ dead \subseteq 1 .. begun
    /\ main = "exchange" => taken = begun /\ taken \notin dead /\ pending = None

IInv == TypeOK /\ WakeInv /\ CancelledSessionGoes /\ AnswerInv /\ AttemptInv
----------------------------------------------------------------------------
(* What the two kinds of steps leave alone.                                *)

\* A task's step other than the cutoff's last one.
Quiet(r) ==
    \/ Start(r) \/ Backend(r) \/ Send(r) \/ Subscribe(r) \/ Look(r) \/ Await(r) \/ Wake(r)
    \/ CheckBinding(r) \/ Recheck(r) \/ Denied(r) \/ Raise(r) \/ Notify(r)

\* The main thread never touches the proxy's state.
LEMMA MainLeaves ==
    ASSUME Main
    PROVE  UNCHANGED <<watermark, changed, requestVars>>
<1>1. CASE BeginLogin
    BY <1>1 DEF BeginLogin, StorePending
<1>2. CASE Relogin
    BY <1>2 DEF Relogin, StorePending
<1>3. CASE OpenBrowser
    BY <1>3 DEF OpenBrowser
<1>4. CASE Exchange
    BY <1>4 DEF Exchange
<1>5. CASE BeginTeardown
    BY <1>5 DEF BeginTeardown
<1>6. CASE EndTeardown
    BY <1>6 DEF EndTeardown
<1>7. CASE \E attempt \in Attempts : CallbackCode(attempt) \/ CallbackError(attempt)
    BY <1>7 DEF CallbackCode, CallbackError
<1> QED
    BY <1>1, <1>2, <1>3, <1>4, <1>5, <1>6, <1>7 DEF Main

\* Before the cutoff's last step a task never touches the session.
LEMMA QuietLeaves ==
    ASSUME NEW r \in Requests, Quiet(r)
    PROVE  UNCHANGED <<authVars, mainVars>>
<1>1. CASE Start(r) \/ Send(r) \/ Subscribe(r) \/ Look(r) \/ Await(r) \/ Wake(r)
    BY <1>1 DEF Start, Send, Subscribe, Look, Await, Wake
<1>2. CASE Backend(r)
    BY <1>2 DEF Backend, Answer, TransportFails
<1>3. CASE CheckBinding(r) \/ Recheck(r) \/ Denied(r) \/ Raise(r) \/ Notify(r)
    BY <1>3 DEF CheckBinding, Recheck, Denied, Raise, Notify
<1> QED
    BY <1>1, <1>2, <1>3 DEF Quiet

\* Every step is one of the main thread, a quiet one, or the end of a cutoff.
LEMMA StepKinds ==
    ASSUME Next
    PROVE  Main \/ \E r \in Requests : Quiet(r) \/ Clear(r)
BY DEF Next, Proceed, Quiet
----------------------------------------------------------------------------
(* The invariant.                                                          *)

\* The initial state satisfies the invariant.
LEMMA InitInv == Init => IInv
<1> SUFFICES ASSUME Init PROVE IInv
    OBVIOUS
<1>1. TypeOK
    BY CloudAssumption DEF Init, TypeOK, Stages, InFlight, Attempts, None
<1>2. WakeInv /\ AnswerInv
    BY DEF Init, WakeInv, AnswerInv
<1>3. CancelledSessionGoes /\ AttemptInv
    BY DEF Init, CancelledSessionGoes, AttemptInv
<1> QED
    BY <1>1, <1>2, <1>3 DEF IInv

\* The store and the main thread; the rest of TypeOK follows the epoch.
StoreOK ==
    /\ pending \in Attempts \cup {None} /\ used \subseteq Attempts
    /\ session \in Attempts \cup {None} /\ epoch \in Nat
    /\ begun \in 0 .. MaxAttempts /\ dead \subseteq Attempts
    /\ main \in {"idle", "browser", "exchange", "logout", "unauthorized", "relogin"}
    /\ taken \in Attempts \cup {None}

\* What the epoch bounds grows with it.
LEMMA LaterEpoch ==
    ASSUME TypeOK, StoreOK', epoch <= epoch',
           UNCHANGED <<watermark, changed, status, sent, target, arrived, delivered>>,
           stage' \in [Requests -> Stages]
    PROVE  TypeOK'
<1>1. watermark' \in 0 .. epoch'
    BY DEF TypeOK, StoreOK
<1>2. \A r \in Requests : sent'[r] <= epoch' /\ target'[r] <= epoch' /\ arrived'[r] <= epoch'
    BY DEF TypeOK, StoreOK
<1> QED
    BY <1>1, <1>2 DEF TypeOK, StoreOK

\* The main thread keeps the types.
LEMMA MainTypes ==
    ASSUME TypeOK, Main
    PROVE  TypeOK'
<1> USE CloudAssumption DEF Attempts, None, authVars, mainVars
<1>0. UNCHANGED <<watermark, changed, stage, sent, status, target, arrived, delivered>>
    BY MainLeaves DEF requestVars
<1>1. StoreOK' /\ epoch <= epoch'
    <2>0. StoreOK
        BY DEF TypeOK, StoreOK
    <2>1. CASE StorePending
        BY <2>0, <2>1 DEF StorePending, GiveUp, StoreOK
    <2>2. CASE (BeginLogin \/ Relogin) /\ ~StorePending
        <3>1. main' = "idle" /\ UNCHANGED <<taken, begun, authVars>>
            BY <2>2 DEF BeginLogin, Relogin
        <3> QED
            BY <2>0, <3>1 DEF StoreOK
    <2>3. CASE OpenBrowser
        <3>1. main' = "idle" /\ UNCHANGED <<taken, begun, used, session, epoch>>
            BY <2>3 DEF OpenBrowser
        <3>2. \/ pending' = pending /\ dead' = dead
              \/ pending' = None /\ pending = None /\ dead' = dead
              \/ pending' = None /\ pending # None /\ dead' = dead \cup {pending}
            BY <2>3 DEF OpenBrowser, GiveUp
        <3>3. pending' \in Attempts \cup {None} /\ dead' \subseteq Attempts
            BY <2>0, <3>2 DEF StoreOK
        <3> QED
            BY <2>0, <3>1, <3>3 DEF StoreOK
    <2>4. CASE Exchange
        BY <2>0, <2>4 DEF Exchange, StoreOK
    <2>5. CASE BeginTeardown
        BY <2>0, <2>5 DEF BeginTeardown, StoreOK
    <2>6. CASE EndTeardown
        BY <2>0, <2>6 DEF EndTeardown, ClearNative, GiveUp, StoreOK
    <2>7. ASSUME NEW attempt \in Attempts, CallbackCode(attempt)
          PROVE  StoreOK' /\ epoch <= epoch'
        BY <2>0, <2>7 DEF CallbackCode, StoreOK
    <2>8. ASSUME NEW attempt \in Attempts, CallbackError(attempt)
          PROVE  StoreOK' /\ epoch <= epoch'
        BY <2>0, <2>8 DEF CallbackError, GiveUp, StoreOK
    <2> QED
        BY <2>1, <2>2, <2>3, <2>4, <2>5, <2>6, <2>7, <2>8 DEF Main
<1> QED
    BY <1>0, <1>1, LaterEpoch DEF TypeOK

\* A task keeps the types.
LEMMA TaskTypes ==
    ASSUME TypeOK, NEW r \in Requests, Quiet(r) \/ Clear(r)
    PROVE  TypeOK'
<1> USE DEF TypeOK, Stages, InFlight, Goto
<1>1. CASE Start(r)
    BY <1>1 DEF Start, authVars, mainVars
<1>2. CASE Answer(r)
    <2>1. UNCHANGED <<authVars, mainVars, watermark, changed, sent, delivered>>
        BY <1>2 DEF Answer
    <2>2. arrived' = [arrived EXCEPT ![r] = epoch]
        BY <1>2 DEF Answer
    <2>3. PICK s \in {"other", "401", "403"} :
              /\ status' = [status EXCEPT ![r] = s]
              /\ IF s = "401"
                 THEN target' = [target EXCEPT ![r] = sent[r]] /\ Goto(r, "raise")
                 ELSE Goto(r, "bound") /\ UNCHANGED target
        BY <1>2 DEF Answer
    <2> QED
        BY <2>1, <2>2, <2>3 DEF authVars, mainVars
<1>3. CASE TransportFails(r) \/ Send(r) \/ Look(r) \/ CheckBinding(r)
    <2>1. CASE TransportFails(r)
        BY <2>1 DEF TransportFails, authVars, mainVars
    <2>2. CASE Send(r)
        BY <2>2 DEF Send, authVars, mainVars
    <2>3. CASE Look(r)
        BY <2>3 DEF Look, authVars, mainVars
    <2>4. CASE CheckBinding(r)
        BY <2>4 DEF CheckBinding, authVars, mainVars
    <2> QED
        BY <1>3, <2>1, <2>2, <2>3, <2>4
<1>4. CASE Subscribe(r) \/ Await(r) \/ Wake(r)
    <2>1. CASE Subscribe(r)
        BY <2>1 DEF Subscribe, authVars, mainVars
    <2>2. CASE Await(r)
        BY <2>2 DEF Await, authVars, mainVars
    <2>3. CASE Wake(r)
        BY <2>3 DEF Wake, authVars, mainVars
    <2> QED
        BY <1>4, <2>1, <2>2, <2>3
<1>5. CASE Recheck(r)
    BY <1>5 DEF Recheck, authVars, mainVars
<1>6. CASE Denied(r)
    BY <1>6 DEF Denied, authVars, mainVars
<1>7. CASE Raise(r)
    BY <1>7 DEF Raise, authVars, mainVars
<1>8. CASE Notify(r)
    BY <1>8 DEF Notify, authVars, mainVars
<1>9. CASE Clear(r)
    <2>1. StoreOK' /\ epoch <= epoch'
        BY <1>9 DEF Clear, ClearNative, GiveUp, StoreOK, mainVars, None
    <2>2. stage' \in [Requests -> Stages]
        BY <1>9 DEF Clear
    <2> QED
        BY <1>9, <2>1, <2>2, LaterEpoch DEF Clear
<1> QED
    BY <1>1, <1>2, <1>3, <1>4, <1>5, <1>6, <1>7, <1>8, <1>9 DEF Quiet, Backend

\* Every step keeps the types.
LEMMA TypeStep ==
    ASSUME TypeOK, [Next]_vars
    PROVE  TypeOK'
<1>1. CASE UNCHANGED vars
    BY <1>1 DEF vars, authVars, mainVars, requestVars, TypeOK
<1>2. CASE Next
    BY <1>2, StepKinds, MainTypes, TaskTypes
<1> QED
    BY <1>1, <1>2
----------------------------------------------------------------------------
(* The session.                                                            *)

\* The end of a teardown or of a cutoff gives up what is pending and nothing else.
LEMMA ClearKeepsAttempts ==
    ASSUME TypeOK, AttemptInv, ClearNative, UNCHANGED <<taken, begun>>,
           main' = main \/ main' # "exchange"
    PROVE  AttemptInv'
BY DEF ClearNative, GiveUp, AttemptInv, TypeOK, Attempts, None

\* A fresh state replaces the pending one.
LEMMA StoreKeepsAttempts ==
    ASSUME TypeOK, AttemptInv, StorePending
    PROVE  AttemptInv'
BY DEF StorePending, GiveUp, AttemptInv, TypeOK, Attempts, None

\* Every step keeps AttemptInv.
LEMMA AttemptStep ==
    ASSUME TypeOK, AttemptInv, [Next]_vars
    PROVE  AttemptInv'
<1> USE DEF AttemptInv, None
<1>1. CASE UNCHANGED <<authVars, mainVars>>
    BY <1>1 DEF authVars, mainVars
<1>2. CASE BeginLogin \/ Relogin
    <2>1. CASE StorePending
        BY <2>1, StoreKeepsAttempts
    <2>2. CASE ~StorePending
        BY <1>2, <2>2 DEF BeginLogin, Relogin, authVars
    <2> QED
        BY <2>1, <2>2
<1>3. CASE OpenBrowser
    <2>1. main' = "idle" /\ UNCHANGED begun
        BY <1>3 DEF OpenBrowser
    <2>2. \/ pending' = pending /\ dead' = dead
          \/ pending' = None /\ pending = None /\ dead' = dead
          \/ pending' = None /\ pending # None /\ dead' = dead \cup {pending}
        BY <1>3 DEF OpenBrowser, GiveUp, authVars
    <2>3. pending # None => pending \in 1 .. begun
        BY DEF TypeOK
    <2>4. pending' \in {None, begun} /\ dead' \subseteq 1 .. begun
        BY <2>2, <2>3
    <2>5. pending' # None => pending' \notin dead'
        BY <2>2
    <2> QED
        BY <2>1, <2>4, <2>5
<1>4. CASE Exchange
    BY <1>4 DEF Exchange
<1>5. CASE BeginTeardown
    BY <1>5 DEF BeginTeardown, authVars
<1>6. CASE EndTeardown
    BY <1>6, ClearKeepsAttempts DEF EndTeardown
<1>7. ASSUME NEW attempt \in Attempts, CallbackCode(attempt)
      PROVE  AttemptInv'
    BY <1>7 DEF CallbackCode, Accepts, Attempts
<1>8. ASSUME NEW attempt \in Attempts, CallbackError(attempt)
      PROVE  AttemptInv'
    BY <1>8 DEF CallbackError, Accepts, Attempts, GiveUp, TypeOK, mainVars
<1>9. ASSUME NEW r \in Requests, Clear(r)
      PROVE  AttemptInv'
    BY <1>9, ClearKeepsAttempts DEF Clear, mainVars
<1>10. CASE UNCHANGED vars
    BY <1>10, <1>1 DEF vars
<1>11. CASE Main
    BY <1>11, <1>2, <1>3, <1>4, <1>5, <1>6, <1>7, <1>8 DEF Main
<1> QED
    BY <1>1, <1>9, <1>10, <1>11, StepKinds, QuietLeaves

\* A cancelled session has somebody to clear it, whatever the step.
LEMMA GoesStep ==
    ASSUME TypeOK, CancelledSessionGoes, [Next]_vars
    PROVE  CancelledSessionGoes'
<1> USE DEF CancelledSessionGoes, None
<1>1. CASE UNCHANGED vars
    BY <1>1 DEF vars, authVars, mainVars, requestVars
<1>2. CASE Main
    <2>0. UNCHANGED <<watermark, stage>>
        BY <1>2, MainLeaves DEF requestVars
    <2>1. \/ UNCHANGED <<session, epoch>>
          \/ session' = None
          \/ epoch' = epoch + 1
        BY <1>2 DEF Main, BeginLogin, OpenBrowser, Exchange, BeginTeardown, EndTeardown,
                    Relogin, StorePending, CallbackCode, CallbackError, ClearNative, authVars
    <2> QED
        BY <2>0, <2>1 DEF TypeOK
<1>3. ASSUME NEW r \in Requests, Quiet(r)
      PROVE  CancelledSessionGoes'
    <2>0. UNCHANGED <<session, epoch>>
        BY <1>3, QuietLeaves DEF authVars
    <2>1. CASE Raise(r) \/ Notify(r)
        BY <2>1 DEF Raise, Notify, Goto, TypeOK
    <2>2. CASE ~(Raise(r) \/ Notify(r))
        <3>1. UNCHANGED watermark
            BY <1>3, <2>2 DEF Quiet, Start, Backend, Answer, TransportFails, Send, Subscribe,
                Look, Await, Wake, CheckBinding, Recheck, Denied
        <3>2. stage[r] \notin {"notify", "clear"}
            BY <1>3, <2>2 DEF Quiet, Start, Backend, Answer, TransportFails, Send, Subscribe,
                Look, Await, Wake, CheckBinding, Recheck, Denied, InFlight
        <3>3. \A q \in Requests \ {r} : stage'[q] = stage[q]
            BY <1>3, <2>2 DEF Quiet, Start, Backend, Answer, TransportFails, Send, Subscribe,
                Look, Await, Wake, CheckBinding, Recheck, Denied, Goto, TypeOK
        <3> QED
            BY <2>0, <3>1, <3>2, <3>3
    <2> QED
        BY <2>1, <2>2
<1>4. ASSUME NEW r \in Requests, Clear(r)
      PROVE  CancelledSessionGoes'
    BY <1>4 DEF Clear, ClearNative
<1> QED
    BY <1>1, <1>2, <1>3, <1>4, StepKinds
----------------------------------------------------------------------------
(* The requests.                                                           *)

\* Nobody goes to sleep on a cancelled epoch with no notification to come.
LEMMA WakeStep ==
    ASSUME TypeOK, WakeInv, [Next]_vars
    PROVE  WakeInv'
<1> USE DEF WakeInv, Cancelled
<1>1. CASE UNCHANGED <<watermark, changed, requestVars>>
    BY <1>1 DEF requestVars
<1>2. ASSUME NEW r \in Requests, Quiet(r) \/ Clear(r)
      PROVE  WakeInv'
    <2>1. CASE Notify(r)
        BY <2>1 DEF Notify
    <2>2. CASE Raise(r)
        BY <2>2 DEF Raise, Goto, TypeOK
    <2>3. CASE Await(r)
        BY <2>3 DEF Await, Goto, TypeOK
    <2>4. CASE Subscribe(r) \/ Wake(r) \/ Look(r)
        BY <2>4 DEF Subscribe, Wake, Look, Goto, TypeOK
    <2>5. CASE Start(r)
        BY <2>5 DEF Start, Goto, TypeOK
    <2>6. CASE Send(r) \/ TransportFails(r) \/ CheckBinding(r) \/ Denied(r) \/ Clear(r)
        BY <2>6 DEF Send, TransportFails, CheckBinding, Denied, Clear, Goto, TypeOK, InFlight
    <2>7. CASE Recheck(r)
        BY <2>7 DEF Recheck, Goto, TypeOK
    <2>8. CASE Answer(r)
        BY <2>8 DEF Answer, Goto, TypeOK, InFlight
    <2> QED
        BY <1>2, <2>1, <2>2, <2>3, <2>4, <2>5, <2>6, <2>7, <2>8 DEF Quiet, Backend
<1>3. CASE UNCHANGED vars
    BY <1>1, <1>3 DEF vars
<1> QED
    BY <1>1, <1>2, <1>3, StepKinds, MainLeaves

\* Every step keeps what is known of an answer under way.
LEMMA AnswerStep ==
    ASSUME TypeOK, AnswerInv, [Next]_vars
    PROVE  AnswerInv'
<1> USE DEF AnswerInv
<1>1. CASE UNCHANGED <<watermark, changed, requestVars>>
    BY <1>1 DEF requestVars
<1>2. ASSUME NEW r \in Requests, Quiet(r) \/ Clear(r)
      PROVE  AnswerInv'
    <2>1. CASE Answer(r)
        BY <2>1 DEF Answer, Goto, TypeOK
    <2>2. CASE CheckBinding(r)
        BY <2>2 DEF CheckBinding, BindingCurrent, Goto, TypeOK
    <2>3. CASE Start(r)
        BY <2>3 DEF Start, Goto, TypeOK
    <2>4. CASE Send(r) \/ TransportFails(r) \/ Denied(r) \/ Clear(r)
        BY <2>4 DEF Send, TransportFails, Denied, Clear, Goto, TypeOK
    <2>5. CASE Subscribe(r) \/ Look(r) \/ Await(r) \/ Wake(r)
        BY <2>5 DEF Subscribe, Look, Await, Wake, Goto, TypeOK
    <2>6. CASE Recheck(r)
        BY <2>6 DEF Recheck, Goto, TypeOK
    <2>7. CASE Raise(r) \/ Notify(r)
        BY <2>7 DEF Raise, Notify, Goto, TypeOK
    <2> QED
        BY <1>2, <2>1, <2>2, <2>3, <2>4, <2>5, <2>6, <2>7 DEF Quiet, Backend
<1>3. CASE UNCHANGED vars
    BY <1>1, <1>3 DEF vars
<1> QED
    BY <1>1, <1>2, <1>3, StepKinds, MainLeaves
----------------------------------------------------------------------------
(* The theorems.                                                           *)

\* The invariant holds of every reachable state.
LEMMA Invariance == Spec => []IInv
<1>1. IInv /\ [Next]_vars => IInv'
    BY TypeStep, WakeStep, GoesStep, AnswerStep, AttemptStep DEF IInv
<1> QED
    BY InitInv, <1>1, PTL DEF Spec

\* The store, the main thread and every task keep to their types, and no task holds an
\* epoch that is yet to come.
THEOREM CloudTypeCorrect == Spec => []TypeOK
<1>1. IInv => TypeOK
    BY DEF IInv
<1> QED
    BY Invariance, <1>1, PTL

\* cancelled() loses no wake-up: whoever sleeps on a cancelled epoch is about to be woken.
THEOREM NoWakeupLost == Spec => []NoCancelMissed
<1>1. IInv => NoCancelMissed
    BY DEF IInv, WakeInv, NoCancelMissed
<1> QED
    BY Invariance, <1>1, PTL

\* cancel_auth_epoch leaves no cancelled session behind: its task is about to clear it.
THEOREM CancelledSessionsGo == Spec => []CancelledSessionGoes
<1>1. IInv => CancelledSessionGoes
    BY DEF IInv
<1> QED
    BY Invariance, <1>1, PTL

\* execute_allowlisted hands out an answer only if it came in under the session it was
\* sent with and nobody has cancelled that session since.
THEOREM AnswersAreLive == Spec => OnlyLiveAnswers
<1>1. ASSUME IInv, [Next]_vars, NEW r \in Requests, delivered'[r], ~delivered[r]
      PROVE  arrived[r] = sent[r] /\ ~Cancelled(r)
    <2>1. PICK q \in Requests : Quiet(q) \/ Clear(q)
        BY <1>1, StepKinds, MainLeaves DEF vars, requestVars
    <2>2. Recheck(q)
        BY <1>1, <2>1 DEF Quiet, Backend, Start, Answer, TransportFails, Send, Subscribe, Look,
            Await, Wake, CheckBinding, Denied, Raise, Notify, Clear, IInv, TypeOK
    <2>3. q = r /\ stage[r] = "recheck" /\ ~Cancelled(r)
        BY <1>1, <2>2 DEF Recheck, IInv, TypeOK
    <2> QED
        BY <1>1, <2>3 DEF IInv, AnswerInv
<1>2. IInv /\ [Next]_vars =>
        [\A r \in Requests :
            delivered'[r] /\ ~delivered[r] => arrived[r] = sent[r] /\ ~Cancelled(r)]_vars
    BY <1>1
<1> QED
    BY Invariance, <1>2, PTL DEF Spec, OnlyLiveAnswers

\* perform_handle_deep_link installs a session only for the login that was begun last and
\* was not replaced, refused or cleared while it waited for its callback.
THEOREM SessionsFromLiveAttempts == Spec => SessionFromLiveAttempt
<1>1. ASSUME IInv, [Next]_vars, session' # session, session' # None
      PROVE  session' \notin dead /\ session' = begun
    <2>1. Main
        <3>1. \A r \in Requests : ~Quiet(r)
            BY <1>1, QuietLeaves DEF authVars
        <3>2. \A r \in Requests : ~Clear(r)
            BY <1>1 DEF Clear, ClearNative
        <3> QED
            BY <1>1, <3>1, <3>2, StepKinds DEF vars, authVars
    <2>2. Exchange
        BY <1>1, <2>1 DEF Main, BeginLogin, Relogin, StorePending, OpenBrowser, BeginTeardown,
            EndTeardown, ClearNative, CallbackCode, CallbackError, authVars
    <2> QED
        BY <1>1, <2>2 DEF Exchange, IInv, AttemptInv
<1>2. IInv /\ [Next]_vars =>
        [session' # session /\ session' # None =>
            session' \notin dead /\ session' = begun]_vars
    BY <1>1
<1> QED
    BY Invariance, <1>2, PTL DEF Spec, SessionFromLiveAttempt
============================================================================
