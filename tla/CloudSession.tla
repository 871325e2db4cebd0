---------------------------- MODULE CloudSession ----------------------------
(***************************************************************************)
(* The signed-in session (auth.rs) and the requests that use it            *)
(* (cloud_proxy/mod.rs).  The main thread runs logins, callbacks and       *)
(* teardowns one at a time; requests are tasks that run beside it, several *)
(* at once.  A request that is answered 401, or 403 for a terminal token,  *)
(* cancels what was sent under its epoch and takes the session down.       *)
(***************************************************************************)
EXTENDS Naturals

CONSTANTS Requests,    \* tasks of cloud_request and cloud_terminal_open
          MaxAttempts, \* bound on the logins that are begun
          MaxEpoch     \* bound on the epoch at which a teardown may begin

ASSUME CloudAssumption == MaxAttempts \in Nat /\ MaxEpoch \in Nat

\* A login attempt is its PKCE state; a session is known by the attempt it came from.
None == 0
Attempts == 1 .. MaxAttempts

VARIABLES
    pending,   \* AuthMemory.pending
    used,      \* AuthMemory.used_states
    session,   \* AuthMemory.session
    epoch,     \* AuthMemory.session_epoch
    begun,     \* number of attempts so far
    dead,      \* attempts that were given up while pending (history)
    main,      \* what the main thread does next
    taken,     \* the attempt whose code it exchanges
    watermark, \* InvalidationControl.cancelled_through
    stage,     \* what each request does next
    sent,      \* epoch of the snapshot the request was sent with
    status,    \* status of the answer
    target,    \* epoch the request is about to cancel
    changed,   \* cancel_tx changed since the request's receiver looked
    arrived,   \* epoch at which the answer arrived (history)
    delivered  \* the caller got the answer (history)

authVars    == <<pending, used, session, epoch, dead>>
mainVars    == <<main, taken, begun>>
requestVars == <<stage, sent, status, target, arrived, delivered>>
vars == <<authVars, mainVars, watermark, changed, requestVars>>

Init ==
    /\ pending = None /\ used = {} /\ session = None /\ epoch = 0
    /\ begun = 0 /\ dead = {} /\ main = "idle" /\ taken = None
    /\ watermark = 0
    /\ stage = [r \in Requests |-> "idle"]
    /\ sent = [r \in Requests |-> 0]
    /\ status = [r \in Requests |-> "none"]
    /\ target = [r \in Requests |-> 0]
    /\ changed = [r \in Requests |-> FALSE]
    /\ arrived = [r \in Requests |-> 0]
    /\ delivered = [r \in Requests |-> FALSE]

----------------------------------------------------------------------------
(* The store.                                                              *)

\* Whatever replaces or drops a pending attempt gives it up.
GiveUp == dead' = IF pending = None THEN dead ELSE dead \cup {pending}

MutantClearsSessionOnly ==
    /\ session' = None /\ epoch' = epoch + 1
    /\ GiveUp
    /\ UNCHANGED <<pending, used>>

\* clear_native and perform_logout.
ClearNative ==
    /\ pending' = None /\ session' = None /\ epoch' = epoch + 1
    /\ GiveUp
    /\ UNCHANGED used

----------------------------------------------------------------------------
(* The main thread.                                                        *)

\* perform_begin_logto draws a fresh state and stores it.
StorePending ==
    /\ begun < MaxAttempts
    /\ begun' = begun + 1
    /\ pending' = begun + 1
    /\ GiveUp
    /\ main' = "browser"
    /\ UNCHANGED <<used, session, epoch, taken, watermark, changed, requestVars>>

BeginLogin == main = "idle" /\ StorePending

\* The configuration is fetched and the browser opened, or pending is dropped.
OpenBrowser ==
    /\ main = "browser"
    /\ main' = "idle"
    /\ \/ UNCHANGED authVars
       \/ pending' = None /\ GiveUp /\ UNCHANGED <<used, session, epoch>>
    /\ UNCHANGED <<taken, begun, watermark, changed, requestVars>>

\* A callback that names another state than the pending one changes nothing.
Accepts(attempt) == attempt \notin used /\ pending = attempt

CallbackCode(attempt) ==
    /\ main = "idle"
    /\ Accepts(attempt)
    /\ used' = used \cup {attempt}
    /\ pending' = None
    /\ taken' = attempt
    /\ main' = "exchange"
    /\ UNCHANGED <<session, epoch, dead, begun, watermark, changed, requestVars>>

CallbackError(attempt) ==
    /\ main = "idle"
    /\ Accepts(attempt)
    /\ used' = used \cup {attempt}
    /\ pending' = None
    /\ GiveUp
    /\ UNCHANGED <<session, epoch, mainVars, watermark, changed, requestVars>>

\* The exchange fails, or its answer is installed over whatever session there is.
Exchange ==
    /\ main = "exchange"
    /\ main' = "idle"
    /\ \/ session' = taken /\ epoch' = epoch + 1
       \/ UNCHANGED <<session, epoch>>
    /\ UNCHANGED <<pending, used, dead, taken, begun, watermark, changed, requestVars>>

\* auth_logout and auth_on_unauthorized close the terminals and seal the vault first.
BeginTeardown ==
    /\ main = "idle"
    /\ epoch < MaxEpoch
    /\ \/ main' = "logout"
       \/ begun < MaxAttempts /\ main' = "unauthorized"
    /\ UNCHANGED <<taken, begun, authVars, watermark, changed, requestVars>>

EndTeardown ==
    /\ main \in {"logout", "unauthorized"}
    /\ ClearNative
    /\ main' = IF main = "logout" THEN "idle" ELSE "relogin"
    /\ UNCHANGED <<taken, begun, watermark, changed, requestVars>>

\* Without random bytes the login is not begun.
Relogin ==
    /\ main = "relogin"
    /\ \/ StorePending
       \/ /\ main' = "idle"
          /\ UNCHANGED <<taken, begun, authVars, watermark, changed, requestVars>>

----------------------------------------------------------------------------
(* A request: execute_allowlisted, and what call and fetch_ws_token add.   *)

Goto(r, place) == stage' = [stage EXCEPT ![r] = place]

\* is_cancelled
Cancelled(r) == watermark >= sent[r]

\* native_auth_snapshot; without a session the call fails at once.
Start(r) ==
    /\ stage[r] = "idle"
    /\ session # None
    /\ sent' = [sent EXCEPT ![r] = epoch]
    /\ delivered' = [delivered EXCEPT ![r] = FALSE]
    /\ Goto(r, "ready")
    /\ UNCHANGED <<status, target, arrived, authVars, mainVars, watermark, changed>>

\* Two checks with nothing but pure work between them are the later one.
Send(r) ==
    /\ stage[r] = "ready"
    /\ Goto(r, IF Cancelled(r) THEN "idle" ELSE "subscribe")
    /\ UNCHANGED <<sent, status, target, arrived, delivered, authVars, mainVars, watermark, changed>>

\* cancelled() subscribes before it looks for the first time.
Subscribe(r) ==
    /\ stage[r] = "subscribe"
    /\ changed' = [changed EXCEPT ![r] = FALSE]
    /\ Goto(r, "look")
    /\ UNCHANGED <<sent, status, target, arrived, delivered, authVars, mainVars, watermark>>

MutantLooksNoMore(r) ==
    /\ stage[r] = "look"
    /\ Goto(r, "await")
    /\ UNCHANGED <<sent, status, target, arrived, delivered, authVars, mainVars, watermark, changed>>

Look(r) ==
    /\ stage[r] = "look"
    /\ Goto(r, IF Cancelled(r) THEN "idle" ELSE "await")
    /\ UNCHANGED <<sent, status, target, arrived, delivered, authVars, mainVars, watermark, changed>>

\* rx.changed() returns at once if there was a change, and parks the task otherwise.
Await(r) ==
    /\ stage[r] = "await"
    /\ Goto(r, IF changed[r] THEN "look" ELSE "parked")
    /\ changed' = [changed EXCEPT ![r] = FALSE]
    /\ UNCHANGED <<sent, status, target, arrived, delivered, authVars, mainVars, watermark>>

Wake(r) ==
    /\ stage[r] = "parked"
    /\ changed[r]
    /\ changed' = [changed EXCEPT ![r] = FALSE]
    /\ Goto(r, "look")
    /\ UNCHANGED <<sent, status, target, arrived, delivered, authVars, mainVars, watermark>>

InFlight == {"subscribe", "look", "await", "parked"}

\* The backend answers at any time while the request is under way.
Answer(r) ==
    /\ stage[r] \in InFlight
    /\ arrived' = [arrived EXCEPT ![r] = epoch]
    /\ \E s \in {"other", "401", "403"} :
          /\ status' = [status EXCEPT ![r] = s]
          /\ IF s = "401"
             THEN target' = [target EXCEPT ![r] = sent[r]] /\ Goto(r, "raise")
             ELSE Goto(r, "bound") /\ UNCHANGED target
    /\ UNCHANGED <<sent, delivered, authVars, mainVars, watermark, changed>>

TransportFails(r) ==
    /\ stage[r] \in InFlight
    /\ Goto(r, "idle")
    /\ UNCHANGED <<sent, status, target, arrived, delivered, authVars, mainVars, watermark, changed>>

MutantAnySession(r) == session # None

\* session_binding_current; the principal cannot change under one epoch.
BindingCurrent(r) == session # None /\ epoch = sent[r]

CheckBinding(r) ==
    /\ stage[r] = "bound"
    /\ Goto(r, IF BindingCurrent(r) THEN "recheck" ELSE "idle")
    /\ UNCHANGED <<sent, status, target, arrived, delivered, authVars, mainVars, watermark, changed>>

\* The last check; fetch_ws_token goes on to look at the status.
Recheck(r) ==
    /\ stage[r] = "recheck"
    /\ \/ Cancelled(r) /\ Goto(r, "idle") /\ UNCHANGED delivered
       \/ /\ ~Cancelled(r) /\ status[r] = "403"
          /\ Goto(r, "denied") /\ UNCHANGED delivered
       \/ /\ ~Cancelled(r) /\ status[r] = "other"
          /\ Goto(r, "idle") /\ delivered' = [delivered EXCEPT ![r] = TRUE]
    /\ UNCHANGED <<sent, status, target, arrived, authVars, mainVars, watermark, changed>>

\* A denied token cancels the epoch of the moment, if anybody is signed in.
Denied(r) ==
    /\ stage[r] = "denied"
    /\ IF session = None
       THEN Goto(r, "clear") /\ UNCHANGED target
       ELSE target' = [target EXCEPT ![r] = epoch] /\ Goto(r, "raise")
    /\ UNCHANGED <<sent, status, arrived, delivered, authVars, mainVars, watermark, changed>>

MutantRaiseNext(r) ==
    /\ stage[r] = "raise"
    /\ watermark' = IF target[r] >= watermark THEN target[r] + 1 ELSE watermark
    /\ Goto(r, "notify")
    /\ UNCHANGED <<sent, status, target, arrived, delivered, authVars, mainVars, changed>>

\* cancel_auth_epoch raises the watermark and then wakes the others.
Raise(r) ==
    /\ stage[r] = "raise"
    /\ watermark' = IF target[r] > watermark THEN target[r] ELSE watermark
    /\ Goto(r, "notify")
    /\ UNCHANGED <<sent, status, target, arrived, delivered, authVars, mainVars, changed>>

Notify(r) ==
    /\ stage[r] = "notify"
    /\ changed' = [q \in Requests |-> TRUE]
    /\ Goto(r, "clear")
    /\ UNCHANGED <<sent, status, target, arrived, delivered, authVars, mainVars, watermark>>

MutantNoClear(r) ==
    /\ stage[r] = "clear"
    /\ Goto(r, "idle")
    /\ UNCHANGED <<sent, status, target, arrived, delivered, authVars, mainVars, watermark, changed>>

\* run_session_invalidation_cutoff: terminals and vault first, then the session.
Clear(r) ==
    /\ stage[r] = "clear"
    /\ ClearNative
    /\ Goto(r, "idle")
    /\ UNCHANGED <<sent, status, target, arrived, delivered, mainVars, watermark, changed>>

----------------------------------------------------------------------------
Main == BeginLogin \/ OpenBrowser \/ Exchange \/ BeginTeardown \/ EndTeardown \/ Relogin
        \/ \E attempt \in Attempts : CallbackCode(attempt) \/ CallbackError(attempt)

\* What the task does by itself once it is scheduled.
Proceed(r) ==
    \/ Send(r) \/ Subscribe(r) \/ Look(r) \/ Await(r) \/ Wake(r)
    \/ CheckBinding(r) \/ Recheck(r) \/ Denied(r) \/ Raise(r) \/ Notify(r) \/ Clear(r)

Backend(r) == Answer(r) \/ TransportFails(r)

Next == Main \/ \E r \in Requests : Start(r) \/ Backend(r) \/ Proceed(r)

\* The runtime schedules every task that can run; the peer owes no answer.
Fairness == \A r \in Requests : WF_vars(Proceed(r))

Spec == Init /\ [][Next]_vars
FairSpec == Spec /\ Fairness
----------------------------------------------------------------------------
(* Properties.                                                             *)

Stages == {"idle", "ready", "bound", "recheck", "denied", "raise", "notify", "clear"} \cup InFlight

\* Every variable stays in its domain, and every task's epochs are of the past.
TypeOK ==
    /\ pending \in Attempts \cup {None} /\ used \subseteq Attempts
    /\ session \in Attempts \cup {None} /\ epoch \in Nat
    /\ begun \in 0 .. MaxAttempts /\ dead \subseteq Attempts
    /\ main \in {"idle", "browser", "exchange", "logout", "unauthorized", "relogin"}
    /\ taken \in Attempts \cup {None}
    /\ watermark \in 0 .. epoch
    /\ stage \in [Requests -> Stages]
    /\ sent \in [Requests -> Nat] /\ target \in [Requests -> Nat] /\ arrived \in [Requests -> Nat]
    /\ \A r \in Requests : sent[r] <= epoch /\ target[r] <= epoch /\ arrived[r] <= epoch
    /\ status \in [Requests -> {"none", "other", "401", "403"}]
    /\ changed \in [Requests -> BOOLEAN] /\ delivered \in [Requests -> BOOLEAN]

\* A request that sleeps though its epoch is cancelled is about to be woken: between the
\* subscription, the look and the wait no cancellation of another task gets lost.
NoCancelMissed ==
    \A r \in Requests :
        stage[r] = "parked" /\ ~changed[r] /\ Cancelled(r) =>
            \E q \in Requests : stage[q] = "notify"

\* A session whose epoch is cancelled is on its way out: the task that cancelled it has
\* not cleared it yet.  No session stays behind that every request refuses, and the one
\* of a login that lands in the middle of a cutoff is not cancelled by it.
CancelledSessionGoes ==
    session # None /\ watermark >= epoch =>
        \E q \in Requests : stage[q] \in {"notify", "clear"}

\* An answer reaches the caller only if it came in while the session it was asked for
\* was still there, and never once that session's epoch is cancelled.
OnlyLiveAnswers ==
    [][\A r \in Requests :
          delivered'[r] /\ ~delivered[r] => arrived[r] = sent[r] /\ ~Cancelled(r)]_vars

\* A session never comes from an attempt that was replaced, refused or cleared while it
\* waited for its callback, nor from one that is not the latest.
SessionFromLiveAttempt ==
    [][session' # session /\ session' # None => session' \notin dead /\ session' = begun]_vars

\* A 401 or a change of the session stops the cloud requests that were sent before it.
\* The secure runtime design says so of the cutoff (its section on the cloud proxy).
SessionChangeStopsRequests ==
    \A r \in Requests :
        stage[r] \in InFlight /\ ~BindingCurrent(r) ~> stage[r] \notin InFlight

\* A request whose epoch is cancelled ends, even if the backend never answers.
CancelledRequestEnds ==
    \A r \in Requests :
        stage[r] \in InFlight /\ Cancelled(r) ~> stage[r] \notin InFlight
============================================================================
