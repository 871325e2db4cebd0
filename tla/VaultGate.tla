----------------------------- MODULE VaultGate -----------------------------
(***************************************************************************)
(* The lifecycle gate of the local vault (vault.rs): a mutex + condvar     *)
(* that separates vault operations from seals, the mutex `inner` that      *)
(* holds the sealed or open vault, and the authentication state that both  *)
(* sides read.  Each thread runs one handler at a time; a step is what the *)
(* code does between two acquisitions of a lock another thread can hold.   *)
(*                                                                         *)
(* What an operation reads and writes inside an open vault (secrets and    *)
(* their index) is not modelled here: a body only checks the owner and     *)
(* refreshes the activity stamp.                                           *)
(***************************************************************************)
EXTENDS Naturals, FiniteSets

CONSTANTS Main,        \* Tauri main thread: synchronous commands, OS notifications
          Watchdog,    \* poll thread of VaultIdleWatchdog
          Workers,     \* async pool threads: SSH opens, uploads, 401/403 cutoffs
          Principals,  \* verified identities that can sign in
          None,        \* no thread, no principal
          MaxEpoch     \* bound on the auth epochs explored

Threads == {Main, Watchdog} \cup Workers

ASSUME ThreadsAssumption ==
    /\ Main # Watchdog
    /\ {Main, Watchdog} \cap Workers = {}
    /\ IsFiniteSet(Workers)
    /\ None \notin Threads \cup Principals
    /\ MaxEpoch \in Nat

VARIABLES
    kind,         \* GateState.kind
    owner,        \* GateState.operating_owner
    seal_waiters, \* GateState.seal_waiters
    parked,       \* threads asleep on the gate's condvar
    holder,       \* thread that keeps `inner` locked across steps, or None
    openFor,      \* VaultInner: principal of an Unlocked vault, None when Locked
    idle,         \* last_activity.elapsed() >= VAULT_IDLE_TIMEOUT
    overtaken,    \* history: a cutoff overtook the unlock that opened the vault
    files,        \* which of the vault's two files exist
    session,      \* AuthMemory.session: its principal, or None
    epoch,        \* AuthMemory.session_epoch
    pc,           \* what each thread does next
    job,          \* the handler each thread runs
    who,          \* principal the handler captured when it began
    bound,        \* epoch the handler captured when it began
    owns_waiter   \* SealGuard.owns_waiter of the seal claim a thread holds

gateVars  == <<kind, owner, seal_waiters, parked>>
innerVars == <<holder, openFor, idle, overtaken>>
authVars  == <<session, epoch>>
callVars  == <<job, who, bound>>
vars == <<gateVars, innerVars, files, authVars, callVars, pc, owns_waiter>>

VaultFiles == {"snapshot", "salt"}

\* delete, import and list are one job: they differ only in what the body does.
Jobs == {"none", "tick", "lock", "reset", "cutoff", "use", "lease", "unlock", "init"}

\* Program points at which a thread holds the OPERATING or the SEALING claim.
OpRegion   == {"op_check", "body", "rebind", "leased", "op_end", "op_status",
               "unlock_peek", "unlock_load", "unlock_check", "unlock_assign",
               "init_write", "init_save", "init_assign"}
SealRegion == {"recheck", "close", "seal", "remove_snapshot", "remove_salt",
               "mark_reset", "unseal", "drop_seal"}
Points == OpRegion \cup SealRegion \cup
          {"ready", "tick", "try", "bind", "observe", "enter", "op_claim",
           "claim", "await", "status", "clear"}

Init ==
    /\ kind = "idle" /\ owner = None /\ seal_waiters = 0 /\ parked = {}
    /\ holder = None /\ openFor = None /\ idle = FALSE /\ overtaken = FALSE
    /\ files \in {{}, VaultFiles}
    /\ session = None /\ epoch = 0
    /\ pc = [t \in Threads |-> "ready"]
    /\ job = [t \in Threads |-> "none"]
    /\ who = [t \in Threads |-> None]
    /\ bound = [t \in Threads |-> 0]
    /\ owns_waiter = [t \in Threads |-> FALSE]

Goto(t, point) == pc' = [pc EXCEPT ![t] = point]

\* Leave t with nothing to do: its handler returned.
Return(t) ==
    /\ pc' = [pc EXCEPT ![t] = "ready"]
    /\ job' = [job EXCEPT ![t] = "none"]
    /\ who' = [who EXCEPT ![t] = None]
    /\ bound' = [bound EXCEPT ![t] = 0]

\* AuthStore::session_binding_current
BindingCurrent(p, e) == epoch = e /\ session = p

----------------------------------------------------------------------------
(* Handlers begin.  Sync commands, deep links and OS notifications run on  *)
(* Main, one at a time; leases and cutoffs of cloud requests on Workers.   *)

Begin(t, name, point, p) ==
    /\ pc[t] = "ready"
    /\ Goto(t, point)
    /\ job' = [job EXCEPT ![t] = name]
    /\ who' = [who EXCEPT ![t] = p]
    /\ bound' = [bound EXCEPT ![t] = IF p = None THEN 0 ELSE epoch]
    /\ UNCHANGED <<gateVars, innerVars, files, authVars, owns_waiter>>

\* vault_status and the watchdog both start with maybe_idle_seal.
BeginTick(t) == t \in {Main, Watchdog} /\ Begin(t, "tick", "tick", None)

\* vault_lock, RunEvent::Exit and the NSWorkspace notifications.
BeginLock == Begin(Main, "lock", "claim", None)

BeginReset == Begin(Main, "reset", "claim", None)

\* auth_logout and auth_on_unauthorized on Main, a 401 or 403 on a worker.
BeginCutoff(t) ==
    /\ t = Main \/ (t \in Workers /\ epoch > 0)
    /\ epoch < MaxEpoch
    /\ Begin(t, "cutoff", "claim", None)

\* import, list and delete take the principal of the moment ...
BeginUse == session # None /\ Begin(Main, "use", "observe", session)

\* ... a lease gets the principal and the epoch an SSH open or an upload captured.
BeginLease(t) ==
    /\ t \in Workers
    /\ session # None
    /\ Begin(t, "lease", "bind", session)

BeginUnlock ==
    /\ session # None
    /\ "snapshot" \in files
    /\ Begin(Main, "unlock", "op_claim", session)

BeginInit == files = {} /\ Begin(Main, "init", "op_claim", None)

\* A deep link installs a session while Main does nothing else.
Login(p) ==
    /\ pc[Main] = "ready"
    /\ epoch < MaxEpoch
    /\ session' = p
    /\ epoch' = epoch + 1
    /\ UNCHANGED <<gateVars, innerVars, files, callVars, pc, owns_waiter>>

IdleElapses ==
    /\ openFor # None
    /\ ~idle
    /\ idle' = TRUE
    /\ UNCHANGED <<gateVars, holder, openFor, overtaken, files, authVars, callVars, pc,
                   owns_waiter>>

----------------------------------------------------------------------------
(* Seals: claim_sealing, try_claim_sealing, seal_vault, SealGuard.         *)

TakeSealing ==
    /\ kind' = "sealing"
    /\ owner' = None

MutantAdmitsBusyGate == seal_waiters = 0
\* A new operation and an idle seal need a free gate nobody waits to seal.
GateAdmits == kind = "idle" /\ seal_waiters = 0

MutantNotifyNobody == UNCHANGED parked

\* Condvar::notify_all
NotifyAll == parked' = {}

\* claim_sealing publishes its intent, then takes an idle gate or parks.
ClaimSealing(t) ==
    /\ pc[t] = "claim"
    /\ seal_waiters' = seal_waiters + 1
    /\ owns_waiter' = [owns_waiter EXCEPT ![t] = TRUE]
    /\ \/ /\ kind = "idle"
          /\ TakeSealing
          /\ Goto(t, "close")
          /\ UNCHANGED parked
       \/ /\ kind # "idle"
          /\ parked' = parked \cup {t}
          /\ Goto(t, "await")
          /\ UNCHANGED <<kind, owner>>
    /\ UNCHANGED <<innerVars, files, authVars, callVars>>

\* A notified sealer looks at the gate again; wake order is not FIFO.
WakeSealer(t) ==
    /\ pc[t] = "await"
    /\ t \notin parked
    /\ \/ /\ kind = "idle"
          /\ TakeSealing
          /\ Goto(t, "close")
          /\ UNCHANGED parked
       \/ /\ kind # "idle"
          /\ parked' = parked \cup {t}
          /\ UNCHANGED <<kind, owner, pc>>
    /\ UNCHANGED <<seal_waiters, innerVars, files, authVars, callVars, owns_waiter>>

\* The idle seal takes the gate only if nobody holds it or waits for it.
TryClaimSealing(t) ==
    /\ pc[t] = "try"
    /\ \/ /\ GateAdmits
          /\ TakeSealing
          /\ owns_waiter' = [owns_waiter EXCEPT ![t] = FALSE]
          /\ Goto(t, "recheck")
          /\ UNCHANGED callVars
       \/ /\ ~GateAdmits
          /\ IF job[t] = "tick" THEN Return(t) ELSE Goto(t, "op_claim") /\ UNCHANGED callVars
          /\ UNCHANGED <<kind, owner, owns_waiter>>
    /\ UNCHANGED <<seal_waiters, parked, innerVars, files, authVars>>

\* Under the idle claim: still unlocked and idle, or give the claim back.
RecheckIdle(t) ==
    /\ pc[t] = "recheck"
    /\ holder = None
    /\ Goto(t, IF openFor # None /\ idle THEN "close" ELSE "drop_seal")
    /\ UNCHANGED <<gateVars, innerVars, files, authVars, callVars, owns_waiter>>

NothingToReset(t) == job[t] = "reset" /\ files = {}

\* reset_local returns NotInitialized, under its claim, if there are no files.
AfterClose(t) == IF NothingToReset(t) THEN "drop_seal" ELSE "seal"

\* Close every terminal before the seal.
CloseSessions(t) ==
    /\ pc[t] = "close"
    /\ Goto(t, AfterClose(t))
    /\ UNCHANGED <<gateVars, innerVars, files, authVars, callVars, owns_waiter>>

\* VaultInner::Locked
AssignInnerLocked == openFor' = None /\ idle' = FALSE /\ overtaken' = FALSE

SealVault(t) ==
    /\ pc[t] = "seal"
    /\ holder = None
    /\ AssignInnerLocked
    /\ Goto(t, IF job[t] = "reset" THEN "remove_snapshot" ELSE "unseal")
    /\ UNCHANGED <<gateVars, holder, files, authVars, callVars, owns_waiter>>

\* reset_local deletes the snapshot, then the salt; either call may fail.
RemoveSnapshot(t) ==
    /\ pc[t] = "remove_snapshot"
    /\ \/ files' = files \ {"snapshot"} /\ Goto(t, "remove_salt")
       \/ UNCHANGED files /\ Goto(t, "drop_seal")
    /\ UNCHANGED <<gateVars, innerVars, authVars, callVars, owns_waiter>>

RemoveSalt(t) ==
    /\ pc[t] = "remove_salt"
    /\ \/ files' = files \ {"salt"} /\ Goto(t, "mark_reset")
       \/ UNCHANGED files /\ Goto(t, "drop_seal")
    /\ UNCHANGED <<gateVars, innerVars, authVars, callVars, owns_waiter>>

MarkReset(t) ==
    /\ pc[t] = "mark_reset"
    /\ holder = None
    /\ AssignInnerLocked
    /\ Goto(t, "unseal")
    /\ UNCHANGED <<gateVars, holder, files, authVars, callVars, owns_waiter>>

\* u32::saturating_sub(1)
SaturatingDec(n) == IF n > 0 THEN n - 1 ELSE 0

MutantDebitUnowed(t) == seal_waiters - 1
\* Only a claim that went through claim_sealing debits the waiter count.
WaitersAfterSeal(t) == IF owns_waiter[t] THEN SaturatingDec(seal_waiters) ELSE seal_waiters

\* end_seal, from the Drop of the SealGuard.  An observed identity change goes
\* on to enter_op, a claim given back in enter_op goes on to claim_operating.
EndSeal(t) ==
    /\ pc[t] \in {"unseal", "drop_seal"}
    /\ kind' = "idle"
    /\ owner' = None
    /\ seal_waiters' = WaitersAfterSeal(t)
    /\ NotifyAll
    /\ owns_waiter' = [owns_waiter EXCEPT ![t] = FALSE]
    /\ \/ /\ job[t] \in {"lock", "reset", "cutoff"} /\ pc[t] = "unseal"
          /\ Goto(t, "status") /\ UNCHANGED callVars
       \/ /\ job[t] \in {"use", "lease"} /\ owns_waiter[t]
          /\ Goto(t, "enter") /\ UNCHANGED callVars
       \/ /\ job[t] \in {"use", "lease"} /\ pc[t] = "drop_seal"
          /\ Goto(t, "op_claim") /\ UNCHANGED callVars
       \/ /\ \/ job[t] = "tick"
             \/ job[t] = "reset" /\ pc[t] = "drop_seal"
             \/ job[t] \in {"use", "lease"} /\ pc[t] = "unseal" /\ ~owns_waiter[t]
          /\ Return(t)
    /\ UNCHANGED <<innerVars, files, authVars>>

\* status_without_idle_seal after a seal; a cutoff then clears the session.
Status(t) ==
    /\ pc[t] = "status"
    /\ holder = None
    /\ IF job[t] = "cutoff" THEN Goto(t, "clear") /\ UNCHANGED callVars ELSE Return(t)
    /\ UNCHANGED <<gateVars, innerVars, files, authVars, owns_waiter>>

ClearNative(t) ==
    /\ pc[t] = "clear"
    /\ session' = None
    /\ epoch' = epoch + 1
    /\ Return(t)
    /\ UNCHANGED <<gateVars, innerVars, files, owns_waiter>>

\* maybe_idle_seal's first look at the vault.
MaybeIdleSeal(t) ==
    /\ pc[t] = "tick"
    /\ holder = None
    /\ IF openFor # None /\ idle THEN Goto(t, "try") /\ UNCHANGED callVars ELSE Return(t)
    /\ UNCHANGED <<gateVars, innerVars, files, authVars, owns_waiter>>

----------------------------------------------------------------------------
(* Operations: observe_principal, enter_op, claim_operating, OpGuard.      *)

BindLease(t) ==
    /\ pc[t] = "bind"
    /\ IF BindingCurrent(who[t], bound[t])
       THEN Goto(t, "observe") /\ UNCHANGED callVars
       ELSE Return(t)
    /\ UNCHANGED <<gateVars, innerVars, files, authVars, owns_waiter>>

ObservePrincipal(t) ==
    /\ pc[t] = "observe"
    /\ holder = None
    /\ Goto(t, IF openFor \notin {None, session} THEN "claim" ELSE "enter")
    /\ UNCHANGED <<gateVars, innerVars, files, authVars, callVars, owns_waiter>>

EnterOp(t) ==
    /\ pc[t] = "enter"
    /\ holder = None
    /\ IF openFor = None
       THEN Return(t)
       ELSE Goto(t, IF idle THEN "try" ELSE "op_claim") /\ UNCHANGED callVars
    /\ UNCHANGED <<gateVars, innerVars, files, authVars, owns_waiter>>

FirstPoint(name) ==
    CASE name = "unlock" -> "unlock_peek"
      [] name = "init"   -> "init_write"
      [] OTHER           -> "op_check"

ClaimOperating(t) ==
    /\ pc[t] = "op_claim"
    /\ \/ /\ GateAdmits
          /\ kind' = "operating"
          /\ owner' = t
          /\ Goto(t, FirstPoint(job[t]))
          /\ UNCHANGED callVars
       \/ /\ ~GateAdmits
          /\ Return(t)
          /\ UNCHANGED <<kind, owner>>
    /\ UNCHANGED <<seal_waiters, parked, innerVars, files, authVars, owns_waiter>>

\* end_op: OPERATING -> IDLE and wake the sealers.
ReleaseOperating ==
    /\ kind' = "idle"
    /\ owner' = None
    /\ NotifyAll
    /\ UNCHANGED seal_waiters

\* enter_op's second look.  On an idle vault it drops the claim and calls
\* maybe_idle_seal while its guard of `inner` is still alive.
CheckUnderOp(t) ==
    /\ pc[t] = "op_check"
    /\ holder = None
    /\ \/ /\ openFor = None
          /\ ReleaseOperating
          /\ Return(t)
          /\ UNCHANGED holder
       \/ /\ openFor # None /\ idle
          /\ ReleaseOperating
          /\ holder' = t
          /\ Goto(t, "tick")
          /\ UNCHANGED callVars
       \/ /\ openFor # None /\ ~idle
          /\ Goto(t, "body")
          /\ UNCHANGED <<gateVars, holder, callVars>>
    /\ UNCHANGED <<openFor, idle, overtaken, files, authVars, owns_waiter>>

MutantAnyOpenVault(t) == openFor # None

\* u.principal is the principal the operation was begun for.
OwnsVault(t) == openFor = who[t]

Body(t) ==
    /\ pc[t] = "body"
    /\ holder = None
    /\ IF OwnsVault(t)
       THEN idle' = FALSE /\ Goto(t, IF job[t] = "lease" THEN "rebind" ELSE "op_end")
       ELSE UNCHANGED idle /\ Goto(t, "op_end")
    /\ UNCHANGED <<gateVars, holder, openFor, overtaken, files, authVars, callVars, owns_waiter>>

\* A lease is handed out only if its binding outlived the read of the secret.
RebindLease(t) ==
    /\ pc[t] = "rebind"
    /\ Goto(t, IF BindingCurrent(who[t], bound[t]) THEN "leased" ELSE "op_end")
    /\ UNCHANGED <<gateVars, innerVars, files, authVars, callVars, owns_waiter>>

EndOp(t) ==
    /\ pc[t] \in {"op_end", "leased"}
    /\ ReleaseOperating
    /\ Return(t)
    /\ UNCHANGED <<innerVars, files, authVars, owns_waiter>>

\* unlock and init report the status before their claim is dropped.
StatusUnderOp(t) ==
    /\ pc[t] = "op_status"
    /\ holder = None
    /\ Goto(t, "op_end")
    /\ UNCHANGED <<gateVars, innerVars, files, authVars, callVars, owns_waiter>>

----------------------------------------------------------------------------
(* unlock_with_password and init_with_password under their claim.          *)

PeekUnlocked(t) ==
    /\ pc[t] = "unlock_peek"
    /\ holder = None
    /\ Goto(t, IF openFor = None THEN "unlock_load" ELSE "op_end")
    /\ UNCHANGED <<gateVars, innerVars, files, authVars, callVars, owns_waiter>>

\* Salt, password, snapshot, client and index: any of them may fail the unlock.
LoadSnapshot(t) ==
    /\ pc[t] = "unlock_load"
    /\ \/ files = VaultFiles /\ Goto(t, "unlock_check")
       \/ Goto(t, "op_end")
    /\ UNCHANGED <<gateVars, innerVars, files, authVars, callVars, owns_waiter>>

\* gate_is_operating is asked with `inner` held ...
CheckBeforeAssign(t) ==
    /\ pc[t] = "unlock_check"
    /\ holder = None
    /\ IF kind = "operating" /\ openFor = None
       THEN holder' = t /\ Goto(t, "unlock_assign")
       ELSE UNCHANGED holder /\ Goto(t, "op_end")
    /\ UNCHANGED <<gateVars, openFor, idle, overtaken, files, authVars, callVars, owns_waiter>>

MutantKeepInner == UNCHANGED holder

\* The guard of `inner` ends with its block.
DropInner == holder' = None

\* A cutoff has sealed the vault and has yet to clear the session.
CutoffPastSeal ==
    \E t \in Threads : job[t] = "cutoff" /\ pc[t] \in {"unseal", "status", "clear"}

\* ... and the vault opens for the principal captured before the claim.
AssignUnlocked(t) ==
    /\ pc[t] = "unlock_assign"
    /\ openFor' = who[t]
    /\ overtaken' = (CutoffPastSeal \/ ~BindingCurrent(who[t], bound[t]))
    /\ idle' = FALSE
    /\ DropInner
    /\ Goto(t, "op_status")
    /\ UNCHANGED <<gateVars, files, authVars, callVars, owns_waiter>>

WriteSalt(t) ==
    /\ pc[t] = "init_write"
    /\ \/ files = {} /\ files' = {"salt"} /\ Goto(t, "init_save")
       \/ UNCHANGED files /\ Goto(t, "op_end")
    /\ UNCHANGED <<gateVars, innerVars, authVars, callVars, owns_waiter>>

SaveSnapshot(t) ==
    /\ pc[t] = "init_save"
    /\ \/ files' = files \cup {"snapshot"} /\ Goto(t, "init_assign")
       \/ UNCHANGED files /\ Goto(t, "op_end")
    /\ UNCHANGED <<gateVars, innerVars, authVars, callVars, owns_waiter>>

AssignLocked(t) ==
    /\ pc[t] = "init_assign"
    /\ holder = None
    /\ IF kind = "operating"
       THEN AssignInnerLocked /\ Goto(t, "op_status")
       ELSE UNCHANGED <<openFor, idle, overtaken>> /\ Goto(t, "op_end")
    /\ UNCHANGED <<gateVars, holder, files, authVars, callVars, owns_waiter>>

----------------------------------------------------------------------------
Start ==
    \/ \E t \in Threads : BeginTick(t) \/ BeginCutoff(t) \/ BeginLease(t)
    \/ BeginLock \/ BeginReset \/ BeginUse \/ BeginUnlock \/ BeginInit
    \/ \E p \in Principals : Login(p)
    \/ IdleElapses

SealStep(t) ==
    \/ ClaimSealing(t) \/ WakeSealer(t) \/ TryClaimSealing(t) \/ RecheckIdle(t)
    \/ CloseSessions(t) \/ SealVault(t) \/ RemoveSnapshot(t) \/ RemoveSalt(t)
    \/ MarkReset(t) \/ EndSeal(t) \/ Status(t) \/ ClearNative(t) \/ MaybeIdleSeal(t)

OpStep(t) ==
    \/ BindLease(t) \/ ObservePrincipal(t) \/ EnterOp(t) \/ ClaimOperating(t)
    \/ CheckUnderOp(t) \/ Body(t) \/ RebindLease(t) \/ EndOp(t) \/ StatusUnderOp(t)
    \/ PeekUnlocked(t) \/ LoadSnapshot(t) \/ CheckBeforeAssign(t) \/ AssignUnlocked(t)
    \/ WriteSalt(t) \/ SaveSnapshot(t) \/ AssignLocked(t)

\* A handler that has begun goes on.
Continue(t) == SealStep(t) \/ OpStep(t)

Next == Start \/ \E t \in Threads : Continue(t)

Spec == Init /\ [][Next]_vars

\* The OS runs every thread that is not blocked; nothing makes a user act.
FairSpec == Spec /\ \A t \in Threads : WF_vars(Continue(t))
----------------------------------------------------------------------------
(* Properties.                                                             *)

\* Every variable stays in its domain.
TypeOK ==
    /\ kind \in {"idle", "operating", "sealing"}
    /\ owner \in Threads \cup {None}
    /\ seal_waiters \in Nat
    /\ parked \subseteq Threads
    /\ holder \in Threads \cup {None}
    /\ openFor \in Principals \cup {None}
    /\ idle \in BOOLEAN /\ overtaken \in BOOLEAN
    /\ files \subseteq VaultFiles
    /\ session \in Principals \cup {None}
    /\ epoch \in Nat
    /\ pc \in [Threads -> Points]
    /\ job \in [Threads -> Jobs]
    /\ who \in [Threads -> Principals \cup {None}]
    /\ bound \in [Threads -> Nat]
    /\ owns_waiter \in [Threads -> BOOLEAN]

Operators == {t \in Threads : pc[t] \in OpRegion}
Sealers   == {t \in Threads : pc[t] \in SealRegion}
Intents   == {t \in Threads : owns_waiter[t]}

\* The gate word agrees with what the threads are doing: at most one thread is
\* between claim and release, it is the recorded owner if it operates, and an
\* idle gate has nobody inside (claim_operating, claim_sealing, end_op, end_seal).
GateExclusion ==
    /\ kind = "idle" => Operators = {} /\ Sealers = {} /\ owner = None
    /\ kind = "operating" => Operators = {owner} /\ Sealers = {}
    /\ kind = "sealing" => Operators = {} /\ owner = None /\ \E t \in Threads : Sealers = {t}

\* No lost wakeup: while a sealer sleeps on the condvar somebody holds the gate,
\* and will notify when letting go of it.
ParkedSealerHasWaker == parked # {} => kind # "idle"

\* The waiter count is the number of sealers that published an intent and have
\* not withdrawn it: saturating_sub never hides a debit that was not owed, and no
\* credit is left behind to lock operations out for ever.
WaiterAccounting == seal_waiters = Cardinality(Intents)

\* A vault is open only over a salt and a snapshot on disk, whatever resets,
\* failed deletions and failed initialisations run around the unlock.
OpenVaultHasFiles == openFor # None => files = VaultFiles

\* From the moment an operation has found the vault open for its principal until
\* it returns, nobody seals the vault or opens it for somebody else.
OpKeepsItsVault ==
    \A t \in Threads : pc[t] \in {"rebind", "leased"} => openFor = who[t]

\* Nobody keeps an open vault past his sign-in, unless the cutoff that ended it overtook
\* the unlock: sealed while the unlock had not assigned, or cleared the session before.
OpenVaultHasSession == openFor # None /\ session = None => overtaken

\* The gate does its work: its word, its sleepers and its counter agree with what the
\* threads do, an operation keeps the vault it found, and a cutoff leaves no vault open
\* but one whose unlock it overtook.
GateSound ==
    /\ GateExclusion
    /\ ParkedSealerHasWaker
    /\ WaiterAccounting
    /\ OpKeepsItsVault
    /\ OpenVaultHasSession

\* A thread that blocks on `inner` while it holds `inner` blocks for ever.
Wedged == \E t \in Threads : holder = t /\ pc[t] = "tick"

\* Program points whose step locks `inner`.
TakesInner == {"recheck", "seal", "mark_reset", "status", "tick", "observe", "enter",
               "op_check", "body", "op_status", "unlock_peek", "unlock_check", "init_assign"}

\* t has nothing to do, waits for `inner`, or sleeps on the condvar.
Blocked(t) ==
    \/ pc[t] = "ready"
    \/ pc[t] \in TakesInner /\ holder # None
    \/ pc[t] = "await" /\ t \in parked

\* Only these three things stop a handler.
BlockedIsDisabled == \A t \in Threads : Blocked(t) <=> ~ENABLED Continue(t)

\* If handlers are under way and none can go on, one of them re-entered `inner`.
DeadlockIsReentry ==
    (\A t \in Threads : Blocked(t)) /\ (\E t \in Threads : pc[t] # "ready") => Wedged

\* The threads can all be stuck only if one of them re-entered `inner`: the gate,
\* its condvar and the nesting of the gate's mutex in `inner` never deadlock.
StuckOnlyByReentry == BlockedIsDisabled /\ DeadlockIsReentry

\* A sealer that published its intent gets the vault sealed, however many
\* operations keep coming; the one way out is the re-entered mutex.
SealIntentHonoured == seal_waiters > 0 ~> (openFor = None \/ Wedged)

\* vault.rs promises of enter_op and of maybe_idle_seal that they never nest the
\* gate with `inner`; waiting for `inner` with `inner` held is the worst of it.
NeverReentersInner == ~Wedged

\* THREAT_MODEL.md promises that a 401 clears the session and locks the vault: when
\* every handler has returned, no vault is open without a session.
NoVaultWithoutSession ==
    session = None /\ (\A t \in Threads : pc[t] = "ready") => openFor = None

Promise == INSTANCE SealProtocol
    WITH Clients <- Threads, operators <- Operators, sealers <- Sealers,
         intents <- Intents, open <- openFor

\* The gate implements the seal protocol.
ImplementsSealProtocol == Promise!Spec
============================================================================
