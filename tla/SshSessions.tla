---------------------------- MODULE SshSessions ----------------------------
(***************************************************************************)
(* Local SSH terminals: the registry with its generation barrier           *)
(* (ssh_registry.rs), the open call that leases a key from the vault and   *)
(* connects outside every lock (ssh_ipc.rs), and the teardowns that race   *)
(* with it: lock, cutoff, credential deletion, close, I/O on a stale       *)
(* session, and the transport ending by itself.                            *)
(*                                                                         *)
(* The vault is the one VaultGate describes, reduced to what its theorems  *)
(* let a caller rely on: operations and seals exclude one another, the     *)
(* vault opens in an operation and closes in a seal.  A claim that the     *)
(* code waits for is a guard.                                              *)
(***************************************************************************)
EXTENDS Naturals, FiniteSets

CONSTANTS Openers,       \* open calls; each names the session it may register
          Callers,       \* threads that run every other command and callback
          Principals,    \* verified identities that can sign in
          Credentials,   \* credential ids in the vault
          None,          \* no principal, no session
          MaxEpoch,      \* bound on the auth epochs explored
          MaxGeneration, \* bound on the registry generations explored
          MaxRevokes     \* bound on the credential epochs explored

Threads == Openers \cup Callers

ASSUME ThreadsAssumption ==
    /\ Openers \cap Callers = {}
    /\ None \notin Openers \cup Principals
    /\ {MaxEpoch, MaxGeneration, MaxRevokes} \subseteq Nat

VARIABLES
    session,     \* AuthMemory.session: its principal, or None
    epoch,       \* AuthMemory.session_epoch
    gate,        \* GateState.kind of the vault
    openFor,     \* principal of the unlocked vault, None when locked
    stored,      \* <<principal, credential>> pairs held by the vault
    generation,  \* RegistryInner.generation
    cred_epoch,  \* RegistryInner.cred_epoch
    sessions,    \* keys of RegistryInner.sessions
    target,      \* PreparedSshTarget of each open call
    gen_ticket,  \* generation an open call read before it connected
    cred_ticket, \* credential epoch an open call read before it connected
    missed,      \* history: revocations between the lease of an open call and its tickets
    transport,   \* "none", "live", "ended" by the peer, "closed" by close()
    closes,      \* how often close() was called on a transport
    dead,        \* SessionSlot.dead and close_invoked, which are set together
    sink,        \* phase of the IpcTerminalSink of each open call
    told,        \* open calls whose actor handed Closed to its sink
    helpers,     \* slots a helper thread has been spawned to close
    pc,          \* what each thread does next
    job,         \* the command each thread runs
    arg,         \* session or <<principal, credential>> a command is about
    todo         \* slots a thread took out of the registry and has to close

authVars  == <<session, epoch>>
vaultVars == <<gate, openFor, stored>>
mapVars   == <<generation, cred_epoch, sessions>>
openVars  == <<target, gen_ticket, cred_ticket, missed>>
wireVars  == <<transport, closes, dead, sink, told, helpers>>
callVars  == <<pc, job, arg>>
vars == <<authVars, vaultVars, mapVars, openVars, wireVars, callVars, todo>>

Jobs == {"none", "open", "lock", "cutoff", "delete", "close", "write"}
Points == {"ready", "done", "lease", "tickets", "connect", "check", "register", "bind",
           "claim", "first_close_all", "first_drain", "close_all", "drain", "seal", "clear",
           "delete", "revoke", "erase", "check_before", "check_after"}

Keys == Principals \X Credentials
Targets == [principal : Principals, epoch : Nat, credential : Credentials]
KeyOf(o) == <<target[o].principal, target[o].credential>>

Init ==
    /\ session = None /\ epoch = 0
    /\ gate = "idle" /\ openFor = None /\ stored = Keys
    /\ generation = 0 /\ cred_epoch = [k \in Keys |-> 0] /\ sessions = {}
    /\ target = [o \in Openers |-> None]
    /\ gen_ticket = [o \in Openers |-> 0] /\ cred_ticket = [o \in Openers |-> 0]
    /\ missed = [o \in Openers |-> {}]
    /\ transport = [o \in Openers |-> "none"]
    /\ closes = [o \in Openers |-> 0]
    /\ dead = [o \in Openers |-> FALSE]
    /\ sink = [o \in Openers |-> "pending"]
    /\ told = {} /\ helpers = {}
    /\ pc = [t \in Threads |-> "ready"]
    /\ job = [t \in Threads |-> "none"]
    /\ arg = [t \in Threads |-> None]
    /\ todo = [t \in Threads |-> {}]

Goto(t, point) == pc' = [pc EXCEPT ![t] = point] /\ UNCHANGED <<job, arg>>

\* An open call is made once; a caller is free again.
Finish(t) ==
    /\ pc' = [pc EXCEPT ![t] = IF t \in Openers THEN "done" ELSE "ready"]
    /\ job' = [job EXCEPT ![t] = "none"]
    /\ arg' = [arg EXCEPT ![t] = None]

\* AuthStore::session_binding_current for the target of open call o
Bound(o) == session = target[o].principal /\ epoch = target[o].epoch

----------------------------------------------------------------------------
(* Around the registry: the session and the vault.                         *)

\* A deep link installs a session.  It closes nothing and locks nothing.
Login(p) ==
    /\ epoch < MaxEpoch
    /\ session' = p
    /\ epoch' = epoch + 1
    /\ UNCHANGED <<vaultVars, mapVars, openVars, wireVars, callVars, todo>>

Unlock ==
    /\ session # None
    /\ gate = "idle" /\ openFor = None
    /\ openFor' = session
    /\ UNCHANGED <<authVars, gate, stored, mapVars, openVars, wireVars, callVars, todo>>

Begin(c, name, point, about) ==
    /\ pc[c] = "ready"
    /\ pc' = [pc EXCEPT ![c] = point]
    /\ job' = [job EXCEPT ![c] = name]
    /\ arg' = [arg EXCEPT ![c] = about]
    /\ UNCHANGED <<authVars, vaultVars, mapVars, openVars, wireVars, todo>>

\* Sleep, session lock, idle timeout, exit and the lock button.
BeginLock(c) ==
    /\ generation < MaxGeneration
    /\ Begin(c, "lock", "claim", None)

\* auth_logout, auth_on_unauthorized, the cutoff of a 401 or 403.
BeginCutoff(c) ==
    /\ generation < MaxGeneration /\ epoch < MaxEpoch
    /\ Begin(c, "cutoff", "first_close_all", None)

BeginDelete(c, credential) ==
    /\ session # None
    /\ cred_epoch[<<session, credential>>] < MaxRevokes
    /\ Begin(c, "delete", "delete", <<session, credential>>)

----------------------------------------------------------------------------
(* Closing: close_slot_transport, close_all, remove_on_transport_ended.    *)

\* Call close() on the transport of o.
CloseTransport(o) ==
    /\ transport' = [transport EXCEPT ![o] = "closed"]
    /\ closes' = [closes EXCEPT ![o] = @ + 1]

MutantRemovesNothing(S) == UNCHANGED sessions

\* Slots leave the map under its mutex, so each is closed by who took it out.
TakeOut(S) == sessions' = sessions \ S

MutantKeepGeneration == UNCHANGED generation

\* The barrier of close_all: what holds an older ticket cannot be inserted.
RaiseBarrier == generation' = generation + 1

\* Open calls whose key is leased and whose tickets are not read.
Unticketed == {o \in Openers : pc[o] = "tickets"}

\* The open calls of S do not notice a revocation.
Miss(S, what) ==
    missed' = [o \in Openers |-> IF o \in S THEN missed[o] \cup {what} ELSE missed[o]]

\* close_all drains the map; the closes happen outside its mutex.
CloseAll(t) ==
    /\ pc[t] \in {"first_close_all", "close_all"}
    /\ RaiseBarrier
    /\ TakeOut(sessions)
    /\ todo' = [todo EXCEPT ![t] = sessions]
    /\ Miss(Unticketed, "lock")
    /\ Goto(t, IF pc[t] = "close_all" THEN "drain" ELSE "first_drain")
    /\ UNCHANGED <<authVars, vaultVars, cred_epoch, target, gen_ticket, cred_ticket, wireVars>>

AfterDrain(t) ==
    CASE pc[t] = "first_drain" -> "claim"
      [] job[t] = "delete" /\ gate = "operating" -> "erase"
      [] OTHER -> "seal"

\* close_slot_transport for one of the slots taken out, in any order.
CloseSlot(t) ==
    /\ pc[t] \in {"first_drain", "drain"}
    /\ \/ \E o \in todo[t] :
            /\ todo' = [todo EXCEPT ![t] = @ \ {o}]
            /\ dead' = [dead EXCEPT ![o] = TRUE]
            /\ IF dead[o] THEN UNCHANGED <<transport, closes>> ELSE CloseTransport(o)
            /\ UNCHANGED callVars
       \/ /\ todo[t] = {}
          /\ IF job[t] = "close" THEN Finish(t) ELSE Goto(t, AfterDrain(t))
          /\ UNCHANGED <<todo, dead, transport, closes>>
    /\ UNCHANGED <<authVars, vaultVars, mapVars, openVars, sink, told, helpers>>

\* remove_on_transport_ended: never closes on the calling thread.
RemoveEnded(o) ==
    IF o \in sessions
    THEN /\ TakeOut({o})
         /\ dead' = [dead EXCEPT ![o] = TRUE]
         /\ helpers' = IF dead[o] THEN helpers ELSE helpers \cup {o}
    ELSE UNCHANGED <<sessions, dead, helpers>>

\* The helper thread closes the transport.
HelperCloses(o) ==
    /\ o \in helpers
    /\ helpers' = helpers \ {o}
    /\ CloseTransport(o)
    /\ UNCHANGED <<authVars, vaultVars, mapVars, openVars, dead, sink, told, callVars, todo>>

----------------------------------------------------------------------------
(* Lock and cutoff: lock_with_reason under the sealing claim.              *)

ClaimSealing(t) ==
    /\ pc[t] = "claim"
    /\ gate = "idle"
    /\ gate' = "sealing"
    /\ Goto(t, "close_all")
    /\ UNCHANGED <<authVars, openFor, stored, mapVars, openVars, wireVars, todo>>

Seal(t) ==
    /\ pc[t] = "seal"
    /\ openFor' = None
    /\ gate' = "idle"
    /\ IF job[t] = "cutoff" THEN Goto(t, "clear") ELSE Finish(t)
    /\ UNCHANGED <<authVars, stored, mapVars, openVars, wireVars, todo>>

ClearNative(c) ==
    /\ pc[c] = "clear"
    /\ session' = None
    /\ epoch' = epoch + 1
    /\ Finish(c)
    /\ UNCHANGED <<vaultVars, mapVars, openVars, wireVars, todo>>

\* observe_principal: an unlocked vault of somebody else is locked first.
ForeignVault == openFor \notin {None, session}

\* enter_op seals a vault that sat idle; the caller then fails.
IdleSeal(t) ==
    /\ gate = "idle" /\ openFor # None
    /\ generation < MaxGeneration
    /\ gate' = "sealing"
    /\ Goto(t, "close_all")

----------------------------------------------------------------------------
(* delete_local: close the sessions of the credential, then erase it.      *)

Delete(c) ==
    /\ pc[c] = "delete"
    /\ \/ ForeignVault /\ Goto(c, "claim") /\ UNCHANGED gate
       \/ ~ForeignVault /\ IdleSeal(c)
       \/ /\ ~ForeignVault /\ openFor # None /\ gate = "idle"
          /\ gate' = "operating"
          /\ Goto(c, "revoke")
       \/ /\ openFor = None \/ (~ForeignVault /\ gate # "idle")
          /\ Finish(c)
          /\ UNCHANGED gate
    /\ UNCHANGED <<authVars, openFor, stored, mapVars, openVars, wireVars, todo>>

BumpCredential(k) == cred_epoch' = [cred_epoch EXCEPT ![k] = @ + 1]

\* close_for_principal_credential takes out the sessions of one key.
RevokeCredential(c) ==
    /\ pc[c] = "revoke"
    /\ BumpCredential(arg[c])
    /\ LET doomed == {o \in sessions : KeyOf(o) = arg[c]}
       IN  TakeOut(doomed) /\ todo' = [todo EXCEPT ![c] = doomed]
    /\ Miss({o \in Unticketed : KeyOf(o) = arg[c]}, "deletion")
    /\ Goto(c, "drain")
    /\ UNCHANGED <<authVars, vaultVars, generation, target, gen_ticket, cred_ticket, wireVars>>

\* The vault must still be open for the principal the deletion began with.
Erase(c) ==
    /\ pc[c] = "erase"
    /\ stored' = IF openFor = arg[c][1] THEN stored \ {arg[c]} ELSE stored
    /\ gate' = "idle"
    /\ Finish(c)
    /\ UNCHANGED <<authVars, openFor, mapVars, openVars, wireVars, todo>>

----------------------------------------------------------------------------
(* Open: perform_local_ssh_open_with_driver and open_session.              *)

\* prepare_local_ssh_open: one snapshot of the session names the target.
Prepare(o, credential) ==
    /\ pc[o] = "ready"
    /\ session # None
    /\ target' = [target EXCEPT ![o] =
                    [principal |-> session, epoch |-> epoch, credential |-> credential]]
    /\ pc' = [pc EXCEPT ![o] = "lease"]
    /\ job' = [job EXCEPT ![o] = "open"]
    /\ UNCHANGED <<authVars, vaultVars, mapVars, gen_ticket, cred_ticket, missed, wireVars, arg,
                   todo>>

MutantLeaseDuringSeal == gate # "operating"

\* No operation and no seal is under way: the claim of an operation succeeds.
GateFree == gate = "idle"

\* lease_for_ssh, one vault operation, between two looks at the binding.
Lease(o) ==
    /\ pc[o] = "lease"
    /\ \/ Bound(o) /\ ForeignVault /\ Goto(o, "claim") /\ UNCHANGED gate
       \/ Bound(o) /\ ~ForeignVault /\ IdleSeal(o)
       \/ /\ Bound(o) /\ GateFree
          /\ openFor = target[o].principal /\ KeyOf(o) \in stored
          /\ Goto(o, "tickets")
          /\ UNCHANGED gate
       \/ /\ \/ ~Bound(o) \/ ~GateFree
             \/ openFor # target[o].principal \/ KeyOf(o) \notin stored
          /\ Finish(o)
          /\ UNCHANGED gate
    /\ UNCHANGED <<authVars, openFor, stored, mapVars, openVars, wireVars, todo>>

\* open_session reads both tickets under the mutex, after the lease.
TakeTickets(o) ==
    /\ pc[o] = "tickets"
    /\ IF Bound(o)
       THEN /\ gen_ticket' = [gen_ticket EXCEPT ![o] = generation]
            /\ cred_ticket' = [cred_ticket EXCEPT ![o] = cred_epoch[KeyOf(o)]]
            /\ Goto(o, "connect")
       ELSE Finish(o) /\ UNCHANGED <<gen_ticket, cred_ticket>>
    /\ UNCHANGED <<authVars, vaultVars, mapVars, target, missed, wireVars, todo>>

\* RusshLeaseConnector::connect, outside every lock; the peer may refuse.
Connect(o) ==
    /\ pc[o] = "connect"
    /\ \/ transport' = [transport EXCEPT ![o] = "live"] /\ Goto(o, "check")
       \/ UNCHANGED transport /\ Finish(o)
    /\ UNCHANGED <<authVars, vaultVars, mapVars, openVars, closes, dead, sink, told,
                   helpers, todo>>

\* The open call fails after its connect succeeded.
CloseRejected(o) == CloseTransport(o)

\* A stale binding closes the transport that was just connected.
CheckConnected(o) ==
    /\ pc[o] = "check"
    /\ IF Bound(o)
       THEN Goto(o, "register") /\ UNCHANGED <<transport, closes>>
       ELSE CloseRejected(o) /\ Finish(o)
    /\ UNCHANGED <<authVars, vaultVars, mapVars, openVars, dead, sink, told, helpers, todo>>

MutantIgnoreGeneration(o) == cred_epoch[KeyOf(o)] = cred_ticket[o]

\* The tickets an open call took are still the current ones.
TicketsCurrent(o) ==
    /\ generation = gen_ticket[o]
    /\ cred_epoch[KeyOf(o)] = cred_ticket[o]

\* Insert under the mutex; a raised barrier or no free id closes the transport.
Register(o) ==
    /\ pc[o] = "register"
    /\ \/ /\ TicketsCurrent(o)
          /\ sessions' = sessions \cup {o}
          /\ Goto(o, "bind")
          /\ UNCHANGED <<transport, closes>>
       \/ CloseRejected(o) /\ Finish(o) /\ UNCHANGED sessions
    /\ UNCHANGED <<authVars, vaultVars, generation, cred_epoch, openVars, dead, sink, told,
                   helpers, todo>>

\* IpcTerminalSink::bind.  A terminal that ended or overflowed before, or an
\* event that cannot be delivered, takes the session out again.
BindSink(o) ==
    /\ pc[o] = "bind"
    /\ \/ /\ sink[o] = "pending"
          /\ sink' = [sink EXCEPT ![o] = "bound"]
          /\ UNCHANGED <<sessions, dead, helpers>>
       \/ /\ \/ sink[o] = "ending" /\ sink' = [sink EXCEPT ![o] = "bound"]
             \/ sink' = [sink EXCEPT ![o] = "failed"]
          /\ RemoveEnded(o)
    /\ Finish(o)
    /\ UNCHANGED <<authVars, vaultVars, generation, cred_epoch, openVars, transport, closes,
                   told, todo>>

----------------------------------------------------------------------------
(* The transport's actor and the sink it reports to.                       *)

\* EOF, exit status or a dropped connection.
PeerEnds(o) ==
    /\ transport[o] = "live"
    /\ transport' = [transport EXCEPT ![o] = "ended"]
    /\ UNCHANGED <<authVars, vaultVars, mapVars, openVars, closes, dead, sink, told,
                   helpers, callVars, todo>>

MutantDropLateClosed(o) == UNCHANGED <<sessions, dead, helpers>>

\* Closed on a bound sink runs the transport-ended handler.
OnClosedWhenBound(o) == RemoveEnded(o)

\* emit_closed_once: the actor hands Closed to the sink as it stops.  It may find the
\* pending queue full, or fail to deliver.
TellSink(o) ==
    /\ transport[o] \in {"ended", "closed"}
    /\ o \notin told
    /\ told' = told \cup {o}
    /\ \/ /\ sink[o] = "pending"
          /\ \E phase \in {"ending", "failed"} : sink' = [sink EXCEPT ![o] = phase]
          /\ UNCHANGED <<sessions, dead, helpers>>
       \/ /\ sink[o] = "bound"
          /\ \E phase \in {"bound", "failed"} : sink' = [sink EXCEPT ![o] = phase]
          /\ OnClosedWhenBound(o)
       \/ sink[o] = "failed" /\ UNCHANGED <<sessions, dead, helpers, sink>>
    /\ UNCHANGED <<authVars, vaultVars, generation, cred_epoch, openVars, transport, closes,
                   callVars, todo>>

\* Output that overflows the pending queue, or that cannot be delivered.
SinkFails(o) ==
    /\ transport[o] = "live"
    /\ sink[o] \in {"pending", "bound"}
    /\ sink' = [sink EXCEPT ![o] = "failed"]
    /\ IF sink[o] = "bound" THEN RemoveEnded(o) ELSE UNCHANGED <<sessions, dead, helpers>>
    /\ UNCHANGED <<authVars, vaultVars, generation, cred_epoch, openVars, transport, closes,
                   told, callVars, todo>>

----------------------------------------------------------------------------
(* close, write and resize.                                                *)

\* Take the session out of the map, if it is still there, and close it.
RemoveAndClose(c, o) ==
    IF o \in sessions
    THEN /\ TakeOut({o})
         /\ todo' = [todo EXCEPT ![c] = {o}]
         /\ pc' = [pc EXCEPT ![c] = "drain"]
         /\ job' = [job EXCEPT ![c] = "close"]
         /\ arg' = [arg EXCEPT ![c] = None]
    ELSE Finish(c) /\ UNCHANGED <<sessions, todo>>

\* close is a silent success for an unknown id and for a stale binding.
CloseSession(c, o) ==
    /\ pc[c] = "ready"
    /\ IF o \in sessions /\ Bound(o)
       THEN RemoveAndClose(c, o)
       ELSE UNCHANGED <<sessions, callVars, todo>>
    /\ UNCHANGED <<authVars, vaultVars, generation, cred_epoch, openVars, wireVars>>

\* write and resize begin: lookup_slot clones the slot, which may leave the map
\* before it is used.
LookupSlot(c, o) ==
    /\ o \in sessions
    /\ Begin(c, "write", "check_before", o)

\* io_with_revalidation looks at the slot before and after the I/O.
RevalidateIo(c) ==
    /\ pc[c] \in {"check_before", "check_after"}
    /\ IF dead[arg[c]] \/ ~Bound(arg[c])
       THEN RemoveAndClose(c, arg[c])
       ELSE /\ IF pc[c] = "check_before" THEN Goto(c, "check_after") ELSE Finish(c)
            /\ UNCHANGED <<sessions, todo>>
    /\ UNCHANGED <<authVars, vaultVars, generation, cred_epoch, openVars, wireVars>>

----------------------------------------------------------------------------
Start ==
    \/ \E p \in Principals : Login(p)
    \/ Unlock
    \/ \E o \in Openers, k \in Credentials : Prepare(o, k)
    \/ \E c \in Callers :
          \/ BeginLock(c) \/ BeginCutoff(c)
          \/ \E k \in Credentials : BeginDelete(c, k)
          \/ \E o \in Openers : CloseSession(c, o) \/ LookupSlot(c, o)

OpenStep(o) ==
    Lease(o) \/ TakeTickets(o) \/ Connect(o) \/ CheckConnected(o) \/ Register(o) \/ BindSink(o)

LockStep(t) == CloseAll(t) \/ CloseSlot(t) \/ ClaimSealing(t) \/ Seal(t)

CallerStep(c) ==
    \/ ClearNative(c) \/ Delete(c) \/ RevokeCredential(c) \/ Erase(c)
    \/ RevalidateIo(c)

\* What the wire and the user do, which nobody can be relied on to do.
Disturb == \E o \in Openers : PeerEnds(o) \/ SinkFails(o)

Next ==
    \/ Start
    \/ Disturb
    \/ \E t \in Threads : LockStep(t)
    \/ \E o \in Openers : OpenStep(o) \/ TellSink(o) \/ HelperCloses(o)
    \/ \E c \in Callers : CallerStep(c)

Spec == Init /\ [][Next]_vars

\* A thread that is not blocked runs on, the actor's and the helper's too.
FairSpec ==
    /\ Spec
    /\ \A o \in Openers : /\ WF_vars(LockStep(o) \/ OpenStep(o))
                          /\ WF_vars(TellSink(o)) /\ WF_vars(HelperCloses(o))
    /\ \A c \in Callers : WF_vars(LockStep(c) \/ CallerStep(c))
----------------------------------------------------------------------------
(* Properties.                                                             *)

\* Every variable stays in its domain.
TypeOK ==
    /\ session \in Principals \cup {None} /\ epoch \in Nat
    /\ gate \in {"idle", "operating", "sealing"}
    /\ openFor \in Principals \cup {None} /\ stored \subseteq Keys
    /\ generation \in Nat /\ cred_epoch \in [Keys -> Nat] /\ sessions \subseteq Openers
    /\ target \in [Openers -> Targets \cup {None}]
    /\ gen_ticket \in [Openers -> Nat] /\ cred_ticket \in [Openers -> Nat]
    /\ missed \in [Openers -> SUBSET {"lock", "deletion"}]
    /\ transport \in [Openers -> {"none", "live", "ended", "closed"}]
    /\ closes \in [Openers -> Nat] /\ dead \in [Openers -> BOOLEAN]
    /\ sink \in [Openers -> {"pending", "ending", "bound", "failed"}]
    /\ told \subseteq Openers /\ helpers \subseteq Openers
    /\ job \in [Threads -> Jobs]
    /\ arg \in [Threads -> Openers \cup Keys \cup {None}]
    /\ todo \in [Threads -> SUBSET Openers]
    /\ pc \in [Threads -> Points]

\* No close_all and no deletion of its credential since o read its tickets.
Fresh(o) == gen_ticket[o] = generation /\ cred_ticket[o] = cred_epoch[KeyOf(o)]

\* The generation barrier: a registered terminal read its tickets after the last
\* close_all and after the last deletion of its credential, however long its
\* connect took and whatever ran while it was connecting.
NoSessionBehindBarrier ==
    \A o \in sessions : Fresh(o)

\* A terminal runs on a key of the open vault unless the vault was locked between the
\* lease of the key and the tickets; and on a key that the vault still has unless it was
\* deleted there.  Those two windows are the only way past a lock and past a deletion.
LeaseStands ==
    \A o \in sessions :
        /\ "lock" \notin missed[o] => openFor = target[o].principal
        /\ "deletion" \notin missed[o] => KeyOf(o) \in stored

\* What is registered is as new as its tickets say, and its key as good as its lease.
RegisteredIsCurrent == NoSessionBehindBarrier /\ LeaseStands

\* Open calls between their tickets and the insert, with tickets still current.
Admitted == {o \in Openers : pc[o] \in {"connect", "check", "register"} /\ Fresh(o)}

\* A revocation reaches the open calls under way: at the end of close_all nobody is
\* registered and nobody that connects can be any more; at the end of
\* close_for_principal_credential the same holds of one key.
RevocationReachesConnecting ==
    [][\A t \in Threads :
         /\ pc[t] \in {"first_close_all", "close_all"} /\ pc'[t] # pc[t]
                => Admitted' = {} /\ sessions' = {}
         /\ pc[t] = "revoke" /\ pc'[t] # pc[t]
                => \A o \in Admitted' \cup sessions' : KeyOf(o)' # arg[t]]_vars

Barrier == INSTANCE SessionBarrier
    WITH Opens <- Openers, Keys <- Keys,
         admitted <- {<<o, KeyOf(o)>> : o \in Admitted},
         registered <- {<<o, KeyOf(o)>> : o \in sessions}

\* The registry implements the barrier: tickets compared at the insert act as if
\* each revocation reached the open calls under way.
ImplementsBarrier == Barrier!Spec

\* Who is going to close the transport of o, or keeps it registered.
Owners(o) ==
    {<<"open", x>> : x \in {y \in {o} : pc[y] \in {"check", "register"}}}
    \cup {<<"registry", x>> : x \in sessions \cap {o}}
    \cup {<<"helper", x>> : x \in helpers \cap {o}}
    \cup {<<"drain", t>> : t \in {t \in Threads : o \in todo[t]}}

\* No transport leaks and none is closed twice: until it is closed exactly one
\* party answers for it (the open call, the registry, a drain or the helper
\* thread), and close() runs once whoever raced for it.
OneCloserPerTransport ==
    \A o \in Openers :
        /\ transport[o] \in {"live", "ended"} => Cardinality(Owners(o)) = 1 /\ closes[o] = 0
        /\ transport[o] = "closed" => Owners(o) = {} /\ closes[o] = 1

\* A transport that nobody uses any more: it ended by itself or by a close, before, during
\* or after the bind of its sink, or its open call is over and it is not registered.
Over(o) ==
    \/ transport[o] \in {"ended", "closed"}
    \/ transport[o] = "live" /\ o \notin sessions /\ pc[o] = "done"

\* No terminal stays registered that has ended, and no transport stays open that nobody
\* holds.
TransportsEnd == \A o \in Openers : Over(o) ~> transport[o] = "closed" /\ o \notin sessions

\* Nobody is on the way to close anything.
Quiet == helpers = {} /\ \A t \in Threads : pc[t] \in {"ready", "done"}

\* The lifecycle sink closes the terminals before the vault is sealed: when nothing is
\* in progress, no terminal runs on a key of a vault that is locked.
LockedVaultHasNoTerminal == Quiet /\ openFor = None => sessions = {}

\* An identity change closes terminals: when nothing is in progress, no terminal
\* belongs to somebody other than the principal signed in.
NoForeignTerminal ==
    Quiet /\ session # None => \A o \in sessions : target[o].principal = session
============================================================================
