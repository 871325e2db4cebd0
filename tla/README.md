# Opsmate desktop: a TLA+ model of the native client

This directory holds TLA+ modules that model the native half of the Opsmate
desktop client (`apps/desktop/src-tauri`) and the terminal of its WebView
(`apps/admin`), the TLC configurations that check
them on small instances, and theorems about them with proofs for TLAPS. Paths
below are relative to `apps/desktop/src-tauri/src/` unless they start with a
directory of the repository root.

| to do | command |
|---|---|
| parse a module | `tlasany M.tla` |
| run a configuration | `tlc -workers 2 -config X.cfg M` |
| check the proofs of a module | `tlapm M.tla` |

`PROJECT.json` lists the runs, the mutants each property is tested with, the
source lines every definition stands for, the hazards and the theorems.

## 1. The system

Opsmate is a desktop client for SSH terminals, local and through a cloud
service. The release sources are `apps/admin` (the web interface) and
`apps/desktop` (Tauri: a WebView and a native process in Rust). Keys, sessions
and sockets stay in the native process; the WebView gets ids and bytes.

| component | state it keeps | operations | how it interacts | what makes it correct |
|---|---|---|---|---|
| Vault lifecycle gate (`vault.rs`) | gate kind, operating owner, waiting sealers, sealed/open vault, idle stamp, two files | init, unlock, an operation (import, list, delete, lease), lock, reset, idle tick | called by commands on the main thread, SSH opens and uploads on pool threads, the watchdog, OS notifications; calls the lifecycle sink while sealing | operations and seals exclude one another, no lost wake-up, an operation's vault stays open and its own, a requested seal happens |
| Local SSH registry (`ssh_registry.rs`) | sessions, generation, credential epochs, per-slot `dead`/`close_invoked` | open, close, close_all, close_for_principal_credential, write, resize, transport-ended handler | called by IPC commands, by the lifecycle sink under the sealing claim, by deletions under the operating claim, by transport actors | a revocation reaches what is connecting, one closer per transport, an ended session leaves |
| SSH open orchestration and terminal sink (`ssh_ipc.rs`) | per open call: target, phase of the sink and its queue | prepare, lease, connect and register, bind | vault, registry, transport actor, WebView events | output in order, `Closed` once and last, no terminal outlives its sink |
| SSH transport actor (`ssh_transport.rs`) | command queue, budgets, closed flag | connect, write, resize, close, join | registry, sink, russh | bounded queue, fair between input and output, close ends it |
| Host keys and preparation (`ssh_session.rs`) | trusted keys, per principal and server | prepare, decide, prompt, write | transport connect, native prompt | never trusts a changed key, never forgets one it trusted |
| Authentication store (`auth.rs`) | session with its epoch, the pending login, the states used | begin login, deep link, exchange, clear, binding check | everything captures (principal, epoch) and checks it later | a stale callback never replaces a newer session |
| Security cutoff (`security_cutoff.rs`, `vault_lifecycle.rs`, `lib.rs`) | a counter of SSH closings | logout, 401/403, lock, sleep, exit | cloud proxy, registry, cloud terminals, vault, auth store, in this order | after it nothing of the old identity runs |
| Cloud proxy (`cloud_proxy/`) | watermark of cancelled epochs, a watch channel that announces it | request, cancel, 401, 403 | auth store, cutoff | an answer for an old epoch is never delivered as success |
| Cloud terminals (`cloud_terminal.rs`) | open handshakes, sessions, socket actors | open, write, resize, close, close_all | cloud proxy (token), cutoff | close_all reaches handshakes under way |
| Cloud custody upload (`upload.rs`) | none of its own | confirm, lease, revalidate, request | vault, proxy, prompt | a key leaves only for the identity that confirmed it |
| Native prompts (`secure_prompt.rs`) | none | ask | operating system | - |
| Vault contents (`vault.rs`) | secrets, their index, the snapshot and the salt file | init, unlock, import, delete, lease, list, save, reset | the gate lets one at a time in; leases go to SSH opens and uploads | what was acknowledged is there, what failed is one of two things, a snapshot can be opened |
| WebView bridge (`apps/admin/src/desktop`, `hooks/useServerTerminal.ts`) | the effect that runs, its handle, the early events of an open | mount, open, listen, deliver, dispose | native commands and events | no output lost between listen and answer, no session without its page |
| Web interface (`apps/admin`) | React views | - | cloud API through the proxy | - |
| Earlier client (root `src/`, `src-tauri/`) | - | - | - | not in the release |

What is hard in this code, and where it bites, is the list `hazards` of
`PROJECT.json`. The main ones:

* **State read before a wait and used after it.** An open call captures the
  identity, the generation and the credential epoch, then connects for seconds
  outside every lock. Locks, cutoffs, deletions and logins run meanwhile.
* **Two levels of locks.** The gate's mutex and condvar and the mutex `inner` are
  taken in different orders by different handlers; seals wait for operations.
* **Several parties that may close one transport**: the failing open call,
  `close`, `close_all`, a deletion, I/O that finds a stale slot, the
  transport-ended handler and its helper thread.
* **Steps that fail in the middle**: a reset that removes one of two files, a
  bind that fails after the registration, an import whose save fails, a host key
  that is pinned in the cloud and not recorded on disk.
* **Somebody is asked meanwhile**: host key and upload dialogs stay open while
  sessions change, vaults lock and other clients write.
* **Answers and events cross**: output before the acknowledgement of its open,
  in the native cloud terminal and again in the WebView.

## 2. Modules

| module | models | status |
|---|---|---|
| `SealProtocol` | what the gate promises, abstractly: holders of an operation, at most one sealer, a vault that opens in an operation and closes in a seal | abstract specification |
| `VaultGate` | `vault.rs`: the gate, the lifecycle handlers, the threads that run them | checked, proved |
| `MCVaultGate` | small instance and symmetry for TLC | |
| `VaultGateProofs` | the theorems about `VaultGate` | proved |
| `SessionBarrier` | what the registry's tickets promise, abstractly: a revocation reaches every open call at once | abstract specification |
| `SshSessions` | `ssh_registry.rs`, the open call of `ssh_ipc.rs`, the teardowns of `security_cutoff.rs` and `lib.rs` that race with it | checked, proved |
| `MCSshSessions` | small instance and symmetry for TLC | |
| `SshSessionsProofs` | the theorems about `SshSessions` | proved |
| `OutputChannel` | what a terminal's output path promises the window: a bounded FIFO channel that ends with `Closed` | abstract specification |
| `IpcTerminalSink` | the sink of `ssh_ipc.rs` with the two threads that emit through it: the transport's actor and the open call's `bind` | checked, proved |
| `MCIpcTerminalSink` | instance for TLC | |
| `IpcTerminalSinkProofs` | the theorems about `IpcTerminalSink`, and about `TerminalView` at the other end of the output path | proved |
| `CloudSession` | `auth.rs`, the requests of `cloud_proxy/mod.rs`, the teardowns' effect on both | checked, proved |
| `MCCloudSession` | instance for TLC | |
| `CloudSessionProofs` | the theorems about `CloudSession` | proved |
| `CloudTerminal` | `cloud_terminal.rs`: the cloud open call, its I/O thread, the cloud registry; implements `SessionBarrier` too | checked, proved |
| `CloudTerminalProofs` | the theorems about `CloudTerminal` | proved |
| `SshTransport` | `ssh_transport.rs`: the actor of one local terminal, its setup, command queue and end | checked, proved |
| `HostKeyPolicy` | `ssh_session.rs`: which host key an open call accepts, and where it is written | checked, proved |
| `HostKeyPolicyProofs` | the theorems about `HostKeyPolicy`, and about `SshTransport`, whose actor asks the policy | proved |
| `KeyShelf` | what the vault promises of the keys it was given, abstractly, over locks, crashes and failures | abstract specification |
| `VaultStore` | `vault.rs`: secrets, index, snapshot and salt, with every step failing and the process stopping; implements `KeyShelf` | checked, proved |
| `VaultStoreProofs` | the theorems about `VaultStore` | proved |
| `CloudCustody` | `upload.rs`: upload and deletion of a key in the cloud, composed with `KeyShelf` | checked, proved |
| `CloudCustodyProofs` | the theorems about `CloudCustody` | proved |
| `TerminalView` | `useServerTerminal.ts` and `local-ssh-bridge.ts`: the page's terminal and its session | checked, proved |
| `MCCloudTerminal`, `MCSshTransport`, `MCHostKeyPolicy`, `MCVaultStore`, `MCCloudCustody`, `MCTerminalView` | instances for TLC | |

### 2.1 VaultGate

A step is what a thread does between two acquisitions of a lock that another
thread can hold. `pc[t]` is the place in the handler, `job[t]` the handler,
`who[t]` and `bound[t]` the principal and the auth epoch it captured at its start.

* `kind`, `owner`, `seal_waiters`, `parked`: `GateState` and the threads asleep on
  its condvar. `ClaimSealing`, `TryClaimSealing`, `EnterOp`'s claim, and the two
  guards' `drop` are the actions on them.
* `holder`, `openFor`, `idle`: the mutex `inner`, when it stays locked across steps,
  the vault it protects, and whether its idle timeout has elapsed.
* `files`: the snapshot and the salt file, removed one at a time by a reset.
* `session`, `epoch`: the authentication state the handlers read. A login is a step
  on the main thread, a cutoff is a handler (`claim` ... `clear`).
* `overtaken`: a history variable, read by no guard. The unlock that opened the vault
  assigned after a cutoff had sealed or had cleared the session (`CutoffPastSeal`).

Three pools of threads: `Main` runs synchronous commands and OS notifications one
at a time, `Watchdog` polls the idle timeout, `Workers` run leases (SSH opens,
uploads) and the cutoffs of cloud requests. What an operation does inside the
vault is left out, except that it checks the owner and refreshes the stamp.

`SealProtocol` is what callers rely on. `VaultGate` implements it under
`holders`, `sealer` and `openFor` read off the detailed state.

### 2.2 SshSessions

Each element of `Openers` is one open call and at the same time the session id it
may register; each element of `Callers` is a thread that runs the other commands.

* `generation`, `cred_epoch`, `sessions`: `RegistryInner`, read and written only under
  its mutex, so each critical section is one action (`CloseAll`,
  `RevokeCredential`, `TakeTickets`, `Register`, `RemoveAndClose`).
* `target`, `gen_ticket`, `cred_ticket`: what an open call captured, and when:
  `Prepare` (the identity), `Lease` (the key), `TakeTickets`, `Connect`,
  `CheckConnected`, `Register`, `BindSink`, in the order of the code.
* `missed[o]`: a history variable, read by no guard: the revocations (`"lock"`, `"deletion"`)
  that fell between the lease of the key and the tickets of `o`, which the tickets cannot show.
* `todo[t]`: the slots a thread took out of the map and closes afterwards, outside
  the mutex, one per step (`CloseSlot`).
* `transport`, `closes`, `dead`, `sink`, `told`, `helpers`: the transport, how often
  `close()` was called on it, the slot's flags, the phase of its sink, whether the
  actor reported its end, and the helper thread that closes an ended transport.

The vault appears as the promise `VaultGateProofs` proves of it: operations and
seals exclude one another, the vault opens in an operation and closes in a seal.
A claim the code waits for is a guard.

Abstractions, each of them deliberate:

* `dead` stands for `dead` and `close_invoked`, which the code sets together in every
  path but the poisoned ones. Poisoned mutexes are left out: a panic inside a
  critical section is not modelled.
* Output does not appear. A sink overflows or fails to deliver nondeterministically.
* `bind` is one step here. Its loop, which pops under the lock and emits outside it,
  is in `IpcTerminalSink`, which in turn sees the registry as one session.
* The cutoff's cloud part is not a step here: `CloudSession` has the requests,
  `CloudTerminal` the cloud terminals.
* The vault is filled at the start; a credential that is deleted stays away.
* `BeginReset` and the second file check belong to `VaultGate` alone.

`SessionBarrier` is the registry as its callers would like to think of it: open
calls are admitted, and a revocation removes from the admitted and the
registered at once. The implementation has no list of calls that connect: it
compares two tickets at the insert. `ImplementsBarrier` says that this is the same.

### 2.3 IpcTerminalSink

One terminal from the connect to its end. `actor` and `opener` are the program
points of the two threads; a step lies between two acquisitions of the phase
lock, so a chunk that a thread took out and has not emitted is state (`popped` of
the binder, `from_peer` of the actor).

* `phase`, `queue`, `flush`, `deferred`, `saw_closed`: `SinkPhase`. The flag `failed` of
  `Pending` is never seen set, because the statement after it replaces the phase;
  both are the phase `failed`.
* `closed_emitted`, `ended_once`: the two atomics; their `swap` belongs to the step that
  makes it.
* `BeginBind`, `Pop`, `BinderEmits`, `BinderEnds`: `bind`; `Register` before it and
  `Remove` after it are the open call around it. `OnOutput`, `ActorEmits`, `ActorEnds`:
  `on_output`, called by `ReceiveData` and `ReceiveEnd`, the loop of the transport.
* `TakeOut`, `CloseTransport`: whoever else closes the session (`close`, `close_all`, a
  deletion, stale I/O), at any time. `cancelled` is what the actor sees of it.
* `produced`, `emitted`: histories, read by no action. Chunks are numbered as the peer
  sends them and `Closed` is 0, so a lost, repeated or overtaken chunk shows.

A failed emission and the `mark_failed` after it are one step: a chunk that the
other thread queues in between is dropped by `mark_failed`, as it is when it comes
after. What the events contain, and that they go only to the main window, is
left out.

`OutputChannel` is a queue that is shown from its head and may break. The backlog
is read off the detailed state in the order of the way: the binder's chunk,
`flush`, `deferred`, `queue`, the actor's chunk.

### 2.4 CloudSession

The session, the logins that make it, and the requests that use it. A login attempt
is its PKCE state, drawn afresh each time and so a number that grows; a session is
known by the attempt it came from.

* `pending`, `used`, `session`, `epoch`: `AuthMemory`, one critical section per action.
* `main`, `taken`: the main thread, which runs the synchronous commands and the deep
  links one at a time and waits inside them for the configuration, the exchange, the
  closing of the terminals and the seal. `BeginLogin` and `OpenBrowser` are
  `perform_begin_logto`, `CallbackCode`, `CallbackError` and `Exchange` are
  `perform_handle_deep_link`, `BeginTeardown`, `EndTeardown` and `Relogin` are `auth_logout`
  and `auth_on_unauthorized`.
* `watermark`, `changed`: `cancelled_through` and, for each request, whether the watch
  channel changed since its receiver looked. `Raise` and `Notify` are the two statements
  of `cancel_auth_epoch`; `Subscribe`, `Look`, `Await` and `Wake` are `cancelled()`.
* `stage`, `sent`, `status`, `target`: one task per request. `Start`, `Send`, `Answer`,
  `CheckBinding`, `Recheck` are `execute_allowlisted` in its order; `Denied` is what
  `fetch_ws_token` does with a 403; `Clear` is the end of the cutoff.
* `dead`, `arrived`, `delivered`: histories, read by no action.

Abstractions: the cutoff closes terminals and seals the vault between `Notify` and
`Clear`, which is time that passes here and the subject of `SshSessions` and
`VaultGate`. The principal is not compared besides the epoch: every installed session
has an epoch of its own. `reauth_required` is a flag for the display. The answer to any
request but a terminal token's counts as "other", a 403 included.
`cancel_inflight` has no caller outside the tests and is left out, which is what
`CloudSessionLogout` is about.

### 2.5 CloudTerminal

One session id per open call; `pc` is the open call's place, `io` the writer half of its
I/O thread, `callback` the reader half inside `on_event`.

* `token`, `snap`, `gen_ticket`: what the open call captured and when: the prefetched token,
  the auth snapshot, the registry's generation. `Register` compares the ticket, as
  the local registry does.
* `holder`, `pending`, `flushing`, `overflowed`: the id the callback waits for, the queue it fills
  until then, what the open call drained from it and has not shown.
* `closed_emitted`, `dead`, `commands`: who saw the end, and the bounded command channel;
  `Close` is sent with `try_send` and is lost when the channel is full. The senders are
  dropped with the slot, which ends the thread all the same (`UnregisteredIoEnds`).
* `todo`: slots a caller took out and closes outside the mutex.

The cloud registry implements the same `SessionBarrier` as the local one, with a single
key: it has no revocation of one credential.

### 2.6 SshTransport

`actor` is the actor's place: the stages of the setup, then the loop. `clock` is 0, past
the setup deadline, or past the grace of the open call that waits (`parent`). The host key
callback (`dialog`) runs on the actor's own thread, where neither deadline nor cancel is
looked at. `queue`, `current`, `reply` are the command channel; `inbox` is what the peer sent;
`burst` is the counter of `FairIoScheduler`, saturated; `cancelled` and `closed` the two flags of
`close`. `closes` and `disconnects` count what the actor did to the backend, `waited` how many peer
messages went ahead of a waiting command.

Left out: the branch for a command channel whose last sender is gone, which needs the
`ActorSshTransport` dropped, and its drop cancels first; byte budgets inside one command.

### 2.7 HostKeyPolicy

One server, several open calls that can be tried again for ever. An open call reads the
pin from the cloud (`fetch`), later is presented a key (`connect`), and compares, or asks
(`dialog`), pins in the cloud (a write that the cloud refuses if the pin is set) and
records on disk. Each write can fail before or after it was done. `ChangeSession` is any
login or logout, `Rotate` another client that changes the pin. `held` and `lapsed` are histories:
what the cloud held since the call read it, and whether the session ended under the
dialog. Of several checks of the session with nothing between them the last one stands
for all.

### 2.8 VaultStore and KeyShelf

`VaultGate` shows that one handler is inside the vault at a time; so here an operation is
one step that says how far it got: the secret, the index, the save. Initialisation and
reset are several steps, because the process can stop between two files (`Crash`).

* `memory`, `snapshot`: contents (secrets, index, salt of the key) in memory and on disk; a save
  replaces the snapshot whole, as the Stronghold library writes a file of its own and
  renames it. `SealVault` ignores a save that fails, as the code does.
* `salt`: the salt file, which a failing write can leave cut short.
* `may`: history, what each slot may hold after the answers given so far.

`KeyShelf` is the vault as a user thinks of it: an acknowledged import or deletion is what
every later lease finds, after locks and crashes too; a change reported as failed may or
may not have happened. `VaultStore` implements it, with a lease of each slot as `offered`.

The index is what `list_meta` reads; it fails for the whole list on an entry without a
secret. `StoreConsistent` says that only a slot whose last change was reported as failed
can be in such a state. Only a new import or a reset repairs it: a repeated deletion
answers that there is nothing to delete.

### 2.9 CloudCustody

EXTENDS `KeyShelf`: the vault does whatever it promises it may. `pc` and `req` are the requests'
places and locals: metadata, dialog, lease, intent, consumption, each followed by a
check of the session (`Proceed`). `OtherClient` changes the cloud; `Consume` can do its work and
have its answer lost. The cloud does at most what the intent names: the client sends
the fingerprint with both calls for that. `held` is a history: the keys the vault offered
for the slot since the user agreed.

### 2.10 TerminalView

JavaScript runs one task at a time, so a step is what runs between two waits for the
native client. The effects of the hook are numbered; `mounted` says whether the cleanup
of the last one has run, which is what `disposed` and the abort signal are. `bridge[e]` are the
locals of `openNativeTerminalSession`, `handle_ref` and `ready` the ref and the state that successive
effects share.

Events (`wire`) reach every listener in the order of their emission; the answer of an open
command comes on a way of its own. Until it comes, a listener queues the events of
every session, which is why output of another terminal can overflow it.

`native[e]` is the session in the native client: registered, emitting, gone; a session
of an earlier sign-in ignores the close command and is closed by the next write.
`openLocal` and `openDesktopCloud` take the same path. The terminal of xterm may throw, which ends
the handle without a word to the hook. The byte caps of the early queue are its count
here. The task between `bound` and the hook's continuation is one in JavaScript; the
model lets the page be left there, as the hook's own check provides for.

## 3. Runs

| run | instance | states | shows |
|---|---|---|---|
| `VaultGate` | main thread, watchdog, 1 worker, 2 principals, 3 epochs | 175 000 | type, the gate is sound, no vault stays open without a session but by an overtaken unlock, no other deadlock than re-entry, implements `SealProtocol`, a requested seal happens |
| `VaultGateReentry` | 2 workers, 1 principal, 2 epochs | violated | see findings |
| `SshSessions` | 2 open calls, 1 caller, 1 login, 1 close_all, 1 deletion | 525 000 | what is registered is past every barrier and its lease stands, one closer per transport, revocations reach open calls, implements `SessionBarrier`, ended and unregistered transports go |
| `IpcTerminalSinkSafety` | queue of 3, up to 7 chunks | 3 658 | the queues stay bounded, a registered session has a live sink, implements `OutputChannel` |
| `CloudSessionCutoff` | 2 requests, 2 logins, teardowns up to epoch 3 | 400 000 | no stale answer, a cancelled session goes, no stale callback signs in, a cancelled request ends |
| `CloudTerminal` | 1 open call, 2 callers, queues of 1, 2 epochs | 629 000 | implements `SessionBarrier`, why a session can outlive its socket, what is closed lets go of its thread |
| `CloudTerminalZombie` | 1 open call, 1 caller | violated | see findings |
| `SshTransport` | 2 writers, 2 closers, queue of 1, burst of 2 | 212 000 | a command waits for a bounded burst, setup failures clean up exactly, nobody is stuck with a transport |
| `HostKeyPolicy` | 2 open calls, 2 users, 2 keys, 3 session changes, 1 rotation | 845 000 | an accepted key was pinned and is recorded, answers count in their own session, records follow the cloud |
| `VaultStore` | 2 users, 2 credentials, 1 key, 2 salts | 14 000 | what is on disk opens, what is listed is there, implements `KeyShelf` |
| `CloudCustody` | 1 request at a time, 2 users, 2 keys, 3 session changes | 588 000 | consent covers the key that goes out, the cloud changes as agreed |
| `TerminalView` | 2 mounts, 1 chunk and Closed per session, queue of 2, 1 sign-in | 276 000 | own output in order, ready means attached, no session without its page |

Larger instances, run by hand without an error: `SshSessions` with 1.5 million states,
`HostKeyPolicy` with two rotations (3.0 million), `VaultStore` with two keys (1.1 million),
`TerminalView` with two chunks per session and no sign-in (418 000).
Four more configurations are kept beside the runs because they show findings:
`VaultGateStaleUnlock`, `SshSessionsLeaseWindow`, `SshSessionsIdentity`, `CloudSessionLogout`; TLC
violates the one property each of them names.

The type invariant of `SshSessions` is proved (`TypeCorrect`) and left to the proof.

**Bounds.** `MaxEpoch` bounds logins and cutoffs, `MaxGeneration` the calls of
`close_all`, `MaxRevokes` the deletions per credential. They appear only in the
guards of the actions that begin such a handler, so a handler that began always
finishes. Counters are compared with captured values only for equality; what
matters is whether a change happened between capture and check, and whether a
second one happened after, and for that the bounds suffice. In `IpcTerminalSink` a
queue of 3 with 7 chunks fills before the bind, fills again while it is flushed,
overflows in either phase, and leaves chunks for the bound sink. In `CloudSession`
`MaxAttempts` bounds the logins and `MaxEpoch` the teardowns of the main thread; the
cutoffs of requests need a session each and so end by themselves. Three or four threads
give every pair of handlers that race and a third that waits. In `SshTransport` a queue of
one is full while a command is performed and another waits, and a burst of two shows
what a burst of `FAIR_IO_MAX_BURST` does. In `CloudTerminal` one open call meets every other
command; two open calls share nothing but the generation, which `SshSessions` runs with two.
In `CloudCustody` the second request is `OtherClient`, which may do to the cloud whatever another
request may. In `TerminalView` two events of an old session fill the queue of a new one before
its own arrive. The proofs have no bounds on the threads, the principals or the open calls.

**Deadlock.** `VaultGate` says `CHECK_DEADLOCK FALSE`: its guards bound the epochs, and the
re-entry (below) stops the main thread by itself. Its invariant `StuckOnlyByReentry` says
instead exactly which states may be stuck: `BlockedIsDisabled`, a handler is stopped by a lock, by
the condvar or by nothing, and `DeadlockIsReentry`, if all that run are stopped one re-entered
`inner`. The other runs that disable the check do so
because the system may really stop: an open call returns and an actor ends
(`IpcTerminalSinkSafety`, `SshTransport`, `CloudTerminal`), a page is left for good (`TerminalView`), or
the bounds on sign-ins leave nothing to do (`CloudSessionCutoff`, `HostKeyPolicy`). Each configuration says
so. `SshSessions`, `VaultStore` and `CloudCustody` check it.

**Symmetry** is used only in runs without fairness and only over values the modules
compare for equality: users, keys, open calls.

**Fairness.** Weak fairness of each thread's own next step (the steps of one thread, the ones
it shares with others included, are one action): a thread that is not
blocked on a lock, a condvar or a claim is scheduled again by the operating
system. Nothing is assumed of the user, of the peer, or of timeouts:
`Login`, `Begin...`, `IdleElapses`, `PeerEnds` and `SinkFails` have none. The network
connect ends because the transport has a timeout on it, so `Connect` is fair,
with either outcome. There is no strong fairness. In
`CloudSession` a task that can run is scheduled (`Proceed`), and that is all: the main
thread and the backend owe nothing. In `CloudTerminal` every wait of the open call and of the
I/O thread has a timeout in the code, so their steps are fair; the peer's are not. In
`SshTransport` time passes (`Tick`: both deadlines are timers), the actor and the other threads
run on, and the user at the dialog, the peer and the backend owe nothing: a backend call
of the setup ends with its deadline, one of a command with the cancel. In `TerminalView` the
WebView runs its tasks and gets its events, and the native client answers a close and an
open whose session is registered; a connect that waits for a dialog owes nothing.
`HostKeyPolicy`, `VaultStore` and `CloudCustody` state safety only and assume no fairness.

`SealIntentHonoured` needs only this because a waiting sealer blocks new
operations (`seal_waiters`), so operations cannot starve it.

## 4. Findings

Shown by a run:

1. **The vault's mutex is entered twice by one thread**
   (`VaultGateReentry`, `NeverReentersInner`; `vault.rs:672`). `enter_op` finds the
   vault idle under its claim and calls `maybe_idle_seal` while its guard of `inner`
   is alive. The thread waits for itself, and every later vault call for it.
2. **A cloud terminal can outlive its socket in the registry**
   (`CloudTerminalZombie`, `EndedCloudSessionLeaves`; `cloud_terminal.rs:337`). The end is queued
   after the open call drained the queue, or is never reported because the writer gave
   up, or comes after an overflow nobody looks at any more. `LingeringExplained` shows that
   these are all the reasons.

Shown by a configuration kept beside the runs:

3. **Unlock after a cutoff** (`VaultGateStaleUnlock`, `NoVaultWithoutSession`;
   `vault.rs:343`). `unlock_with_password` reads the principal before its claim and
   does not look again; a 401 between leaves an open vault with nobody signed in.
   `THREAT_MODEL.md:42` lists "lock vault" among the effects of a 401. `OpenVaultHasSession`, in
   `GateSound`, shows that this window is the only way to such a vault.
4. **A terminal can open across a lock** (`SshSessionsLeaseWindow`,
   `LockedVaultHasNoTerminal`; `ssh_registry.rs:187`). The tickets are read after the
   lease of the key has returned. A lock in between closes nothing of the open
   call and leaves its tickets current. Nor does a deletion of the key there. `LeaseStands`, in
   `RegisteredIsCurrent`, shows that this window is the only way past a lock or a deletion.
5. **A login over a session closes nothing** (`SshSessionsIdentity`,
   `NoForeignTerminal`; `lib.rs:93`). The README promises a cutoff on an identity
   change; terminals of the previous identity stay until their next write. Leaving the
   page does not close them either: `close` does nothing for a session of another sign-in
   and answers Ok (`ssh_registry.rs:287`). `SessionFollowsView` of `TerminalView` shows that it is
   the only kind that stays.
6. **A logout leaves cloud requests running** (`CloudSessionLogout`,
   `SessionChangeStopsRequests`; `cloud_proxy/mod.rs:91`). The secure runtime design
   (`docs/superpowers/specs/2026-08-07-desktop-web-ui-secure-runtime-design.md:79`) lists
   "stop cloud requests" first among the steps of a session switch; `cancel_inflight`
   exists and is called by tests only. The answer is discarded when it comes
   (`OnlyLiveAnswers`), so no data of the old session is delivered.

Seen while reading, not modelled: the WebSocket of the browser build
(`useServerTerminal.ts:331`). Its `onclose` is not tied to its socket or mount: it can declare the
next terminal not ready, and after a ready timeout it can schedule a second reconnect,
whose socket takes the place of the first, which nobody closes.

## 5. Proofs

Every safety property of a passing run is proved for every value of the constants, except
`BlockedIsDisabled`, the half of `StuckOnlyByReentry` that is about `ENABLED`. Eight modules hold
the proofs; each proof has the same form: an inductive invariant whose parts are each shown to
survive a step from the whole, and from it the properties, step by step.

| module | property | theorem |
|---|---|---|
| `VaultGate` | `GateSound`, `ImplementsSealProtocol`, `DeadlockIsReentry` | `GateIsSound`, `GateImplementsProtocol`, `OnlyReentryDeadlocks` |
| `SshSessions` | `RegisteredIsCurrent`, `OneCloserPerTransport`, `RevocationReachesConnecting`, `ImplementsBarrier` | `RegisteredStaysCurrent`, `OneCloser`, `RevocationReaches`, `RegistryImplementsBarrier` |
| `IpcTerminalSink` | `RegisteredIsLive`, `ImplementsChannel` | `LiveSessionsOnly`, `SinkImplementsChannel` |
| `CloudSession` | `NoCancelMissed`, `CancelledSessionGoes`, `OnlyLiveAnswers`, `SessionFromLiveAttempt` | `NoWakeupLost`, `CancelledSessionsGo`, `AnswersAreLive`, `SessionsFromLiveAttempts` |
| `CloudTerminal` | `LingeringExplained`, `ImplementsBarrier` | `LingeringIsExplained`, `CloudImplementsBarrier` |
| `SshTransport` | `CommandWaitsBounded`, `SetupLeavesNothing` | `CommandWaits`, `SetupIsClean` |
| `HostKeyPolicy` | `AcceptedStands`, `AnswersStayInSession`, `RecordsFollowCloud` | `AcceptedKeysStand`, `AnswersStay`, `RecordsFollow` |
| `VaultStore` | `StoreConsistent`, `ImplementsKeyShelf` | `StoreIsConsistent`, `StoreImplementsShelf` |
| `CloudCustody` | `ConsentCoversKey`, `CloudChangesAsAgreed` | `ConsentCovers`, `ChangesAsAgreed` |
| `TerminalView` | `OwnOutputInOrder`, `ReadyIsAttached` | `OutputInOrder`, `ReadyAttached` |

Each module's `TypeOK` is a theorem too. `NoCancelMissed`, and `NothingLost` and
`OpenVaultHasFiles` below, are proved and not among the properties of a run. Nor are the safety
halves of what the runs check as liveness (`SealIntentIsServed`, `ClaimIsServed`, `QuietIsClean`), and
what holds of a stale binding (`StaleStaysStale`) and of the terminals of findings 4 and 5
(`StraysAreExplained`).

**Assumptions.** The named `ASSUME`s of the modules, which TLC evaluates in every run: names are
distinct and `None` (or `NoFile`) is not one of them, bounds are natural numbers, a queue or a
burst has room for at least one. Nothing is assumed of how many threads, users, keys or open
calls there are. `SshTransport` and `TerminalView` share names with the module beside which
they are proved, so they are instances there (`Actor`, `View`) and their assumptions
are hypotheses of the theorems (`ActorSized`, `ViewSized`), word for word those of the modules.

### VaultGateProofs

`TypeCorrect` and `Invariance` prove one inductive invariant `IndInv`. The safety
properties are not inductive by themselves: that an operation and a seal exclude
each other needs to know that whoever stands at an operation's program point is
the gate's owner, that at most one thread stands at a seal's, and that `kind`
says which; that no wake-up is lost needs to know that a thread is parked only
while somebody holds a claim; the waiter count is the number of threads that
own one, a fact about the cardinality of a set that each claim changes by one.
That a vault without a session was opened by an overtaken unlock (`OnlyOvertakenOutlivesSession`)
needs `SessionInv`: over a vault that was not overtaken there is a session, and no cutoff past its
seal that could still clear it. A cutoff gets there only by closing the vault, and the one step
that opens a vault looks for such a cutoff.
From it follow `GateExclusive`, `NoLostWakeup`, `WaitersCounted`, `OperationsKeepTheirVault` and
`OnlyOvertakenOutlivesSession`, together `GateIsSound` (the run's `GateSound`), then `OpenVaultOnDisk`,
which no run checks because `VaultStore` has the files in more detail, and, step by step, the
refinement `GateImplementsProtocol`.

`OnlyReentryDeadlocks` is a wait-for argument. `inner` stays locked across steps at two points
(`HolderInv`): in front of the assignment of an unlock, which waits for nothing, and at the
re-entry. If all that run are stopped, one of them waits for `inner`: a sleeper on the condvar
waits for a thread inside the gate (`ParkedSealerHasWaker`, `GateInv`), and such a thread can be
stopped by `inner` only. Whoever holds `inner` is stopped too, so not at the assignment. `SealIntentIsServed`
adds that an intent belongs to a thread whose handler is under way: the safety half of `SealIntentHonoured`.

### SshSessionsProofs

`TypeCorrect` carries a second conjunct: an open call past `Prepare` has a target (`TargetInv`),
without which `KeyOf` means nothing. `BarrierHolds` (`NoSessionBehindBarrier`) needs
`BarrierInv`: besides the registered sessions it speaks of tickets that are never
ahead of the counters and of the call that is about to bind. `RevocationReaches`
is an action property: that the step of `CloseAll` and `RevokeCredential` leaves
nobody admitted follows from tickets being at most the old counters.
`RegistryImplementsBarrier` is the simulation: each action is shown to be an
admission, a registration, a drop, a revocation of everything or of one key, or
a stutter of `SessionBarrier`.

`OneCloser` is a count: a transport that is not closed has exactly one owner. `CloserInv`
says it without cardinalities, as four exclusive cases (the open call, the registry, the
helper thread, one thread that drains), and adds what makes it inductive: a transport that
does not exist yet has no owner, one that is marked dead is with the helper or closed, and a thread that
does not drain has nothing to drain (`TodoInv`). Then each action moves the transport from one
case to another, or none (`SteadyCloser`); `OwnersCounted` turns the cases into the
cardinality the run checks.

`RegisteredStaysCurrent` adds to `BarrierHolds` that the lease stands. It needs to know who holds
the vault's gate: exactly one thread if it is not idle, at a point that `gate` allows (`GateInv`).
`LeaseInv` then speaks of every call that has its lease and can still register: if it missed no
lock the vault is open for its principal *and* nobody is between the `close_all` of a seal and that
seal; if it missed no deletion its key is stored and nobody is between the revocation of it and
its erasure. A lease is handed out only over a gate that is free, so none falls into those
intervals; and the revocation that begins such an interval either makes the tickets stale or finds the call
without tickets, and is recorded. `StraysAreExplained` draws from it what holds of the terminals of
findings 4 and 5: one over a locked vault missed a lock, and one of another identity did, or
the vault is still open for that identity and the next operation seals it. `ClaimIsServed` is
`GateInv` again: the gate's holder is never at a point where it waits for the gate.

`StaleStaysStale` rests on `EpochInv`: the epoch of a target names its session, and epochs only grow,
so a login of the same user does not revive a binding. `QuietIsClean` rests on `CloserInv` and on
`SinkInv` (a registered terminal whose open call is over has a bound sink that was not told of
an end): when nobody is under way, no transport is without a holder and no terminal that ended
is registered. Fairness has to add to it only that threads run on.

### IpcTerminalSinkProofs

`Invariance` proves `IInv`, the conjunction of `TypeOK` and five parts that need one
another. `ShapeInv` says which program points and which non-empty queues go with a
phase, so that the two threads never emit at the same time. `ClosedInv` says where
`Closed` may be and which flag knows of it. `FlowInv` is the conservation law: what was
produced is what was emitted followed by what is on its way, in order. `LastInv`
says that `Closed` is produced last; with `FlowInv` it shows that the test on
`closed_emitted` never discards anything. `LiveInv` is `RegisteredIsLive` with what it
needs about `ended_once`.

From them follow `SinkTypeCorrect`, `LiveSessionsOnly`, `NothingIsLost` and
`SinkImplementsChannel`. For the last, `BacklogLemma` computes the backlog of each phase;
then `on_output` appends to it, an emission removes its head, the flip to Binding and
each pop regroup it without a change, and an overflow or a failed emission breaks
the channel. `ChunkSeq`, `LacksSeq`, `AppendBehind` and `ConcatMoves` are the facts about
sequences it rests on.

The second half is about `TerminalView`. `OwnOutputInOrder` is inductive only with where
things cannot be: before its open command an effect has no session, no output and no event on
the wire (`FreshInv`); `Closed` is the last event, and a bound listener has an empty early queue
(`StreamInv`); who waits for the answer listens (`WaitInv`). `HandleInv` is `ReadyIsAttached` with two
facts it needs: the handle that the page holds was not reported closed, and one that may still be
kept is inactive only if the peer closed it or xterm threw. An event that is delivered goes from
the head of the wire to the end of the early queue or of what is shown; for an effect that waits
it is the same for the answer. Every such step regroups `shown \o prebind \o wire`.

`OwnItems`, which selects the events of one session, is recursive. That it is what its two
equations say is an induction over the length of a sequence. The library's induction
theorems take an operator and cannot be used; `SetInduction` is the same for a set, derived from
`NatLessThanWellFounded` and `WFMin`. `OwnAppend` and `OwnHead` follow, and they are all the proof needs.

### CloudSessionProofs

`MainLeaves` and `QuietLeaves` say that the main thread never touches the proxy's state
and that a task, before the last step of a cutoff, never touches the session. With
them the invariant `IInv` falls into parts that are each about one side. `WakeInv` is
`NoCancelMissed` extended to a task that is about to sleep. `AnswerInv` follows an answer from
its arrival through `CheckBinding`: it came in no earlier than the request was sent, and
the epoch only grows, so an epoch that is still the old one at the check was the old one
at the arrival. `AttemptInv` says that only the latest attempt is pending or exchanged.
`CancelledSessionGoes` is inductive next to the types, which hold the watermark at or below
the epoch: a new session is always above it.

From them follow `CloudTypeCorrect`, `NoWakeupLost`, `CancelledSessionsGo`, and the action
properties `AnswersAreLive` and `SessionsFromLiveAttempts`.

### CloudTerminalProofs

`IInv` is `TypeOK` with three parts. `ThreadInv`: the callback runs on the I/O thread, and the
pending queue leaves room for the socket's end until the callback ends the thread. `MapInv`: a session is in the
registry only on behalf of an open call that inserted it, the callback knows an id only
after that, and tickets are never ahead of the generation. `EndInv`: once the callback took
the socket's end, the end is still on its way, or reached the registry, or is one
of those that get lost; it is what `LingeringExplained` becomes when the open call has not
returned. `CloudImplementsBarrier` needs `MapInv` for the same reason as the local registry: a
revocation ends what was admitted because tickets are at most the old generation.

### HostKeyPolicyProofs

`PinInv` carries the cloud's history through an open call: the pin it fetched, and later
the key it presents, is one the cloud held since the call read it. `RecordInv` says that after
the write to disk the principal has a record. `LapseInv` says that a session which ended under the
dialog never is the current one again, because epochs grow; this is why the check after the
dialog is enough. `AcceptedStands` and `AnswersStayInSession` follow at once, `RecordsFollowCloud`
from `PinInv` at the one action that writes.

The second half is about `SshTransport`. `WaitInv`: a command that waits has seen no more peer messages than
the scheduler counted, so `MaxBurst` bounds its wait. `SetupInv`: a handle and a channel exist exactly
from their stage on, and nothing is given back before the end; with it every way to fail
in the setup gives back each of them once.

### VaultStoreProofs

`StoreConsistent` is about memory and snapshot at every moment. `StageInv` says what is on disk between the files
of an initialisation or a reset, `EmptyInv` that without a snapshot no key is promised, `SaltInv`
that memory and snapshot belong to the salt on disk, `ContentInv` that memory and snapshot each
offer what they may, and list what they hold unless the last change of the slot was
reported as failed. The snapshot's part is needed though nobody reads the snapshot of an open vault: a
crash makes it the next memory. `Cardinality` occurs in the property, so `may` is kept finite
(`FiniteInv`). `StoreImplementsShelf` maps each operation to a settled or an attempted change, by how far it got.

### CloudCustodyProofs

`ConsentInv`: from the consent on, the history of a request contains what its slot offers, and the consent is of
the session the request began in. `LeaseInv`: the key an upload carries was offered since the
consent. Both hold through whatever the shelf does, of which only `KeyShelf` is known:
so, with `StoreImplementsShelf`, for the vault of the code. `CloudChangesAsAgreed` needs
`LeaseInv` at the one action that changes the cloud on behalf of a request.

### Model-checked only

* Liveness: `SealIntentHonoured`, `TransportsEnd`, `CancelledRequestEnds`, `UnregisteredIoEnds`,
  `EverybodyLetsGo`, `SessionFollowsView`. TLAPS does not prove it here.
* `BlockedIsDisabled`, the half of `StuckOnlyByReentry` that is about `ENABLED`.
* The findings: TLC's counterexamples are what shows them.

## 6. Plan

Done: all modules above, and a theorem for every safety property that a passing run checks.
A module is written so that it can be proved about: constants with assumptions, one
action per operation, no recursive operator.

For the promises that the code breaks (findings 3, 4 and 5) the theorems say what holds instead:
`OnlyOvertakenOutlivesSession`, `RegisteredStaysCurrent`, `StraysAreExplained`.

Left: the WebSocket of the browser build (findings, last paragraph), should the desktop come to use it;
and the liveness properties, once the prover reaches fairness.

## 7. Not modelled

* Parsing and redaction of cloud requests (`cloud_proxy/http.rs`, `routes.rs`, `sanitize.rs`,
  `terminal_ai_redact.rs`), of frames and of server messages, key derivation, PEM: stateless
  work on data, where nothing interleaves; tests reach it.
* The native prompts: one call into the operating system; what their callers do before
  and after is in the modules.
* The browser build's WebSocket in the terminal hook (see findings). The desktop never
  opens one.
* The React pages of `apps/admin`, which are most of the lines of the repository: views over
  the cloud API with no state that outlives them. So the map covers a small share
  of all lines, though nearly all of the native client that keeps state.
* The earlier client at the repository root, which is not in the release.
* Poisoned mutexes, and a wrong vault password, which changes nothing.
