# A verification of DBBouncer

DBBouncer is a multi-tenant connection pooler for PostgreSQL and MySQL. This
directory holds TLA+ models of it, the TLC configurations that check them on
small instances, and TLAPS proofs for instances of any size. `PROJECT.json`
lists the components, runs, findings, hazards and theorems, and maps every
definition to the lines it models.

To check: `tlc -workers 2 -config MCTenantPool_session.cfg MCTenantPool` (likewise
for the other configurations) and `tlapm TenantPoolProofs.tla` (likewise for the other
proof modules; five to twenty minutes each for the larger ones).

## 1. The system

| Part | State | Operations | Hard because |
|---|---|---|---|
| Tenant pool (`pool/pool.go`, `conn.go`) | `total`, `idle`, `active`, `waiting`, `closed` under one mutex and a condition variable; each connection's socket and age | `Acquire`, `Return`, `PooledConn.Close`, `warmUp`, `reapIdle`, `Drain`, `Close` | the mutex is released in the middle of `Acquire`; timers broadcast without it; dials overlap drains; users may close and also return |
| Pool manager (`pool/pool.go`) | map from tenant to pool, defaults | `GetOrCreate`, `Remove`, `DrainTenant`, `UpdateDefaults`, `Close` | pools outlive their tenants' configurations |
| PostgreSQL relay (`proxy/pg_relay.go`) | backend held, pinned; the streams of the backend | the message loop, `resetAndReturn`, `cleanupBackend` | answers are matched to requests by position only |
| MySQL relay (`proxy/mysql_relay.go`) | backend held, pinned, `txnStart` | the command loop, `drainMySQLResponse`, `drainMySQLUntilOK` | the end of an answer is guessed from its packets |
| Session relay, authentication relay (`proxy/handler.go`, `postgres.go`, `mysql.go`) | the startup exchange, then two copying goroutines | `readStartupMessage`, `readHandshakeResponse`, `relayAuth`, `relay` | who speaks next is known by position; both directions end in any order |
| Router (`router/router.go`) | atomic snapshot: tenants, defaults, paused | `Resolve`, `AddTenant`, `RemoveTenant`, `PauseTenant`, `ResumeTenant`, `Reload` | readers combine several snapshots |
| Health checker (`health/checker.go`) | status and failure count per tenant | `checkAll`, `updateStatus`, `RemoveTenant`, `Stop` | reports arrive after what they report on has changed |
| API (`api/server.go`) | `tenantMu` | create, update, delete, pause, resume, drain | each handler is several calls into components that lock only themselves |
| Proxy server (`proxy/server.go`) and `main.go` | `activeConns`, wait group, context, listeners | accept loops, `Stop`, shutdown with timeout | handlers that block without looking at the context |
| Configuration (`config/config.go`) | file, watcher, debounce timer | `Load`, `validate`, `Effective*`, watcher | timers that outlive `Stop` and overlap; a file read half written |
| Backend authentication (`pool/pool.go`, `pool/scram.go`) | one exchange per connection | `dial`, `authenticatePG`, `scramSHA256Auth`, `authenticateMySQL` | no deadline; a server may say anything |
| Certificate reload (`proxy/server.go`) | certificate, modification time, one mutex | `getCertificate`, `load` | two files change one after the other |
| Metrics (`metrics/metrics.go`) | counters | | write-only |

A client connection is accepted (proxy server), admitted (router, health
checker), given its tenant's pool (manager), and relayed in the pool mode
`session` (a backend for the whole session, closed at its end) or `transaction`
(a backend from the pool for each transaction). The API, the configuration
watcher and the health checker run beside it.

## 2. Modules

| Module | Models |
|---|---|
| `TenantPool` | one tenant's pool and all its users |
| `ConnectionLease` | what a pool promises: the abstract specification |
| `TenantPoolLease` | the refinement mapping from the one to the other |
| `TenantPoolProofs`, `TenantPoolLeaseProofs` | theorems about `TenantPool` and its refinement |
| `PGRelay` | transaction-mode sessions and the health check over shared PostgreSQL backends |
| `MySQLRelay` | the same for MySQL |
| `Router` | the routing table as functions on snapshots |
| `TenantLifecycle` | composition: router, manager, health entries, API handlers, reload, admission |
| `ProxyServer` | composition: accept loops, handlers, health checker's goroutine, shutdown |
| `SessionRelay` | a session-mode session, PostgreSQL or MySQL, from its first message to the end of its relay |
| `BackendAuth` | the authentication of a pooled backend connection |
| `ConfigFile` | substitution, validation, defaults and the `Effective` functions as operators on files |
| `ConfigWatcher` | first load, watch, debounce timer, reloads, `Stop` |
| `CertLoader` | the certificate loader against renewals of its files |
| `PGRelayProofs`, `MySQLRelayProofs`, `TenantLifecycleProofs`, `SessionRelayProofs` | theorems about the module of that name |
| `ConnectionProofs` | theorems about `ProxyServer` and `BackendAuth` |
| `ReloadProofs` | theorems about `ConfigWatcher` and `CertLoader` |
| `MC...` | symmetry sets, inputs and combined specifications for the `.cfg` files |

Operators called "Variant" in a comment are no part of a specification. Each is
a plausible fault in the definition after it, kept to show that a property
notices the fault.

### TenantPool

The pool's fields are variables of the same names. `pc[p]` is where a user is:
`out`, `dialing` (slot reserved, mutex released), `exhausted` (in the callback,
mutex released), `armed` (timer armed, mutex held), `waiting` (on the notify
list), `woken`, `using`, `closing` (a health check that has closed its
connection and not yet run its deferred `Return`). Each section of code under
`tp.mu` is one step, except that between `AfterFunc` and `cond.Wait` the lock is
visibly held (`mu`), because the timer's `Broadcast` takes no lock. `Acquire`'s
loop body is `AcquireLoop`, entered from the top and after a wake-up. Time is a
set of expired deadlines and a set of connections past their lifetime. Two
history variables serve properties only: `swept` (a drain has emptied `idle`
since `Close`) and `skew` (by how much `total` is off; two paths change it).

Connection identities are reused once nothing refers to them, so a finite set
of them stands for the unbounded number a pool dials. A dial needs a free
identity; three suffice for the limits of the runs, and where a leaked slot has
left none, the dial can still fail.

### PGRelay and MySQLRelay

A backend is a record: whether it is idle or used, its transaction status, the
sessions whose state it still carries (`residue`), and its two streams. A
session is a record with its position in the relay's code, the backend it holds
and its pin. Messages are abstracted to a kind. The servers are external: they
answer in order, PostgreSQL answers an extended-protocol message only after a
Sync, and MySQL sends result sets with two EOFs, since the pool does not claim
`CLIENT_DEPRECATE_EOF`. A backend may be lost at any time, a client may leave at
any time, and a write to a lost backend may succeed or fail. The pool is
reduced to "some backend that is not in use". `cut` and `torn` are history:
cleanup began inside an answer, or an answer was left unfinished. The invariants
say that everything is right in their absence; what happens in their presence
is described under Disagreements.

`PGRelay` also has `pingPostgresViaPool`, which takes a backend from the same
pool (`hc`). It sets a deadline that nobody clears (`deadline`): once it has
passed, whoever has the backend fails to read or write. After an error it
returns the backend with the ReadyForQuery unread, which counts as `cut`.

### TenantLifecycle and Router

Each call into a component is one step, so handlers interleave between calls.
A session resolves, checks the pause mark, checks health, reads the defaults and
gets its pool, in the order of its handler (PostgreSQL reads the defaults before
`GetOrCreate`, MySQL after it). `updateTenant` holds `tenantMu` over its read
and its write. `deleteTenant` is four steps (router, manager's map, the pool's
`Close`, health entry). A reload is two (router, manager's defaults); the
watcher's mutex keeps reloads from overlapping. A pool's drains are
`TenantPool`'s business; here a pool is open or closed.

### ProxyServer

Each handler is reduced to what makes it wait or end: its startup read, a
session-mode relay (which ends with the context), PostgreSQL's transaction relay
(which looks at the context at the top of its loop only) and MySQL's
(`command`, which never does). `main` is the position of the shutdown sequence.

### SessionRelay

`c` and `b` are the client and the server with all they have said and got, `px`
is `Handle`: its position, how much it has read of each stream, and `torn`, set
when `Ping` has read the first byte of a MySQL server's greeting. `Admit` stands
for routing, health and pool (modelled elsewhere) and lets the session pass or
not. `relayAuth` is one step per message that it waits for. `up` and `down` are
the copying goroutines; a copy moves whole messages. Client and server are
external: either may close at any moment, the client may close its sending side
only, and the server chooses how it authenticates and whether it accepts.

### BackendAuth

`at` is the goroutine that dials (for `Acquire` or for `warmUp`), `sv` the
server. A message is a kind and the one value in it that the code uses; a hash is
a symbol of what it is computed from, so a proof over the wrong nonce is a
different value. A nonce is the position of the message that it was drawn for, so
no two are equal. An honest server follows its protocol with the pool's password
or another one; a faulty one may at any turn say any of `Sayings` instead, fall
silent or close.

### ConfigFile, ConfigWatcher and CertLoader

A file is saved in place, empty first and then with its content, or renamed
over; `caught` is history: the last change was reported. `run` handles one event
a step, a fired timer is a `Reloader` that locks, loads, and applies `main`'s
callback in two steps (router, manager). `CertLoader` has one handshake at a time
(the loader's mutex) with a step for each system call: the `Stat` that decides,
the two reads, the `Stat` that notes the time. `missed` is history: a renewal
that the modification times cannot show.

The two modules of `MCReload` share no state, nor do those of `MCHandshake`: a
behaviour of these runs takes steps of one module while the other rests.

## 3. Runs

Bounds: every interesting case needs two sessions (or a session and a drainer,
or an administrator and a session) and a shared resource that can run out; the
runs have that, and one more connection identity than the limit.

| Run | Instance | Checks |
|---|---|---|
| `pool_session` | session mode, 2 clients, a drainer, 3 connections, limit 2, minimum 1 | types, exclusive ownership, no lost socket, `total`, the limit, `waiting`, emptiness after close, what the reaper keeps, and that `TenantPool` implements `ConnectionLease` |
| `pool_fair` | PostgreSQL in transaction mode, a client and a health check, a drainer, limit 1, fair | every `Acquire` stops waiting and then ends, unless its timer fires before it sleeps or it authenticates |
| `pg_relay` | 2 clients, a health check, 1 backend, 2 requests together, of 5 of the 8 kinds, fair | pooled backends are clean; answers match requests; transactions and pins keep their backend; the relay always comes back to its client |
| `mysql_relay` | 2 clients, 1 backend, 3 commands together, of 7 of the 9 kinds, fair | the same for MySQL |
| `tenant_admin` | a session of either protocol, two administrators, a reload, threshold 2, 2 pools | only open pools are offered, no open pool is lost; health threshold; pause marks follow their tenants |
| `server_shutdown` | 3 clients, 2 listeners, limit 1, fair | counters, the limit within one, quiet before the pools close, the process ends after a signal |
| `reload_files` | 16 contents of the file, 2 saves, 2 overlapping reloads; 4 generations of the certificate, 4 ticks; fair | what is in use is complete; reloads apply in order and in both halves; a reported change is loaded; the watcher settles after `Stop`; a handshake serves the pair on disk |
| `handshake_login` | both protocols, 3 logins, 2 queries, 1 notice; every method of authentication, honest servers and faulty ones with 16 sayings and 6 turns; fair | streams arrive unchanged; a relay that ends by itself has delivered what it owes to the side that is still there; sessions end; a connection handed out is ready and, with SCRAM, proved; authentication ends |
| `pool_lostwakeup`, `pg_dirty`, `tenant_mode`, `auth_warmup` | see Disagreements | one property each, violated |

The pool's limit is checked as `WithinLimit`: it holds until a connection is
returned after a forced drain has forgotten it (then `total` is one too small).
`TotalAccounts` says by exactly how much `total` is off and why. Deadlock is
checked everywhere but in runs whose system may stop: a process that exits, a
session or an authentication that has ended, files that nobody edits any more.
The bounds cap what clients, administrators, editors and servers do unasked; a
client of a relay that has used up its requests can still leave and come back.
Two saves suffice for a half-written file, a burst of events and a reload that
overlaps the next; two queries for an answer on its way while the other side
closes; six turns for two SCRAM exchanges on a connection that warm-up
authenticates twice, of which the second may repeat the signature of the first.
One backend is the hard case of the relays, since all that accumulates
on it meets the next session. The longest runs (`pg_relay`, 0.7 million states;
`handshake_login`, 0.5 million) take two to three minutes with two workers.

### Disagreements

Four disagreements between the code and what its comments or documents say
have a `violation` run and an entry under `findings`:

- `pool_lostwakeup`: `Acquire` releases the mutex between its exhausted check and
  its wait, and a `Return` in between signals nobody.
- `pg_dirty`: a cleanup that begins in the middle of an answer is one answer
  behind, and a backend with an unread answer is pooled.
- `tenant_mode`: a pool keeps the mode it was made with, a handler takes its mode
  from the current configuration.
- `auth_warmup`: warm-up authenticates a PostgreSQL connection that `dial` has
  authenticated already, is refused, and warms nothing.

The models have further behaviours that a reader of the comments would not
expect. No run is kept for them; stated as an invariant or a property, the
formula on the right has a counterexample.

| Behaviour | Formula that fails |
|---|---|
| `Close` misses a caller in the same unlocked window (`pool.go:367`) | `closed => \A p \in Procs : pc[p] # "waiting"` |
| the timer fires before its caller sleeps (`pool.go:238`) | `Acquiring(p) ~> ~Acquiring(p)` |
| a connection ended by `PooledConn.Close` stays in `active` (`postgres.go:106`) | `\A c \in active : \E p \in Procs : held[p] = c` |
| a health check returns a connection it has closed (`checker.go:210`) | `\A c \in IdleSet : sock[c] # "closed"` |
| the relay waits for an answer that needs a Sync it does not forward (`pg_relay.go:118`) | `RequestsEnd` without its exception |
| a MySQL answer ends at its first EOF (`mysql_relay.go:240`) | `\A b \in Backends : ~srv[b].torn` |
| an error is taken for the end of a MySQL transaction (`mysql_relay.go:235`) | `ses[c].pos = "reset" /\ ses[c].then = "ready" => ~srv[ses[c].be].txn` |
| an update brings back a deleted tenant (`api/server.go:303`) | `[][StoreUpdate(a) => req[a].tenant \in Known(snap)]_vars` |
| a health check that meets an error pools its backend with an unread ReadyForQuery (`checker.go:231`) | `PooledIsClean` |
| `relayAuth` and the server wait for each other (`postgres.go:321`), or MySQL's `Handle` waits for a greeting whose first byte `Ping` took (`conn.go:161`) | `SessionEnds` without its exception |
| a client that half-closes loses answers (`handler.go:67`) | `px.first = "up" /\ px.pos = "ended" => px.rb = Len(b.said)` |
| a server's last error is lost when a write to it fails first (`handler.go:67`) | `Relayed /\ ~shutdown /\ c.end = "open" => px.rb = Len(b.said)` |
| a reload between the two writes of a save leaves no tenant until the next one (`config.go:167`) | `main # "begin" => router.raw \in Contents` |
| an `Acquire` waits for ever for a server that falls silent in its authentication (`pool.go:459`) | `AcquireEnds` without `Authenticating` |
| an edit before the watch, or a rename, is not loaded (`config.go:330`) | `ReportedIsLoaded` without `caught` |
| a minimum above the default maximum, or a negative maximum, is accepted (`config.go:179`) | `Ordered(t, cfg)` |
| a renewal between load and `Stat` is taken for loaded (`server.go:201`) | `HandshakeServesFiles` without `missed` |
| both accept loops admit the last connection (`server.go:128`) | `active <= MaxConns` |

In `TenantPool` the refused warm-up is `WarmReauthFails`. An admission or a health check in progress brings back the
pool or the health entry of a tenant that was deleted meanwhile, and pools keep
the configuration they were made with (`GetOrCreate`, `updateStatus`). `Stop`
waits for silent clients, and only `main`'s timer ends the process
(`ShutdownTimeout`). The project's README also says that MySQL tenants always use
session mode; the code has a MySQL transaction relay, which `MySQLRelay` models.

## 4. Fairness

- `TenantPool.FairSpec`: goroutines that can go on do, deadlines pass, timers
  fire. In session mode dials end, since `dialTimeout` limits the connect. In
  transaction mode a dial goes on to authenticate, without a deadline and without
  looking at the context, so nothing is assumed of its end and `AcquireEnds`
  excepts it (`BackendAuth` says when it ends). `pool_fair` is in transaction mode,
  for the health check; with `Mode = "session"`, no checker and two clients,
  `AcquireEnds` holds too, and every dial ends. Steps that need the mutex are
  strongly fair, since Go's mutex hands itself to a starving goroutine. Nothing
  makes a client acquire, return or close.
- `PGRelay.FairSpec`, `MySQLRelay.FairSpec`: relays run, servers execute what
  they receive, and a session that asks the pool for a backend gets one or an
  error: `RequestsEnd` and `CommandsEnd` hold as far as `Acquire` ends, that is
  outside the cases that `AcquireEnds` excepts. Nothing makes a client send or leave.
- `ProxyServer.FairSpec`: goroutines run, a session-mode relay sees the context,
  the health checker's `select` does not ignore `stopCh` for ever, and the
  shutdown timer fires. Clients need never act.
- `SessionRelay.Fairness`: goroutines run, and a server answers what it got.
  Nothing makes a client speak, and neither side need close.
- `BackendAuth.AuthFairness`: the goroutine runs and an honest server answers. A
  faulty one need not: no deadline is set, so nothing is claimed then.
- `ConfigWatcher.Fairness`: events are delivered, timers fire, and reloads go on;
  `Lock` is strongly fair like Go's mutex. Nobody need edit the file.

## 5. Proofs

Eight modules prove what the runs check on small instances for every value of
the constants. Each theorem `Spec => []P` goes through an inductive invariant
that implies `P`; TLC checked those of the relays and of the session relay on
the runs' instances before they were proved.

| Module | Theorem | States |
|---|---|---|
| `TenantPoolProofs` | `TypeCorrect`, `OwnershipExclusive`, `SocketsTracked`, `ClosedEmpty`, `WaitingExact` | `TypeOK`, `ExclusiveOwnership`, `OpenSocketsTracked`, `ClosedStaysEmpty`, `WaitingCounts` |
| `TenantPoolLeaseProofs` | `LeaseImplemented`, `TotalExact`, `LimitKept`, `NewestKept` | `ImplementsLease`, `TotalAccounts`, `WithinLimit`, `ReaperKeepsNewest` |
| `PGRelayProofs` | `OneUser`, `PoolIsClean`, `AnswersOwned`, `BackendKept` | `TypeOK`, `IdleIsClean`, `AnswersMatch`, `HeldBackendStays` |
| `MySQLRelayProofs` | the same four | the same four of `MySQLRelay` |
| `TenantLifecycleProofs` | `LifecycleTypes`, `MapOffersOpenPools`, `NoPoolLost`, `VerdictEarned`, `PausesKept` | `TypeOK`, `RegisteredPoolsOpen`, `OpenPoolsReachable`, `UnhealthyIsEarned`, `PausesFollowTenants` |
| `ConnectionProofs` | `CountersExact`, `LimitExceededByLoops`, `PoolsClosedLast`, `GivenReady`, `GivenProved` | `CountsExact`, `LimitNearlyKept`, `QuietBeforePools`, `GivenIsReady`, `GivenIsProved` |
| `ReloadProofs` | `CertificateServed`, `OverlapsInOrder`, `CompleteInUse` | `HandshakeServesFiles`, `ReloadsInOrder`, `InUseIsComplete` |
| `SessionRelayProofs` | `StreamsKept`, `LastWordsKept` | `StreamsFaithful`, `LastWordsArrive` |

### What they assume

Of the constants, and no more: `PoolAssumption` (finitely many users and
connections, limits that are numbers), `LeaseAssumption` (no user is called
"pool" or "none", the two other owners of the abstract specification),
`RelayAssumption` of each relay and `LifecycleAssumption` (bounds are numbers, and
`None`, `Absent` and their like stand for nothing else; the health threshold is
positive, though `applyDefaults`, `config.go:227`, replaces only a zero and lets a negative
one through), `ServerAssumption` (the
listeners are finitely many: the code has two), `WatcherAssumption` (a file is what
`yaml.Unmarshal` makes of one: `IsFile`), and `AuthAssumption` (what a server says is
a sequence; of the messages in it nothing is assumed).
`SessionRelay` and `CertLoader` need none. TLC evaluates each on the runs.

### The pool

- `Return` puts what its caller holds into `idle`, so the types are inductive
  only with `Positioned`: a user holds a connection exactly in `using` and
  `closing`, warm-up exactly in `dialed`, and the mutex is visibly held exactly
  in `armed`. Warm-up also owns a connection for a while, hence `WarmOwns`.
- `OpenSocketsTracked` is inductive given ownership, `ClosedStaysEmpty` with
  "swept implies closed", `WaitingCounts` by a lemma on how moving one user
  changes the number of waiters.
- `TotalAccounts` needs `Apart`: a connection in `tp.active` is neither idle nor
  warm-up's. Without it `Acquire` could pop a connection that is counted as
  active already, and `total` would be one too large. `WithinLimit` adds
  `total <= Limit` and that every socket not closed is idle, active or warm-up's;
  the open sockets are then mapped onto what `total` counts.
- `ReaperKeepsNewest` is a counting argument: the reaper keeps the order of what
  it keeps and takes only from below the last `MinConns`, so as many connections
  lie above each of these after the pass as before.
- `LeaseImplemented` maps a connection to its owner (`OwnerOf`). Ownership makes
  the mapping a function of the state; each action is then shown to be a step
  of `ConnectionLease` or to leave every owner as it was.

### The relays

`AnswersMatch` and `IdleIsClean` say what is read, or pooled; the invariant says
what is in the two streams of a backend at every position of the session that
holds it (`Held`, and `Checked` for the health check): nothing, the one message
forwarded, or the rest of its answer. The relay forwards only over empty
streams, which is what keeps the answers of two sessions apart. `Placed` relates
a position to the backend and the pin, `Exclusive` says that a backend has at most
one user, and `UsedIsHeld` that one marked as used has one: with the two, the
counting in `TypeOK` (`OneUser`) follows. The contents of the streams are described
on backends that are not `cut` (or `torn`): the runs of Disagreements show that the
description is false on the others. `BackendKept` is proved from the same invariant,
action by action.

### The composition, the server, the reloads

- `LifecycleInv` adds to the properties that a request about to close a pool has
  taken that pool out of the map itself (`Closers`), and that an open pool has a
  tenant. `PausesKept` needs in addition that only known tenants are paused.
- `ServerInv`: the counters are exact because a handler starts only for the
  connection that its loop has accepted (`Holding`). The limit is inductive only
  with the loops that are past the check and have not counted yet
  (`LimitWithAdmitting`), which is also why it is missed by n - 1. `Quiet` carries
  "the wait group was at zero" through the rest of the shutdown.
- `CertInv`: every renewal that is not loaded is one that the loader's time shows
  (`Shown`). `WatcherInv`: only the holder of the watcher's mutex is between
  router and manager (`LockHeld`), what it has read is neither ahead of the file
  nor behind what is in use, and everything in use was accepted by `validate`.
  The proof of `CompleteInUse` found that `validate` compares neither bounds that
  the file leaves out (it runs before the defaults) nor a negative maximum; the
  property states these exceptions in terms of the file that was read (`raw`,
  history).

### The session relay

`StreamsFaithful` is about what arrived; the invariant says where the handler
stands in each stream. To the server: the TLS requests read so far are dropped
and all else up to `px.rc` is passed on, and no TLS request lies ahead once the
startup is over, because a client that asked waits for the answer (`AtStartup`).
To the client: the proxy's own messages first, then the server's up to `px.rb`
(`DownwardFrom`), and so it stays when a relay has ended. `Words` says that the
goroutine which ended the relay first had read all that a peer said before it
closed, or had a message that it could not write; `Caused`, proved from the rest,
that without a shutdown there is such a goroutine. `LastWordsKept` combines the
three: it tells which of the two ended the relay from who is still there.

### The authentication

`GivenReady` rests on turns: while something that an honest server said is unread,
it has heard all that was sent, and a question or an end (ReadyForQuery, OK) is
the last thing it said (`HonestInv`). This is so because each turn of the server
ends with at most one of them (`Orderly`) and the goroutine sends only when it
has read a question. So when it reads the end, nothing follows. `GivenProved`
holds against any server: every exchange that begins among the messages read is
complete, except the one the goroutine is in, of which `SaslInv` says how far it
has come. `MaxTurns` is any number, and `Sayings` any set of sequences.

### Model-checked only

- Liveness and fairness (`AcquireEnds`, `RequestsEnd`, `CommandsEnd`, `ShutdownEnds`,
  `SessionEnds`, `AuthEnds`, `ReportedIsLoaded`, `StopSettles`): out of the prover's reach.
- That the properties of the `violation` runs fail.

## 6. Not modelled

- Bytes: lengths, encodings and the YAML syntax. Messages are valid or not, and a
  copy moves them whole, so a message cut in the middle is not told apart. A
  message is as long as its kind asks (at a ReadyForQuery without its status byte
  `authenticatePG` panics, `pool.go:529`).
- `CloseWrite` at the end of a copy (`handler.go:46`, `handler.go:59`): `relay`
  closes both connections as soon as it sees that end, and in between the peers
  of the model do what they like anyway.
- Cryptography beyond the symbols of `BackendAuth`, and TLS beyond its
  negotiation and the choice of the certificate.
- Whether a MySQL server accepts a proof that the client made for the synthetic
  challenge: `SessionRelay` lets it accept, refuse or switch.
- The health checks on connections of their own (`pingPostgres`, `pingMySQL`,
  `pingTCPRead`), which are an outcome in `TenantLifecycle`.
- HTTP, the read-only API handlers, logging and metrics, which change no state of
  the system; the statistics loop, which only reads.
- Durations. `Manager.Close` drains one pool after another; how many are drained
  before the shutdown timeout is a question of durations.
- The pool's load together with the health entries: an exhausted pool fails the
  health check (`checker.go:196`), though the comment at `checker.go:183`
  announces a TCP probe.

## 7. Plan

1. A composition to add: pool load with health entries.
2. Proofs to add: a proof that `SessionRelay` together with `TenantPool` uses each
   backend for one session.
