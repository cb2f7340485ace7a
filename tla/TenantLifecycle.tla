--------------------------- MODULE TenantLifecycle ---------------------------
(***************************************************************************)
(* A tenant from its registration to its removal, across the components    *)
(* that keep something about it: the router's table, the pool manager's    *)
(* map (internal/pool/pool.go), the health checker's map                   *)
(* (internal/health/checker.go), the API's handlers                        *)
(* (internal/api/server.go), the configuration reload (main.go) and the    *)
(* admission of client sessions (Handle in internal/proxy).                *)
(*                                                                         *)
(* Each component locks only itself, so a handler is a sequence of steps,  *)
(* one per call into a component, and the handlers interleave.             *)
(***************************************************************************)
EXTENDS Router, Naturals, FiniteSets

CONSTANTS
  Sessions,   \* goroutines that handle client connections
  Admins,     \* goroutines that handle API requests
  PoolObjs,   \* identities of TenantPool objects, reused once unreferenced
  FailureThreshold,
  MaxReloads, \* bound: configuration reloads
  NoPool, Nobody

ASSUME LifecycleAssumption ==
  /\ FailureThreshold \in Nat \ {0} /\ MaxReloads \in Nat
  /\ Absent \notin Configs
  /\ NoPool \notin PoolObjs /\ Nobody \notin Admins

VARIABLES
  snap,          \* Router.snap
  pools,         \* Manager.pools
  poolDefaults,  \* Manager.defaults
  obj,           \* the TenantPool objects
  health,        \* Checker.tenants
  round,         \* tenants the running checkAll has yet to report on
  tenantMu,      \* holder of the API server's tenantMu
  req,           \* each API request in progress
  ses,           \* each client session
  reload,        \* the defaults a running reload has not passed on, or Absent
  reloads        \* number of reloads so far

vars == <<snap, pools, poolDefaults, obj, health, round, tenantMu, req, ses,
          reload, reloads>>

Free == [tenant |-> Absent, mode |-> "session", closed |-> TRUE]

NoEntry == [status |-> "absent", fails |-> 0]

NoRequest == [pos |-> "idle", tenant |-> Absent, tc |-> Absent, pool |-> NoPool]

NoSession == [pos |-> "idle", mysql |-> FALSE, tenant |-> Absent, tc |-> Absent,
              mode |-> "session", pool |-> NoPool]

-----------------------------------------------------------------------------
(* Admission: Handle of the PostgreSQL and the MySQL handler *)

\* Variant: the lookup's error is ignored.
ResolveUnchecked(s) ==
  /\ ses[s].pos = "idle"
  /\ \E t \in Tenants, mysql \in BOOLEAN :
       ses' = [ses EXCEPT ![s] = [NoSession EXCEPT !.pos = "resolved", !.mysql = mysql,
                                                   !.tenant = t, !.tc = snap.tenants[t]]]
  /\ UNCHANGED <<snap, pools, poolDefaults, obj, health, round, tenantMu, req, reload,
                 reloads>>

\* A client of either listener names a tenant.  Each check reads the state of the
\* moment; a refusal ends the session.
Resolve(s) ==
  /\ ses[s].pos = "idle"
  /\ \E t \in Known(snap), mysql \in BOOLEAN :
       ses' = [ses EXCEPT ![s] = [NoSession EXCEPT !.pos = "resolved", !.mysql = mysql,
                                                   !.tenant = t, !.tc = snap.tenants[t]]]
  /\ UNCHANGED <<snap, pools, poolDefaults, obj, health, round, tenantMu, req, reload,
                 reloads>>

IsPaused(s) ==
  /\ ses[s].pos = "resolved"
  /\ ses' = [ses EXCEPT ![s] = IF ses[s].tenant \in snap.paused THEN NoSession
                               ELSE [@ EXCEPT !.pos = "unpaused"]]
  /\ UNCHANGED <<snap, pools, poolDefaults, obj, health, round, tenantMu, req, reload,
                 reloads>>

IsHealthy(s) ==
  /\ ses[s].pos = "unpaused"
  /\ ses' = [ses EXCEPT ![s] = IF health[ses[s].tenant].status = "unhealthy" THEN NoSession
                               ELSE [@ EXCEPT !.pos = "healthy"]]
  /\ UNCHANGED <<snap, pools, poolDefaults, obj, health, round, tenantMu, req, reload,
                 reloads>>

\* The handler's own pool mode comes from the router's defaults.  The PostgreSQL
\* handler reads it before it gets the pool, the MySQL handler after.
PickMode(s) ==
  /\ ses[s].pos = IF ses[s].mysql THEN "pooled" ELSE "healthy"
  /\ ses' = [ses EXCEPT ![s].pos = IF ses[s].mysql THEN "relaying" ELSE "moded",
                        ![s].mode = EffectivePoolMode(ses[s].tc, snap.defaults)]
  /\ UNCHANGED <<snap, pools, poolDefaults, obj, health, round, tenantMu, req, reload,
                 reloads>>

Unreferenced(p) ==
  /\ \A t \in Tenants : pools[t] # p
  /\ \A s \in Sessions : ses[s].pool # p
  /\ \A a \in Admins : req[a].pool # p
  /\ obj[p].closed

WantsPool(s) == ses[s].pos = IF ses[s].mysql THEN "healthy" ELSE "moded"

HasPool(s) == IF ses[s].mysql THEN "pooled" ELSE "relaying"

\* Variant: the map is not looked at again under the write lock.
GetOrCreateTwice(s) ==
  /\ WantsPool(s)
  /\ \E p \in PoolObjs :
       /\ Unreferenced(p)
       /\ obj' = [obj EXCEPT ![p] =
                    [tenant |-> ses[s].tenant, closed |-> FALSE,
                     mode |-> EffectivePoolMode(ses[s].tc, poolDefaults)]]
       /\ pools' = [pools EXCEPT ![ses[s].tenant] = p]
       /\ ses' = [ses EXCEPT ![s].pos = HasPool(s), ![s].pool = p]
  /\ UNCHANGED <<snap, poolDefaults, health, round, tenantMu, req, reload, reloads>>

\* The pool's mode is fixed here, from the manager's defaults.
GetOrCreate(s) ==
  /\ WantsPool(s)
  /\ LET t == ses[s].tenant IN
     \/ /\ pools[t] # NoPool
        /\ ses' = [ses EXCEPT ![s].pos = HasPool(s), ![s].pool = pools[t]]
        /\ UNCHANGED <<pools, obj>>
     \/ /\ pools[t] = NoPool
        /\ \E p \in PoolObjs :
             /\ Unreferenced(p)
             /\ obj' = [obj EXCEPT ![p] =
                          [tenant |-> t, closed |-> FALSE,
                           mode |-> EffectivePoolMode(ses[s].tc, poolDefaults)]]
             /\ pools' = [pools EXCEPT ![t] = p]
             /\ ses' = [ses EXCEPT ![s].pos = HasPool(s), ![s].pool = p]
  /\ UNCHANGED <<snap, poolDefaults, health, round, tenantMu, req, reload, reloads>>

EndSession(s) ==
  /\ ses[s].pos = "relaying"
  /\ ses' = [ses EXCEPT ![s] = NoSession]
  /\ UNCHANGED <<snap, pools, poolDefaults, obj, health, round, tenantMu, req, reload,
                 reloads>>

-----------------------------------------------------------------------------
(* The API's handlers *)

\* A tenant added by the API has no pool mode of its own.
createTenant(a) ==
  /\ req[a].pos = "idle"
  /\ \E t \in Tenants, h \in Hosts :
       snap' = AddTenant(snap, t, [mode |-> "unset", host |-> h])
  /\ UNCHANGED <<pools, poolDefaults, obj, health, round, tenantMu, req, ses, reload, reloads>>

\* updateTenant reads and, in its next step, writes under tenantMu, which no
\* other mutation of the router takes.
updateTenant(a) ==
  /\ req[a].pos = "idle" /\ tenantMu = Nobody
  /\ \E t \in Known(snap), h \in Hosts :
       req' = [req EXCEPT ![a] = [pos |-> "merged", tenant |-> t, pool |-> NoPool,
                                  tc |-> [snap.tenants[t] EXCEPT !.host = h]]]
  /\ tenantMu' = a
  /\ UNCHANGED <<snap, pools, poolDefaults, obj, health, round, ses, reload, reloads>>

StoreUpdate(a) ==
  /\ req[a].pos = "merged"
  /\ snap' = AddTenant(snap, req[a].tenant, req[a].tc)
  /\ req' = [req EXCEPT ![a] = NoRequest]
  /\ tenantMu' = Nobody
  /\ UNCHANGED <<pools, poolDefaults, obj, health, round, ses, reload, reloads>>

deleteTenant(a) ==
  /\ req[a].pos = "idle"
  /\ \E t \in Known(snap) :
       /\ snap' = RemoveTenant(snap, t)
       /\ req' = [req EXCEPT ![a] = [NoRequest EXCEPT !.pos = "removed", !.tenant = t]]
  /\ UNCHANGED <<pools, poolDefaults, obj, health, round, tenantMu, ses, reload, reloads>>

\* Variant: the pool is closed while it is still in the map.
RemovePoolLate(a) ==
  /\ req[a].pos = "removed"
  /\ LET t == req[a].tenant IN
       req' = [req EXCEPT ![a].pos = IF pools[t] = NoPool THEN "closed" ELSE "closing",
                          ![a].pool = pools[t]]
  /\ UNCHANGED <<snap, pools, poolDefaults, obj, health, round, tenantMu, ses, reload,
                 reloads>>

\* Manager.Remove takes the pool out of the map and then, without the manager's
\* lock, closes and drains it.
RemovePool(a) ==
  /\ req[a].pos = "removed"
  /\ LET t == req[a].tenant IN
       /\ pools' = [pools EXCEPT ![t] = NoPool]
       /\ req' = [req EXCEPT ![a].pos = IF pools[t] = NoPool THEN "closed" ELSE "closing",
                             ![a].pool = pools[t]]
  /\ UNCHANGED <<snap, poolDefaults, obj, health, round, tenantMu, ses, reload, reloads>>

ClosePool(a) ==
  /\ req[a].pos = "closing"
  /\ obj' = [obj EXCEPT ![req[a].pool].closed = TRUE]
  /\ req' = [req EXCEPT ![a].pos = "closed", ![a].pool = NoPool]
  /\ UNCHANGED <<snap, pools, poolDefaults, health, round, tenantMu, ses, reload,
                 reloads>>

ForgetHealth(a) ==
  /\ req[a].pos = "closed"
  /\ health' = [health EXCEPT ![req[a].tenant] = NoEntry]
  /\ req' = [req EXCEPT ![a] = NoRequest]
  /\ UNCHANGED <<snap, pools, poolDefaults, obj, round, tenantMu, ses, reload, reloads>>

pauseTenant(a) ==
  /\ req[a].pos = "idle"
  /\ \E t \in Known(snap) : snap' = PauseTenant(snap, t)
  /\ UNCHANGED <<pools, poolDefaults, obj, health, round, tenantMu, req, ses, reload,
                 reloads>>

resumeTenant(a) ==
  /\ req[a].pos = "idle"
  /\ \E t \in Known(snap) : snap' = ResumeTenant(snap, t)
  /\ UNCHANGED <<pools, poolDefaults, obj, health, round, tenantMu, req, ses, reload,
                 reloads>>

-----------------------------------------------------------------------------
(* Reload: first the router, then the manager's defaults; pools and health
   entries are not touched *)

ReloadRouter ==
  /\ reload = Absent /\ reloads < MaxReloads
  /\ \E cfg \in Files :
       /\ snap' = Reload(snap, cfg)
       /\ reload' = cfg.defaults
  /\ reloads' = reloads + 1
  /\ UNCHANGED <<pools, poolDefaults, obj, health, round, tenantMu, req, ses>>

UpdateDefaults ==
  /\ reload # Absent
  /\ poolDefaults' = reload
  /\ reload' = Absent
  /\ UNCHANGED <<snap, pools, obj, health, round, tenantMu, req, ses, reloads>>

-----------------------------------------------------------------------------
(* The health checker *)

checkAll ==
  /\ round = {}
  /\ round' = Known(snap)
  /\ UNCHANGED <<snap, pools, poolDefaults, obj, health, tenantMu, req, ses, reload,
                 reloads>>

getOrCreate(e) == IF e.status = "absent" THEN [e EXCEPT !.status = "unknown"] ELSE e

\* A ping that fails, or that succeeds through the pool, first notes its error.
setLastError(t) ==
  /\ t \in round
  /\ health' = [health EXCEPT ![t] = getOrCreate(@)]
  /\ UNCHANGED <<snap, pools, poolDefaults, obj, round, tenantMu, req, ses, reload,
                 reloads>>

\* ConsecutiveFailures is compared with the threshold only, and capped there.
CountFailure(e) ==
  LET n == IF e.fails < FailureThreshold THEN e.fails + 1 ELSE e.fails
  IN  [status |-> IF n >= FailureThreshold THEN "unhealthy" ELSE getOrCreate(e).status,
       fails |-> n]

\* Variant: a success leaves the failures counted.
CountSuccessKeeps(e) == [e EXCEPT !.status = "healthy"]

CountSuccess(e) == [status |-> "healthy", fails |-> 0]

\* pingTenant's answer, whenever it comes, makes or updates the entry.
updateStatus(t) ==
  /\ t \in round
  /\ \E healthy \in BOOLEAN :
       health' = [health EXCEPT ![t] = IF healthy THEN CountSuccess(@) ELSE CountFailure(@)]
  /\ round' = round \ {t}
  /\ UNCHANGED <<snap, pools, poolDefaults, obj, tenantMu, req, ses, reload, reloads>>

-----------------------------------------------------------------------------
Init ==
  /\ \E cfg \in Files : snap = New(cfg) /\ poolDefaults = cfg.defaults
  /\ pools = [t \in Tenants |-> NoPool]
  /\ obj = [p \in PoolObjs |-> Free]
  /\ health = [t \in Tenants |-> NoEntry]
  /\ round = {} /\ tenantMu = Nobody
  /\ req = [a \in Admins |-> NoRequest]
  /\ ses = [s \in Sessions |-> NoSession]
  /\ reload = Absent /\ reloads = 0

SessionStep(s) ==
  \/ Resolve(s) \/ IsPaused(s) \/ IsHealthy(s) \/ PickMode(s) \/ GetOrCreate(s)
  \/ EndSession(s)

AdminStep(a) ==
  \/ createTenant(a) \/ updateTenant(a) \/ StoreUpdate(a) \/ deleteTenant(a)
  \/ RemovePool(a) \/ ClosePool(a) \/ ForgetHealth(a)
  \/ pauseTenant(a) \/ resumeTenant(a)

Next ==
  \/ \E s \in Sessions : SessionStep(s)
  \/ \E a \in Admins : AdminStep(a)
  \/ ReloadRouter \/ UpdateDefaults
  \/ checkAll \/ \E t \in Tenants : setLastError(t) \/ updateStatus(t)

Spec == Init /\ [][Next]_vars
-----------------------------------------------------------------------------
(* Properties *)

Entries == [status : {"absent", "unknown", "healthy", "unhealthy"}, fails : 0..FailureThreshold]

\* Types of what the components keep; a session past its lookup has a tenant and a
\* configuration (Handle returns on Resolve's error).
TypeOK ==
  /\ snap \in Snapshots
  /\ pools \in [Tenants -> PoolObjs \cup {NoPool}]
  /\ poolDefaults \in Modes
  /\ obj \in [PoolObjs -> [tenant : Tenants \cup {Absent}, mode : Modes, closed : BOOLEAN]]
  /\ health \in [Tenants -> Entries]
  /\ round \subseteq Tenants
  /\ tenantMu \in Admins \cup {Nobody}
  /\ req \in [Admins -> [pos : {"idle", "merged", "removed", "closing", "closed"},
                         tenant : Tenants \cup {Absent}, tc : Configs \cup {Absent},
                         pool : PoolObjs \cup {NoPool}]]
  /\ ses \in [Sessions -> [pos : {"idle", "resolved", "unpaused", "healthy", "moded",
                                  "pooled", "relaying"}, mysql : BOOLEAN,
                           tenant : Tenants \cup {Absent}, tc : Configs \cup {Absent},
                           mode : Modes, pool : PoolObjs \cup {NoPool}]]
  /\ \A s \in Sessions : ses[s].pos # "idle" => ses[s].tenant \in Tenants /\ ses[s].tc \in Configs
  /\ reload \in Modes \cup {Absent}
  /\ reloads \in 0..MaxReloads

\* A paused tenant that stays in the table stays paused through every update,
\* re-creation and reload, until it is resumed (Reload carries the marks over), and
\* no mark outlives its tenant: one registered again under an old ID is not paused.
PausesFollowTenants ==
  [][/\ snap.paused' \subseteq Known(snap)'
     /\ \A t \in snap.paused \cap Known(snap)' :
          t \in snap.paused' \/ \E a \in Admins : resumeTenant(a)]_vars

\* The manager's map never offers a closed pool or another tenant's pool: Remove
\* unregisters the pool before it closes it.
RegisteredPoolsOpen ==
  \A t \in Tenants : pools[t] # NoPool => ~obj[pools[t]].closed /\ obj[pools[t]].tenant = t

\* No pool is lost: a pool that is open, and so has a reaper running and perhaps
\* connections, is registered or a Remove is about to close it.
OpenPoolsReachable ==
  \A p \in PoolObjs : ~obj[p].closed =>
    \/ pools[obj[p].tenant] = p
    \/ \E a \in Admins : req[a].pos = "closing" /\ req[a].pool = p

\* A tenant is refused for its health exactly when its last FailureThreshold
\* reports were failures (updateStatus in checker.go).
UnhealthyIsEarned ==
  \A t \in Tenants : health[t].status = "unhealthy" <=> health[t].fails >= FailureThreshold

-----------------------------------------------------------------------------
(* What a comment says and the code does not do *)

\* "Transaction-level pooling: pool has pre-authenticated connections."  A session
\* relayed in transaction mode is on a pool that authenticates its connections
\* (Handle in postgres.go).
TransactionPoolMatches ==
  \A s \in Sessions :
    ses[s].pos = "relaying" /\ ses[s].mode = "transaction" => obj[ses[s].pool].mode = "transaction"
=============================================================================
