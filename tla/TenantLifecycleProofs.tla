------------------------ MODULE TenantLifecycleProofs ------------------------
(***************************************************************************)
(* Proofs about TenantLifecycle for any number of tenants, sessions, API   *)
(* requests, pools and reloads and any failure threshold.                  *)
(***************************************************************************)
EXTENDS TenantLifecycle, TLAPS

(***************************************************************************)
(* What the pools' properties rest on: where a request of the API is, the  *)
(* pool that it is about to close is its own (Closers), and a pool that is *)
(* open belongs to a tenant.                                               *)
(***************************************************************************)

\* What an API request has at each of its positions.
Positioned ==
  \A a \in Admins :
    /\ req[a].pos # "idle" => req[a].tenant \in Tenants
    /\ req[a].pos = "merged" => req[a].tc \in Configs
    /\ req[a].pos = "closing" <=> req[a].pool # NoPool

\* A pool that Remove is about to close is in no map, and in no other Remove's hands.
Closers ==
  \A a \in Admins : req[a].pos = "closing" =>
    /\ \A t \in Tenants : pools[t] # req[a].pool
    /\ \A b \in Admins : b # a /\ req[b].pos = "closing" => req[b].pool # req[a].pool

\* A pool that is open belongs to a tenant.
OpenHaveTenants == \A p \in PoolObjs : ~obj[p].closed => obj[p].tenant \in Tenants

\* Only tenants in the table are paused.
PausedKnown == snap.paused \subseteq Known(snap)

LifecycleInv ==
  /\ TypeOK /\ Positioned /\ Closers /\ OpenHaveTenants /\ PausedKnown
  /\ RegisteredPoolsOpen /\ OpenPoolsReachable /\ UnhealthyIsEarned

\* A pool mode chosen from a configuration and a default is a pool mode.
LEMMA PoolModeType ==
  ASSUME NEW tc \in Configs, NEW d \in Modes
  PROVE  EffectivePoolMode(tc, d) \in Modes
BY DEF Configs, EffectivePoolMode, Modes

\* Tenants in the table have a configuration.
LEMMA KnownConfigured ==
  ASSUME NEW s \in Snapshots, NEW t \in Known(s)
  PROVE  t \in Tenants /\ s.tenants[t] \in Configs
BY DEF Snapshots, Known

\* The table's operations: the snapshot keeps its type, and the paused tenants stay
\* in the table.
LEMMA RouterType ==
  ASSUME NEW s \in Snapshots, s.paused \subseteq Known(s), NEW t \in Tenants
  PROVE  /\ \A tc \in Configs : /\ AddTenant(s, t, tc) \in Snapshots
                                /\ AddTenant(s, t, tc).paused = s.paused
                                /\ s.paused \subseteq Known(AddTenant(s, t, tc))
         /\ RemoveTenant(s, t) \in Snapshots
         /\ RemoveTenant(s, t).paused = s.paused \ {t}
         /\ Known(RemoveTenant(s, t)) = Known(s) \ {t}
         /\ ResumeTenant(s, t) \in Snapshots
         /\ ResumeTenant(s, t).paused \subseteq Known(ResumeTenant(s, t))
         /\ PauseTenant(s, t) \in Snapshots
         /\ PauseTenant(s, t).paused = s.paused \cup {t}
         /\ Known(PauseTenant(s, t)) = Known(s)
<1>1. ASSUME NEW tc \in Configs
      PROVE  /\ AddTenant(s, t, tc) \in Snapshots /\ AddTenant(s, t, tc).paused = s.paused
             /\ s.paused \subseteq Known(AddTenant(s, t, tc))
  BY LifecycleAssumption DEF Snapshots, Known, AddTenant
<1>2. /\ RemoveTenant(s, t) \in Snapshots /\ RemoveTenant(s, t).paused = s.paused \ {t}
      /\ Known(RemoveTenant(s, t)) = Known(s) \ {t}
  BY Zenon DEF Snapshots, Known, RemoveTenant
<1>3. /\ ResumeTenant(s, t) \in Snapshots
      /\ ResumeTenant(s, t).paused \subseteq Known(ResumeTenant(s, t))
  BY DEF Snapshots, Known, ResumeTenant
<1>4. /\ PauseTenant(s, t) \in Snapshots /\ PauseTenant(s, t).paused = s.paused \cup {t}
      /\ Known(PauseTenant(s, t)) = Known(s)
  BY DEF Snapshots, Known, PauseTenant
<1> QED
  BY <1>1, <1>2, <1>3, <1>4

\* So does a reload of the table.
LEMMA RouterReloadType ==
  ASSUME NEW s \in Snapshots, NEW cfg \in Files
  PROVE  /\ Reload(s, cfg) \in Snapshots
         /\ Reload(s, cfg).paused = s.paused \cap Known(Reload(s, cfg))
         /\ cfg.defaults \in Modes
BY DEF Snapshots, Files, Known, Reload

\* The invariant holds when main has loaded a file and nothing has been asked yet.
LEMMA LifecycleInitially == Init => LifecycleInv
<1> SUFFICES ASSUME Init PROVE LifecycleInv
  OBVIOUS
<1>1. PICK cfg \in Files : snap = New(cfg) /\ poolDefaults = cfg.defaults
  BY DEF Init
<1>2. snap \in Snapshots /\ poolDefaults \in Modes /\ snap.paused = {}
  BY <1>1 DEF New, Files, Snapshots
<1>3. /\ pools = [t \in Tenants |-> NoPool] /\ obj = [p \in PoolObjs |-> Free]
      /\ health = [t \in Tenants |-> NoEntry] /\ round = {} /\ tenantMu = Nobody
      /\ req = [a \in Admins |-> NoRequest] /\ ses = [s \in Sessions |-> NoSession]
      /\ reload = Absent /\ reloads = 0
  BY DEF Init
<1>4. obj \in [PoolObjs -> [tenant : Tenants \cup {Absent}, mode : Modes, closed : BOOLEAN]]
  BY <1>3 DEF Free, Modes
<1>5. health \in [Tenants -> Entries]
  BY <1>3, LifecycleAssumption DEF NoEntry, Entries
<1>6. TypeOK
  BY <1>2, <1>3, <1>4, <1>5, LifecycleAssumption DEF TypeOK, NoRequest, NoSession, Modes
<1>7. \A p \in PoolObjs : obj[p].closed
  BY <1>3 DEF Free
<1>8. UnhealthyIsEarned
  <2>1. \A t \in Tenants : health[t].status = "absent" /\ health[t].fails = 0
    BY <1>3, Zenon DEF NoEntry
  <2>2. ~(0 >= FailureThreshold)
    BY LifecycleAssumption
  <2> QED
    BY <2>1, <2>2, Zenon DEF UnhealthyIsEarned
<1> QED
  BY <1>2, <1>3, <1>6, <1>7, <1>8
  DEF LifecycleInv, Positioned, Closers, OpenHaveTenants, PausedKnown, RegisteredPoolsOpen,
      OpenPoolsReachable, NoRequest

-----------------------------------------------------------------------------
(* Sessions *)

SessionRecords ==
  [pos : {"idle", "resolved", "unpaused", "healthy", "moded", "pooled", "relaying"},
   mysql : BOOLEAN, tenant : Tenants \cup {Absent}, tc : Configs \cup {Absent},
   mode : Modes, pool : PoolObjs \cup {NoPool}]

\* A session past its lookup has a tenant and a configuration.
SessionsTyped ==
  /\ ses \in [Sessions -> SessionRecords]
  /\ \A s \in Sessions :
       ses[s].pos # "idle" => ses[s].tenant \in Tenants /\ ses[s].tc \in Configs

\* A step that changes sessions only keeps the invariant if it keeps their types.
LEMMA SessionsOnly ==
  ASSUME LifecycleInv, SessionsTyped',
         UNCHANGED <<snap, pools, poolDefaults, obj, health, round, tenantMu, req, reload,
                     reloads>>
  PROVE  LifecycleInv'
<1>1. TypeOK'
  BY DEF LifecycleInv, TypeOK, SessionsTyped, SessionRecords
<1> QED
  BY <1>1 DEF LifecycleInv, Positioned, Closers, OpenHaveTenants, PausedKnown,
              RegisteredPoolsOpen, OpenPoolsReachable, UnhealthyIsEarned

\* Admission keeps the sessions' types: each check reads only what is there.
LEMMA AdmissionKeeps ==
  ASSUME LifecycleInv, NEW s \in Sessions,
         Resolve(s) \/ IsPaused(s) \/ IsHealthy(s) \/ PickMode(s) \/ EndSession(s)
  PROVE  LifecycleInv'
<1>1. SessionsTyped
  BY DEF LifecycleInv, TypeOK, SessionsTyped, SessionRecords
<1>2. NoSession \in SessionRecords /\ NoSession.pos = "idle"
  BY DEF NoSession, SessionRecords, Modes
<1>3. SessionsTyped'
  <2>1. CASE Resolve(s)
    <3>1. PICK t \in Known(snap), mysql \in BOOLEAN :
            ses' = [ses EXCEPT ![s] = [NoSession EXCEPT !.pos = "resolved", !.mysql = mysql,
                                                        !.tenant = t, !.tc = snap.tenants[t]]]
      BY <2>1, Zenon DEF Resolve
    <3>2. t \in Tenants /\ snap.tenants[t] \in Configs
      BY KnownConfigured DEF LifecycleInv, TypeOK
    <3>3. [NoSession EXCEPT !.pos = "resolved", !.mysql = mysql, !.tenant = t,
                            !.tc = snap.tenants[t]] \in SessionRecords
      BY <3>2, Zenon DEF NoSession, SessionRecords, Modes
    <3> QED
      BY <1>1, <3>1, <3>2, <3>3 DEF SessionsTyped, NoSession
  <2>2. CASE IsPaused(s) \/ IsHealthy(s)
    <3>1. PICK p \in {"unpaused", "healthy"} :
            ses' = [ses EXCEPT ![s] = NoSession] \/ ses' = [ses EXCEPT ![s].pos = p]
      BY <2>2 DEF IsPaused, IsHealthy
    <3>2. ses[s].pos # "idle"
      BY <2>2 DEF IsPaused, IsHealthy
    <3> QED
      BY <1>1, <1>2, <3>1, <3>2 DEF SessionsTyped, SessionRecords
  <2>3. CASE PickMode(s)
    <3>1. PICK p \in {"relaying", "moded"} :
            ses' = [ses EXCEPT ![s].pos = p,
                               ![s].mode = EffectivePoolMode(ses[s].tc, snap.defaults)]
      BY <2>3, Zenon DEF PickMode
    <3>2. ses[s].pos # "idle"
      BY <2>3 DEF PickMode
    <3>3. EffectivePoolMode(ses[s].tc, snap.defaults) \in Modes
      BY <1>1, <3>2, PoolModeType DEF SessionsTyped, LifecycleInv, TypeOK, Snapshots
    <3> DEFINE r == [ses[s] EXCEPT !.pos = p,
                                   !.mode = EffectivePoolMode(ses[s].tc, snap.defaults)]
    <3>4. /\ r \in SessionRecords /\ r.tenant = ses[s].tenant /\ r.tc = ses[s].tc
          /\ ses[s].tenant \in Tenants /\ ses[s].tc \in Configs
      BY <1>1, <3>2, <3>3, Zenon DEF SessionsTyped, SessionRecords
    <3>5. ses' = [ses EXCEPT ![s] = r]
      BY <1>1, <3>1, Zenon DEF SessionsTyped
    <3> HIDE DEF r
    <3> QED
      BY <1>1, <3>4, <3>5 DEF SessionsTyped
  <2>4. CASE EndSession(s)
    BY <1>1, <1>2, <2>4 DEF EndSession, SessionsTyped
  <2> QED
    BY <2>1, <2>2, <2>3, <2>4
<1> QED
  BY <1>3, SessionsOnly, Zenon DEF Resolve, IsPaused, IsHealthy, PickMode, EndSession

\* GetOrCreate returns the registered pool or registers a new one, which nothing
\* refers to yet: no other tenant's pool is touched and none is lost.
LEMMA GetOrCreateKeeps ==
  ASSUME LifecycleInv, NEW s \in Sessions, GetOrCreate(s)
  PROVE  LifecycleInv'
<1> DEFINE t == ses[s].tenant
<1>1. SessionsTyped
  BY DEF LifecycleInv, TypeOK, SessionsTyped, SessionRecords
<1>2. ses[s].pos # "idle"
  BY DEF GetOrCreate, WantsPool
<1>3. t \in Tenants /\ ses[s].tc \in Configs
  BY <1>1, <1>2 DEF SessionsTyped
<1>4. HasPool(s) \in {"pooled", "relaying"}
  BY DEF HasPool
<1>5. ASSUME NEW p \in PoolObjs, ses' = [ses EXCEPT ![s].pos = HasPool(s), ![s].pool = p]
      PROVE  SessionsTyped'
  <2> DEFINE r == [ses[s] EXCEPT !.pos = HasPool(s), !.pool = p]
  <2>1. r \in SessionRecords /\ r.tenant = ses[s].tenant /\ r.tc = ses[s].tc
    BY <1>1, <1>4, Zenon DEF SessionsTyped, SessionRecords
  <2>2. ses' = [ses EXCEPT ![s] = r]
    BY <1>1, <1>5, Zenon DEF SessionsTyped
  <2> HIDE DEF r
  <2> QED
    BY <1>1, <1>3, <2>1, <2>2 DEF SessionsTyped
<1>6. CASE pools[t] # NoPool /\ UNCHANGED <<pools, obj>>
           /\ ses' = [ses EXCEPT ![s].pos = HasPool(s), ![s].pool = pools[t]]
  <2>1. pools[t] \in PoolObjs
    BY <1>3, <1>6 DEF LifecycleInv, TypeOK
  <2> QED
    BY <1>5, <1>6, <2>1, SessionsOnly, Zenon DEF GetOrCreate
<1>7. ASSUME pools[t] = NoPool, NEW p \in PoolObjs, Unreferenced(p),
             obj' = [obj EXCEPT ![p] =
                       [tenant |-> t, closed |-> FALSE,
                        mode |-> EffectivePoolMode(ses[s].tc, poolDefaults)]],
             pools' = [pools EXCEPT ![t] = p],
             ses' = [ses EXCEPT ![s].pos = HasPool(s), ![s].pool = p]
      PROVE  LifecycleInv'
  <2>1. UNCHANGED <<snap, poolDefaults, health, round, tenantMu, req, reload, reloads>>
    BY DEF GetOrCreate
  <2>2. EffectivePoolMode(ses[s].tc, poolDefaults) \in Modes
    BY <1>3, PoolModeType DEF LifecycleInv, TypeOK
  <2>3. /\ obj' \in [PoolObjs -> [tenant : Tenants \cup {Absent}, mode : Modes,
                                  closed : BOOLEAN]]
        /\ obj'[p].tenant = t /\ ~obj'[p].closed
        /\ \A q \in PoolObjs : q # p => obj'[q] = obj[q]
    BY <1>3, <1>7, <2>2 DEF LifecycleInv, TypeOK
  <2>4. /\ pools' \in [Tenants -> PoolObjs \cup {NoPool}] /\ pools'[t] = p
        /\ \A u \in Tenants : u # t => pools'[u] = pools[u]
    BY <1>3, <1>7 DEF LifecycleInv, TypeOK
  <2>5. /\ \A u \in Tenants : pools[u] # p
        /\ \A a \in Admins : req[a].pool # p
    BY <1>7 DEF Unreferenced
  <2>6. p # NoPool
    BY LifecycleAssumption
  <2>7. TypeOK'
    BY <1>5, <1>7, <2>1, <2>3, <2>4, Zenon DEF LifecycleInv, TypeOK, SessionsTyped, SessionRecords
  <2>8. Closers'
    BY <2>1, <2>4, <2>5 DEF LifecycleInv, Closers
  <2>9. RegisteredPoolsOpen'
    BY <1>3, <2>3, <2>4, <2>5 DEF LifecycleInv, TypeOK, RegisteredPoolsOpen
  <2>10. OpenPoolsReachable'
    BY <1>3, <1>7, <2>1, <2>3, <2>4, LifecycleAssumption
    DEF LifecycleInv, TypeOK, OpenPoolsReachable, OpenHaveTenants
  <2>11. OpenHaveTenants'
    BY <1>3, <2>3 DEF LifecycleInv, OpenHaveTenants
  <2> QED
    BY <2>1, <2>7, <2>8, <2>9, <2>10, <2>11
    DEF LifecycleInv, Positioned, PausedKnown, UnhealthyIsEarned
<1> QED
  BY <1>6, <1>7 DEF GetOrCreate

-----------------------------------------------------------------------------
(* The API's requests *)

RequestRecords ==
  [pos : {"idle", "merged", "removed", "closing", "closed"}, tenant : Tenants \cup {Absent},
   tc : Configs \cup {Absent}, pool : PoolObjs \cup {NoPool}]

\* A step that changes the table, and perhaps requests that close no pool, keeps the
\* invariant if it keeps the table's.
LEMMA TableOnly ==
  ASSUME LifecycleInv, snap' \in Snapshots, PausedKnown',
         req' \in [Admins -> RequestRecords], tenantMu' \in Admins \cup {Nobody}, Positioned',
         \A a \in Admins : req[a].pos = "closing" \/ req'[a].pos = "closing" =>
                              req'[a] = req[a],
         UNCHANGED <<pools, poolDefaults, obj, health, round, ses>>,
         reload' \in Modes \cup {Absent}, reloads' \in 0 .. MaxReloads
  PROVE  LifecycleInv'
<1>1. TypeOK'
  BY DEF LifecycleInv, TypeOK, RequestRecords
<1>2. Closers'
  BY DEF LifecycleInv, Closers
<1>3. OpenPoolsReachable'
  BY DEF LifecycleInv, OpenPoolsReachable
<1> QED
  BY <1>1, <1>2, <1>3 DEF LifecycleInv, OpenHaveTenants, RegisteredPoolsOpen, UnhealthyIsEarned

\* The handlers that write to the table.
LEMMA TableHandlersKeep ==
  ASSUME LifecycleInv, NEW a \in Admins,
         \/ createTenant(a) \/ updateTenant(a) \/ StoreUpdate(a) \/ deleteTenant(a)
         \/ pauseTenant(a) \/ resumeTenant(a)
  PROVE  LifecycleInv'
<1>1. /\ snap \in Snapshots /\ snap.paused \subseteq Known(snap)
      /\ req \in [Admins -> RequestRecords] /\ tenantMu \in Admins \cup {Nobody}
      /\ reload \in Modes \cup {Absent} /\ reloads \in 0 .. MaxReloads /\ Positioned
  BY DEF LifecycleInv, TypeOK, RequestRecords, PausedKnown
<1>2. NoRequest \in RequestRecords /\ NoRequest.pos = "idle" /\ NoRequest.pool = NoPool
  BY DEF NoRequest, RequestRecords
<1>3. CASE createTenant(a)
  <2>1. PICK t \in Tenants, h \in Hosts : snap' = AddTenant(snap, t, [mode |-> "unset", host |-> h])
    BY <1>3 DEF createTenant
  <2>2. [mode |-> "unset", host |-> h] \in Configs
    BY DEF Configs
  <2>3. snap' \in Snapshots /\ PausedKnown'
    BY <1>1, <2>1, <2>2, RouterType DEF PausedKnown
  <2>4. UNCHANGED <<pools, poolDefaults, obj, health, round, tenantMu, req, ses, reload, reloads>>
    BY <1>3 DEF createTenant
  <2>5. Positioned'
    BY <1>1, <2>4 DEF Positioned
  <2> QED
    BY <1>1, <2>3, <2>4, <2>5, TableOnly
<1>4. CASE updateTenant(a)
  <2>1. PICK t \in Known(snap), h \in Hosts :
          req' = [req EXCEPT ![a] = [pos |-> "merged", tenant |-> t, pool |-> NoPool,
                                     tc |-> [snap.tenants[t] EXCEPT !.host = h]]]
    BY <1>4, Zenon DEF updateTenant
  <2>2. t \in Tenants /\ [snap.tenants[t] EXCEPT !.host = h] \in Configs
    BY <1>1, KnownConfigured DEF Configs
  <2>3. /\ UNCHANGED <<snap, pools, poolDefaults, obj, health, round, ses, reload, reloads>>
        /\ tenantMu' = a /\ req[a].pos = "idle"
    BY <1>4 DEF updateTenant
  <2> DEFINE r == [pos |-> "merged", tenant |-> t, pool |-> NoPool,
                   tc |-> [snap.tenants[t] EXCEPT !.host = h]]
  <2>4. r \in RequestRecords /\ r.pos = "merged" /\ r.tenant \in Tenants /\ r.tc \in Configs
        /\ r.pool = NoPool
    BY <2>2 DEF RequestRecords
  <2>5. req' = [req EXCEPT ![a] = r]
    BY <2>1
  <2> HIDE DEF r
  <2>6. req' \in [Admins -> RequestRecords]
    BY <1>1, <2>4, <2>5
  <2>7. Positioned'
    BY <1>1, <2>4, <2>5 DEF Positioned
  <2>8. \A b \in Admins : req[b].pos = "closing" \/ req'[b].pos = "closing" => req'[b] = req[b]
    BY <1>1, <2>3, <2>4, <2>5
  <2> QED
    BY <1>1, <2>3, <2>6, <2>7, <2>8, TableOnly DEF PausedKnown
<1>5. CASE StoreUpdate(a)
  <2>1. /\ req[a].pos = "merged" /\ snap' = AddTenant(snap, req[a].tenant, req[a].tc)
        /\ req' = [req EXCEPT ![a] = NoRequest] /\ tenantMu' = Nobody
        /\ UNCHANGED <<pools, poolDefaults, obj, health, round, ses, reload, reloads>>
    BY <1>5 DEF StoreUpdate
  <2>2. req[a].tenant \in Tenants /\ req[a].tc \in Configs
    BY <1>1, <2>1 DEF Positioned
  <2>3. snap' \in Snapshots /\ PausedKnown'
    BY <1>1, <2>1, <2>2, RouterType DEF PausedKnown
  <2>4. req' \in [Admins -> RequestRecords]
    BY <1>1, <1>2, <2>1
  <2>5. Positioned'
    BY <1>1, <1>2, <2>1 DEF Positioned
  <2>6. \A b \in Admins : req[b].pos = "closing" \/ req'[b].pos = "closing" => req'[b] = req[b]
    BY <1>1, <1>2, <2>1
  <2> QED
    BY <1>1, <2>1, <2>3, <2>4, <2>5, <2>6, TableOnly
<1>6. CASE deleteTenant(a)
  <2>1. PICK t \in Known(snap) :
          /\ snap' = RemoveTenant(snap, t)
          /\ req' = [req EXCEPT ![a] = [NoRequest EXCEPT !.pos = "removed", !.tenant = t]]
    BY <1>6, Zenon DEF deleteTenant
  <2>2. /\ UNCHANGED <<pools, poolDefaults, obj, health, round, tenantMu, ses, reload, reloads>>
        /\ req[a].pos = "idle" /\ t \in Tenants
    BY <1>1, <1>6, KnownConfigured, Zenon DEF deleteTenant
  <2>3. snap' \in Snapshots /\ PausedKnown'
    BY <1>1, <2>1, <2>2, RouterType DEF PausedKnown
  <2> DEFINE r == [NoRequest EXCEPT !.pos = "removed", !.tenant = t]
  <2>4. r \in RequestRecords /\ r.pos = "removed" /\ r.tenant = t /\ r.pool = NoPool
    BY <2>2, Zenon DEF NoRequest, RequestRecords
  <2>5. req' = [req EXCEPT ![a] = r]
    BY <2>1
  <2> HIDE DEF r
  <2>6. req' \in [Admins -> RequestRecords]
    BY <1>1, <2>4, <2>5
  <2>7. Positioned'
    BY <1>1, <2>2, <2>4, <2>5 DEF Positioned
  <2>8. \A b \in Admins : req[b].pos = "closing" \/ req'[b].pos = "closing" => req'[b] = req[b]
    BY <1>1, <2>2, <2>4, <2>5
  <2> QED
    BY <1>1, <2>2, <2>3, <2>6, <2>7, <2>8, TableOnly
<1>7. CASE pauseTenant(a) \/ resumeTenant(a)
  <2>1. PICK t \in Known(snap) : snap' = PauseTenant(snap, t) \/ snap' = ResumeTenant(snap, t)
    BY <1>7 DEF pauseTenant, resumeTenant
  <2>2. t \in Tenants
    BY <1>1, KnownConfigured
  <2>3. snap' \in Snapshots /\ PausedKnown'
    BY <1>1, <2>1, <2>2, RouterType DEF PausedKnown
  <2>4. UNCHANGED <<pools, poolDefaults, obj, health, round, tenantMu, req, ses, reload, reloads>>
    BY <1>7 DEF pauseTenant, resumeTenant
  <2>5. Positioned'
    BY <1>1, <2>4 DEF Positioned
  <2> QED
    BY <1>1, <2>3, <2>4, <2>5, TableOnly
<1> QED
  BY <1>3, <1>4, <1>5, <1>6, <1>7

\* Manager.Remove: the pool leaves the map and becomes the request's own.
LEMMA RemovePoolKeeps ==
  ASSUME LifecycleInv, NEW a \in Admins, RemovePool(a)
  PROVE  LifecycleInv'
<1> DEFINE t == req[a].tenant
<1>1. /\ req[a].pos = "removed" /\ pools' = [pools EXCEPT ![t] = NoPool]
      /\ UNCHANGED <<snap, poolDefaults, obj, health, round, tenantMu, ses, reload, reloads>>
  BY DEF RemovePool
<1>2. t \in Tenants /\ pools[t] \in PoolObjs \cup {NoPool} /\ req[a].pool = NoPool
  BY <1>1 DEF LifecycleInv, TypeOK, Positioned
<1> DEFINE r == [req[a] EXCEPT !.pos = IF pools[t] = NoPool THEN "closed" ELSE "closing",
                               !.pool = pools[t]]
<1>3. /\ r \in RequestRecords /\ r.tenant = t /\ r.pool = pools[t] /\ r.pos # "merged"
      /\ r.pos = "closing" <=> pools[t] # NoPool
  BY <1>1, <1>2, Zenon DEF LifecycleInv, TypeOK, RequestRecords
<1>4. req' = [req EXCEPT ![a] = r]
  BY Zenon DEF RemovePool, LifecycleInv, TypeOK
<1> HIDE DEF r
<1>5. /\ req' \in [Admins -> RequestRecords] /\ req'[a] = r
      /\ \A b \in Admins : b # a => req'[b] = req[b]
  BY <1>3, <1>4 DEF LifecycleInv, TypeOK, RequestRecords
<1>6. /\ pools' \in [Tenants -> PoolObjs \cup {NoPool}] /\ pools'[t] = NoPool
      /\ \A u \in Tenants : u # t => pools'[u] = pools[u]
  BY <1>1, <1>2 DEF LifecycleInv, TypeOK
<1>7. TypeOK'
  BY <1>1, <1>5, <1>6 DEF LifecycleInv, TypeOK, RequestRecords
<1>8. Positioned'
  BY <1>2, <1>3, <1>5 DEF LifecycleInv, Positioned
<1>9. Closers'
  <2>1. \A u \in Tenants : u # t /\ pools[t] # NoPool => pools[u] # pools[t]
    BY <1>2 DEF LifecycleInv, RegisteredPoolsOpen
  <2>2. \A b \in Admins : b # a /\ req[b].pos = "closing" => req[b].pool # pools[t]
    BY <1>2 DEF LifecycleInv, Closers
  <2>3. \A b \in Admins : req[b].pos = "closing" => req[b].pool # NoPool
    BY DEF LifecycleInv, Positioned
  <2>4. ASSUME NEW b \in Admins, req'[b].pos = "closing", NEW u \in Tenants
        PROVE  pools'[u] # req'[b].pool
    BY <1>2, <1>3, <1>5, <1>6, <2>1, <2>3, <2>4 DEF LifecycleInv, Closers
  <2>5. ASSUME NEW b \in Admins, req'[b].pos = "closing",
               NEW c \in Admins, c # b, req'[c].pos = "closing"
        PROVE  req'[c].pool # req'[b].pool
    BY <1>3, <1>5, <2>2, <2>5 DEF LifecycleInv, Closers
  <2> QED
    BY <2>4, <2>5 DEF Closers
<1>10. RegisteredPoolsOpen'
  BY <1>1, <1>6 DEF LifecycleInv, RegisteredPoolsOpen
<1>11. OpenPoolsReachable'
  <2> SUFFICES ASSUME NEW p \in PoolObjs, ~obj[p].closed
               PROVE  \/ pools'[obj[p].tenant] = p
                      \/ \E b \in Admins : req'[b].pos = "closing" /\ req'[b].pool = p
    BY <1>1 DEF OpenPoolsReachable
  <2>1. obj[p].tenant \in Tenants /\ p # NoPool
    BY LifecycleAssumption DEF LifecycleInv, OpenHaveTenants
  <2>2. CASE pools[obj[p].tenant] = p
    BY <1>3, <1>5, <1>6, <2>1, <2>2
  <2>3. CASE \E b \in Admins : req[b].pos = "closing" /\ req[b].pool = p
    BY <1>1, <1>5, <2>3
  <2> QED
    BY <2>2, <2>3 DEF LifecycleInv, OpenPoolsReachable
<1> QED
  BY <1>1, <1>7, <1>8, <1>9, <1>10, <1>11
  DEF LifecycleInv, OpenHaveTenants, PausedKnown, UnhealthyIsEarned

\* A pool whose closed field is set to v.
LEMMA ClosedField ==
  ASSUME NEW S, NEW x \in [tenant : S, mode : Modes, closed : BOOLEAN], NEW v \in BOOLEAN
  PROVE  /\ [x EXCEPT !.closed = v] \in [tenant : S, mode : Modes, closed : BOOLEAN]
         /\ [x EXCEPT !.closed = v].closed = v
OBVIOUS

\* Close of a pool that nothing but this request can reach.
LEMMA ClosePoolKeeps ==
  ASSUME LifecycleInv, NEW a \in Admins, ClosePool(a)
  PROVE  LifecycleInv'
<1> DEFINE q == req[a].pool
<1>1. /\ req[a].pos = "closing" /\ obj' = [obj EXCEPT ![q].closed = TRUE]
      /\ UNCHANGED <<snap, pools, poolDefaults, health, round, tenantMu, ses, reload, reloads>>
  BY DEF ClosePool
<1>2. q \in PoolObjs /\ req[a].tenant \in Tenants
  BY <1>1 DEF LifecycleInv, TypeOK, Positioned
<1> DEFINE r == [req[a] EXCEPT !.pos = "closed", !.pool = NoPool]
<1>3. r \in RequestRecords /\ r.tenant = req[a].tenant /\ r.pool = NoPool /\ r.pos = "closed"
  BY <1>1, Zenon DEF LifecycleInv, TypeOK, RequestRecords
<1>4. req' = [req EXCEPT ![a] = r]
  BY Zenon DEF ClosePool, LifecycleInv, TypeOK
<1> HIDE DEF r
<1>5. /\ req' \in [Admins -> RequestRecords] /\ req'[a] = r
      /\ \A b \in Admins : b # a => req'[b] = req[b]
  BY <1>3, <1>4 DEF LifecycleInv, TypeOK, RequestRecords
<1>6. /\ obj' \in [PoolObjs -> [tenant : Tenants \cup {Absent}, mode : Modes, closed : BOOLEAN]]
      /\ obj'[q].closed
      /\ \A p \in PoolObjs : p # q => obj'[p] = obj[p]
  <2> DEFINE o == [obj[q] EXCEPT !.closed = TRUE]
  <2>1. o \in [tenant : Tenants \cup {Absent}, mode : Modes, closed : BOOLEAN] /\ o.closed
    <3>1. obj[q] \in [tenant : Tenants \cup {Absent}, mode : Modes, closed : BOOLEAN]
      BY <1>2 DEF LifecycleInv, TypeOK
    <3> QED
      BY <3>1, ClosedField, Zenon
  <2>2. obj' = [obj EXCEPT ![q] = o]
    BY <1>1
  <2> HIDE DEF o
  <2> QED
    BY <1>2, <2>1, <2>2 DEF LifecycleInv, TypeOK
<1>7. TypeOK'
  BY <1>1, <1>5, <1>6 DEF LifecycleInv, TypeOK, RequestRecords
<1>8. Positioned'
  BY <1>2, <1>3, <1>5 DEF LifecycleInv, Positioned
<1>9. Closers'
  BY <1>1, <1>3, <1>5 DEF LifecycleInv, Closers
<1>10. RegisteredPoolsOpen'
  BY <1>1, <1>6 DEF LifecycleInv, TypeOK, Closers, RegisteredPoolsOpen
<1>11. OpenPoolsReachable'
  BY <1>1, <1>5, <1>6 DEF LifecycleInv, OpenPoolsReachable
<1>12. OpenHaveTenants'
  BY <1>6 DEF LifecycleInv, OpenHaveTenants
<1> QED
  BY <1>1, <1>7, <1>8, <1>9, <1>10, <1>11, <1>12
  DEF LifecycleInv, PausedKnown, UnhealthyIsEarned

-----------------------------------------------------------------------------
(* The health checker *)

\* An entry that says unhealthy exactly from the threshold on.
Earned(e) == e.status = "unhealthy" <=> e.fails >= FailureThreshold

\* A step that changes health entries only keeps the invariant if it keeps theirs.
LEMMA HealthOnly ==
  ASSUME LifecycleInv, NEW t \in Tenants, NEW e \in Entries, Earned(e),
         health' = [health EXCEPT ![t] = e], round' \subseteq Tenants,
         req' \in [Admins -> RequestRecords], Positioned',
         \A a \in Admins : req[a].pos = "closing" \/ req'[a].pos = "closing" =>
                              req'[a] = req[a],
         UNCHANGED <<snap, pools, poolDefaults, obj, tenantMu, ses, reload, reloads>>
  PROVE  LifecycleInv'
<1>1. health' \in [Tenants -> Entries]
  BY DEF LifecycleInv, TypeOK
<1>2. TypeOK'
  BY <1>1 DEF LifecycleInv, TypeOK, RequestRecords
<1>3. UnhealthyIsEarned'
  BY DEF LifecycleInv, TypeOK, UnhealthyIsEarned, Earned
<1>4. Closers' /\ OpenPoolsReachable'
  BY DEF LifecycleInv, Closers, OpenPoolsReachable
<1> QED
  BY <1>2, <1>3, <1>4 DEF LifecycleInv, OpenHaveTenants, PausedKnown, RegisteredPoolsOpen

\* What the checker makes of an entry is an entry, with the status it has earned.
LEMMA EntriesEarned ==
  ASSUME NEW e \in Entries, Earned(e)
  PROVE  /\ CountFailure(e) \in Entries /\ Earned(CountFailure(e))
         /\ CountSuccess(e) \in Entries /\ Earned(CountSuccess(e))
         /\ getOrCreate(e) \in Entries /\ Earned(getOrCreate(e))
         /\ NoEntry \in Entries /\ Earned(NoEntry)
<1>1. FailureThreshold \in Nat /\ FailureThreshold > 0 /\ e.fails \in 0 .. FailureThreshold
  BY LifecycleAssumption DEF Entries
<1>2. CountSuccess(e) \in Entries /\ Earned(CountSuccess(e))
  <2>1. /\ CountSuccess(e) \in Entries
        /\ CountSuccess(e).status # "unhealthy" /\ ~(CountSuccess(e).fails >= FailureThreshold)
    BY <1>1 DEF CountSuccess, Entries
  <2> QED
    BY <2>1 DEF Earned
<1>3. NoEntry \in Entries /\ Earned(NoEntry)
  <2>1. /\ NoEntry \in Entries
        /\ NoEntry.status # "unhealthy" /\ ~(NoEntry.fails >= FailureThreshold)
    BY <1>1 DEF NoEntry, Entries
  <2> QED
    BY <2>1 DEF Earned
<1>4. getOrCreate(e) \in Entries /\ Earned(getOrCreate(e)) /\ getOrCreate(e).fails = e.fails
  BY DEF getOrCreate, Entries, Earned
<1>5. CASE e.fails + 1 < FailureThreshold
  <2>1. CountFailure(e) = [status |-> getOrCreate(e).status, fails |-> e.fails + 1]
    BY <1>1, <1>5 DEF CountFailure
  <2>2. e.status # "unhealthy" /\ e.fails + 1 \in 0 .. FailureThreshold
    BY <1>1, <1>5 DEF Earned
  <2>3. /\ getOrCreate(e).status # "unhealthy"
        /\ getOrCreate(e).status \in {"absent", "unknown", "healthy", "unhealthy"}
    BY <2>2 DEF getOrCreate, Entries
  <2>4. CountFailure(e) \in Entries
    BY <2>1, <2>2, <2>3 DEF Entries
  <2>5. CountFailure(e).status # "unhealthy" /\ ~(CountFailure(e).fails >= FailureThreshold)
    BY <1>1, <1>5, <2>1, <2>3
  <2> QED
    BY <1>2, <1>3, <1>4, <2>4, <2>5 DEF Earned
<1>6. CASE e.fails + 1 >= FailureThreshold
  <2>1. CountFailure(e) = [status |-> "unhealthy", fails |-> FailureThreshold]
    BY <1>1, <1>6 DEF CountFailure
  <2>2. CountFailure(e) \in Entries
    BY <1>1, <2>1 DEF Entries
  <2>3. CountFailure(e).status = "unhealthy" /\ CountFailure(e).fails >= FailureThreshold
    BY <1>1, <2>1
  <2> QED
    BY <1>2, <1>3, <1>4, <2>2, <2>3 DEF Earned
<1> QED
  BY <1>1, <1>2, <1>3, <1>4, <1>5, <1>6

\* Every report of the checker, and the removal of an entry, keeps the invariant.
LEMMA HealthKeeps ==
  ASSUME LifecycleInv,
         \/ \E t \in Tenants : setLastError(t) \/ updateStatus(t)
         \/ \E a \in Admins : ForgetHealth(a)
  PROVE  LifecycleInv'
<1>1. /\ req \in [Admins -> RequestRecords] /\ Positioned /\ round \subseteq Tenants
      /\ health \in [Tenants -> Entries] /\ \A t \in Tenants : Earned(health[t])
  BY DEF LifecycleInv, TypeOK, RequestRecords, UnhealthyIsEarned, Earned
<1>2. ASSUME NEW t \in Tenants, setLastError(t) \/ updateStatus(t)
      PROVE  LifecycleInv'
  <2>1. /\ UNCHANGED <<snap, pools, poolDefaults, obj, tenantMu, req, ses, reload, reloads>>
        /\ round' \subseteq Tenants
    BY <1>1, <1>2 DEF setLastError, updateStatus
  <2>2. PICK e \in {getOrCreate(health[t]), CountSuccess(health[t]), CountFailure(health[t])} :
          health' = [health EXCEPT ![t] = e]
    BY <1>2 DEF setLastError, updateStatus
  <2>3. e \in Entries /\ Earned(e)
    BY <1>1, EntriesEarned
  <2>4. Positioned'
    BY <1>1, <2>1 DEF Positioned
  <2> QED
    BY <1>1, <2>1, <2>2, <2>3, <2>4, HealthOnly, Zenon
<1>3. ASSUME NEW a \in Admins, ForgetHealth(a)
      PROVE  LifecycleInv'
  <2>1. /\ req[a].pos = "closed" /\ health' = [health EXCEPT ![req[a].tenant] = NoEntry]
        /\ req' = [req EXCEPT ![a] = NoRequest]
        /\ UNCHANGED <<snap, pools, poolDefaults, obj, round, tenantMu, ses, reload, reloads>>
    BY <1>3 DEF ForgetHealth
  <2>2. req[a].tenant \in Tenants
    BY <1>1, <2>1 DEF Positioned
  <2>3. NoEntry \in Entries /\ Earned(NoEntry)
    BY <1>1, <2>2, EntriesEarned
  <2>4. NoRequest \in RequestRecords /\ NoRequest.pos = "idle" /\ NoRequest.pool = NoPool
    BY DEF NoRequest, RequestRecords
  <2>5. req' \in [Admins -> RequestRecords]
    BY <1>1, <2>1, <2>4
  <2>6. Positioned'
    BY <1>1, <2>1, <2>4 DEF Positioned
  <2>7. \A b \in Admins : req[b].pos = "closing" \/ req'[b].pos = "closing" => req'[b] = req[b]
    BY <1>1, <2>1, <2>4
  <2> QED
    BY <1>1, <2>1, <2>2, <2>3, <2>5, <2>6, <2>7, HealthOnly, Zenon
<1> QED
  BY <1>2, <1>3

-----------------------------------------------------------------------------
(* The reload, the rounds of the checker, and the theorems *)

\* The two halves of a reload, and the start of a round of checks.
LEMMA ReloadKeeps ==
  ASSUME LifecycleInv, ReloadRouter \/ UpdateDefaults \/ checkAll
  PROVE  LifecycleInv'
<1>1. /\ snap \in Snapshots /\ snap.paused \subseteq Known(snap)
      /\ req \in [Admins -> RequestRecords] /\ tenantMu \in Admins \cup {Nobody}
      /\ reload \in Modes \cup {Absent} /\ reloads \in 0 .. MaxReloads /\ Positioned
  BY DEF LifecycleInv, TypeOK, RequestRecords, PausedKnown
<1>2. CASE ReloadRouter
  <2>1. PICK cfg \in Files : snap' = Reload(snap, cfg) /\ reload' = cfg.defaults
    BY <1>2 DEF ReloadRouter
  <2>2. snap' \in Snapshots /\ PausedKnown' /\ reload' \in Modes
    BY <1>1, <2>1, RouterReloadType DEF PausedKnown
  <2>3. /\ UNCHANGED <<pools, poolDefaults, obj, health, round, tenantMu, req, ses>>
        /\ reloads < MaxReloads /\ reloads' = reloads + 1
    BY <1>2 DEF ReloadRouter
  <2>4. reloads' \in 0 .. MaxReloads
    BY <1>1, <2>3, LifecycleAssumption
  <2>5. Positioned'
    BY <1>1, <2>3 DEF Positioned
  <2> QED
    BY <1>1, <2>2, <2>3, <2>4, <2>5, TableOnly
<1>3. CASE UpdateDefaults \/ checkAll
  <2>1. UNCHANGED <<snap, pools, obj, health, tenantMu, req, ses, reloads>>
    BY <1>3 DEF UpdateDefaults, checkAll
  <2>2. poolDefaults' \in Modes /\ reload' \in Modes \cup {Absent} /\ round' \subseteq Tenants
    BY <1>1, <1>3 DEF UpdateDefaults, checkAll, LifecycleInv, TypeOK, Known
  <2>3. TypeOK'
    BY <2>1, <2>2 DEF LifecycleInv, TypeOK
  <2> QED
    BY <2>1, <2>3 DEF LifecycleInv, Positioned, Closers, OpenHaveTenants, PausedKnown,
                      RegisteredPoolsOpen, OpenPoolsReachable, UnhealthyIsEarned
<1> QED
  BY <1>2, <1>3

\* The invariant holds in every state.
LEMMA LifecycleInvariant == Spec => []LifecycleInv
<1>1. LifecycleInv /\ [Next]_vars => LifecycleInv'
  <2> SUFFICES ASSUME LifecycleInv, [Next]_vars PROVE LifecycleInv'
    OBVIOUS
  <2>1. CASE UNCHANGED vars
    <3>1. TypeOK'
      BY <2>1 DEF vars, LifecycleInv, TypeOK
    <3> QED
      BY <2>1, <3>1
      DEF vars, LifecycleInv, Positioned, Closers, OpenHaveTenants, PausedKnown,
          RegisteredPoolsOpen, OpenPoolsReachable, UnhealthyIsEarned
  <2>2. ASSUME NEW s \in Sessions, SessionStep(s) PROVE LifecycleInv'
    BY <2>2, AdmissionKeeps, GetOrCreateKeeps DEF SessionStep
  <2>3. ASSUME NEW a \in Admins, AdminStep(a) PROVE LifecycleInv'
    BY <2>3, TableHandlersKeep, RemovePoolKeeps, ClosePoolKeeps, HealthKeeps DEF AdminStep
  <2> QED
    BY <2>1, <2>2, <2>3, ReloadKeeps, HealthKeeps DEF Next
<1> QED
  BY LifecycleInitially, <1>1, PTL DEF Spec

\* The components keep the types of what they hold, and a session past Resolve has a
\* tenant and its configuration.
THEOREM LifecycleTypes == Spec => []TypeOK
<1>1. LifecycleInv => TypeOK
  BY DEF LifecycleInv
<1> QED
  BY LifecycleInvariant, <1>1, PTL

\* Whatever sessions, deletions and re-creations interleave, the manager's map offers
\* only open pools of the right tenant (GetOrCreate and Remove of pool.go).
THEOREM MapOffersOpenPools == Spec => []RegisteredPoolsOpen
<1>1. LifecycleInv => RegisteredPoolsOpen
  BY DEF LifecycleInv
<1> QED
  BY LifecycleInvariant, <1>1, PTL

\* No interleaving of GetOrCreate with Remove leaves an open pool that nothing will
\* close.
THEOREM NoPoolLost == Spec => []OpenPoolsReachable
<1>1. LifecycleInv => OpenPoolsReachable
  BY DEF LifecycleInv
<1> QED
  BY LifecycleInvariant, <1>1, PTL

\* The health checker's verdict and its count of failures agree for any threshold,
\* though a late report may follow the removal of the entry.
THEOREM VerdictEarned == Spec => []UnhealthyIsEarned
<1>1. LifecycleInv => UnhealthyIsEarned
  BY DEF LifecycleInv
<1> QED
  BY LifecycleInvariant, <1>1, PTL

\* What becomes of the pauses in one step: a tenant that was paused and is still in the
\* table is paused, unless the step resumes a tenant.
LEMMA StepKeepsPauses ==
  ASSUME LifecycleInv, [Next]_vars
  PROVE  \/ snap.paused \cap Known(snap') \subseteq snap'.paused
         \/ \E a \in Admins : resumeTenant(a)
<1>1. snap \in Snapshots /\ snap.paused \subseteq Known(snap) /\ Positioned
  BY DEF LifecycleInv, TypeOK, PausedKnown
<1>2. CASE UNCHANGED snap
  BY <1>2
<1>3. ASSUME NEW a \in Admins, createTenant(a)
      PROVE  snap'.paused = snap.paused
  <2>1. PICK t \in Tenants, h \in Hosts : snap' = AddTenant(snap, t, [mode |-> "unset", host |-> h])
    BY <1>3 DEF createTenant
  <2>2. [mode |-> "unset", host |-> h] \in Configs
    BY DEF Configs
  <2> QED
    BY <1>1, <2>1, <2>2, RouterType
<1>4. ASSUME NEW a \in Admins, StoreUpdate(a)
      PROVE  snap'.paused = snap.paused
  <2>1. req[a].tenant \in Tenants /\ req[a].tc \in Configs
    BY <1>1, <1>4 DEF StoreUpdate, Positioned
  <2> QED
    BY <1>1, <1>4, <2>1, RouterType DEF StoreUpdate
<1>5. ASSUME NEW a \in Admins, deleteTenant(a)
      PROVE  snap.paused \cap Known(snap') \subseteq snap'.paused
  <2>1. PICK t \in Known(snap) : snap' = RemoveTenant(snap, t)
    BY <1>5 DEF deleteTenant
  <2> QED
    BY <1>1, <2>1, KnownConfigured, RouterType
<1>6. ASSUME NEW a \in Admins, pauseTenant(a)
      PROVE  snap.paused \subseteq snap'.paused
  <2>1. PICK t \in Known(snap) : snap' = PauseTenant(snap, t)
    BY <1>6 DEF pauseTenant
  <2> QED
    BY <1>1, <2>1, KnownConfigured, RouterType
<1>7. CASE ReloadRouter
  <2>1. PICK cfg \in Files : snap' = Reload(snap, cfg)
    BY <1>7 DEF ReloadRouter
  <2> QED
    BY <1>1, <2>1, RouterReloadType
<1>8. \/ UNCHANGED snap \/ ReloadRouter
      \/ \E a \in Admins : \/ createTenant(a) \/ StoreUpdate(a) \/ deleteTenant(a)
                           \/ pauseTenant(a) \/ resumeTenant(a)
  <2>1. CASE \E s \in Sessions : SessionStep(s)
    BY <2>1, Zenon DEF SessionStep, Resolve, IsPaused, IsHealthy, PickMode, GetOrCreate, EndSession
  <2>2. CASE \E a \in Admins : updateTenant(a) \/ RemovePool(a) \/ ClosePool(a) \/ ForgetHealth(a)
    BY <2>2 DEF updateTenant, RemovePool, ClosePool, ForgetHealth
  <2>3. CASE UpdateDefaults \/ checkAll \/ \E t \in Tenants : setLastError(t) \/ updateStatus(t)
    BY <2>3 DEF UpdateDefaults, checkAll, setLastError, updateStatus
  <2> QED
    BY <2>1, <2>2, <2>3 DEF Next, AdminStep, vars
<1> QED
  BY <1>2, <1>3, <1>4, <1>5, <1>6, <1>7, <1>8

\* No update, re-creation, deletion or reload of the table loses a pause or leaves one
\* behind, for any interleaving of the API's requests with reloads.
THEOREM PausesKept == Spec => PausesFollowTenants
<1>1. ASSUME LifecycleInv, LifecycleInv', [Next]_vars
      PROVE  [/\ snap.paused' \subseteq Known(snap)'
              /\ \A t \in snap.paused \cap Known(snap)' :
                   t \in snap.paused' \/ \E a \in Admins : resumeTenant(a)]_vars
  <2>1. snap.paused' \subseteq Known(snap)'
    BY <1>1 DEF LifecycleInv, PausedKnown
  <2>2. \/ snap.paused \cap Known(snap)' \subseteq snap.paused'
        \/ \E a \in Admins : resumeTenant(a)
    BY <1>1, StepKeepsPauses DEF Known
  <2> QED
    BY <2>1, <2>2
<1> QED
  BY LifecycleInvariant, <1>1, PTL DEF Spec, PausesFollowTenants

=============================================================================
