------------------------------- MODULE Router -------------------------------
(***************************************************************************)
(* The routing table (internal/router/router.go): immutable snapshots      *)
(* swapped atomically.  Each mutation holds wmu from its load to its       *)
(* store, so it is a function from the current snapshot to the next; a     *)
(* reader sees one snapshot per call.                                      *)
(***************************************************************************)
CONSTANTS
  Tenants,   \* tenant IDs
  Hosts,     \* what a configuration says beside its pool mode
  Absent     \* no configuration

Modes == {"session", "transaction"}

\* A tenant's own pool mode may be unset (a nil PoolMode).
Configs == [mode : Modes \cup {"unset"}, host : Hosts]

\* A configuration file, as far as the router reads it.
Files == [tenants : [Tenants -> Configs \cup {Absent}], defaults : Modes]

Snapshots == [tenants : [Tenants -> Configs \cup {Absent}], defaults : Modes,
              paused : SUBSET Tenants]

Known(s) == {t \in Tenants : s.tenants[t] # Absent}

EffectivePoolMode(tc, defaults) == IF tc.mode = "unset" THEN defaults ELSE tc.mode

New(cfg) == [tenants |-> cfg.tenants, defaults |-> cfg.defaults, paused |-> {}]

AddTenant(s, t, tc) == [s EXCEPT !.tenants[t] = tc]

RemoveTenant(s, t) == [s EXCEPT !.tenants[t] = Absent, !.paused = @ \ {t}]

PauseTenant(s, t) == [s EXCEPT !.paused = @ \cup {t}]

ResumeTenant(s, t) == [s EXCEPT !.paused = @ \ {t}]

\* Variant: a reload starts from an empty set of paused tenants.
ReloadResumes(s, cfg) == New(cfg)

\* The whole table is replaced; a tenant that is still there stays paused.
Reload(s, cfg) ==
  [tenants |-> cfg.tenants, defaults |-> cfg.defaults, paused |-> s.paused \cap Known(cfg)]
=============================================================================
