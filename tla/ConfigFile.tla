----------------------------- MODULE ConfigFile -----------------------------
(***************************************************************************)
(* What the text of a configuration file becomes (Load and what it calls   *)
(* in internal/config/config.go): substitution of environment variables,   *)
(* validation and defaults, in this order, and the Effective functions     *)
(* that combine a tenant's overrides with the defaults.                    *)
(*                                                                         *)
(* A number that the file does not set is 0, a text "".  The numbers are a *)
(* function on Settings, since applyDefaults treats them alike (durations  *)
(* are in seconds).  Texts are abstracted to what validate tells apart.    *)
(***************************************************************************)
EXTENDS Integers

Default ==
  [postgres_port |-> 6432, mysql_port |-> 3307, api_port |-> 8080,
   max_proxy_connections |-> 10000, min_connections |-> 2, max_connections |-> 20,
   idle_timeout |-> 300, max_lifetime |-> 1800, acquire_timeout |-> 10, dial_timeout |-> 5,
   interval |-> 30, failure_threshold |-> 3, connection_timeout |-> 5]

Settings == DOMAIN Default

Ports == {"postgres_port", "mysql_port", "api_port"}

PoolModes == {"session", "transaction"}

EmptyFile == [parses |-> TRUE, set |-> [f \in Settings |-> 0], api_bind |-> "",
              pool_mode |-> "", tenants |-> <<>>]

\* What yaml.Unmarshal makes of a tenant and of a file: numbers may be anything, the
\* overrides (over) are the settings that the tenant has a pointer for.
IsTenant(t) ==
  /\ DOMAIN t = {"db_type", "host", "port", "dbname", "username", "pool_mode", "over"}
  /\ t.port \in Int
  /\ DOMAIN t.over \subseteq Settings /\ \A f \in DOMAIN t.over : t.over[f] \in Int

IsFile(raw) ==
  /\ DOMAIN raw = DOMAIN EmptyFile
  /\ raw.parses \in BOOLEAN /\ raw.set \in [Settings -> Int]
  /\ \A id \in DOMAIN raw.tenants : IsTenant(raw.tenants[id])

\* Two variables are set, one of them to nothing; a reference to any other stays.
LookupEnv == [v \in {"${DB_HOST}", "${EMPTY}"} |-> IF v = "${EMPTY}" THEN "" ELSE "db"]

Substitute(text) == IF text \in DOMAIN LookupEnv THEN LookupEnv[text] ELSE text

SubstituteHost(t) == [t EXCEPT !.host = Substitute(t.host)]

substituteEnvVars(cfg) ==
  [cfg EXCEPT !.tenants = [id \in DOMAIN cfg.tenants |-> SubstituteHost(cfg.tenants[id])]]

\* tenantIDPattern: the IDs of this model that it refuses.
ValidateTenantID(id) == id \notin {"", "-acme", "a.b"}

\* A host with a port in it, as net.SplitHostPort sees it.
SplitHostPort(host) == host = "db:5432"

ValidPort(n) == n \in 1 .. 65535

ValidTenant(t) ==
  /\ t.db_type \in {"postgres", "mysql"}
  /\ t.host # "" /\ ValidPort(t.port) /\ t.dbname # "" /\ t.username # ""
  /\ t.pool_mode \in PoolModes \cup {"unset"}
  /\ {"min_connections", "max_connections"} \subseteq DOMAIN t.over =>
       t.over["min_connections"] <= t.over["max_connections"]
  /\ ~SplitHostPort(t.host)

\* Variant: only the ports and the IDs are looked at.
ValidateLoosely(cfg) ==
  /\ \A p \in Ports : cfg.set[p] = 0 \/ ValidPort(cfg.set[p])
  /\ \A id \in DOMAIN cfg.tenants : ValidateTenantID(id)

validate(cfg) ==
  /\ \A p \in Ports : cfg.set[p] = 0 \/ ValidPort(cfg.set[p])
  /\ cfg.pool_mode \in PoolModes \cup {""}
  /\ cfg.set["max_connections"] > 0 =>
       cfg.set["min_connections"] <= cfg.set["max_connections"]
  /\ \A id \in DOMAIN cfg.tenants : ValidateTenantID(id) /\ ValidTenant(cfg.tenants[id])

applyDefaults(cfg) ==
  [cfg EXCEPT !.set = [f \in Settings |-> IF cfg.set[f] = 0 THEN Default[f] ELSE cfg.set[f]],
              !.api_bind = IF @ = "" THEN "127.0.0.1" ELSE @,
              !.pool_mode = IF @ = "" THEN "session" ELSE @]

Loads(raw) == raw.parses /\ validate(substituteEnvVars(raw))

Load(raw) == applyDefaults(substituteEnvVars(raw))

\* The Effective functions: EffectiveMinConnections and its like.
Effective(t, cfg, f) == IF f \in DOMAIN t.over THEN t.over[f] ELSE cfg.set[f]

EffectivePoolMode(t, cfg) == IF t.pool_mode = "unset" THEN cfg.pool_mode ELSE t.pool_mode
=============================================================================
