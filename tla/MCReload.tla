------------------------------ MODULE MCReload ------------------------------
(***************************************************************************)
(* Instances of ConfigWatcher and CertLoader for TLC.  The two share no    *)
(* state, so nothing is learnt from interleaving them: a behaviour takes   *)
(* steps of one of them.                                                   *)
(***************************************************************************)
EXTENDS ConfigWatcher, CertLoader, TLC

VARIABLE which  \* the one that takes steps

Tenant == [db_type |-> "postgres", host |-> "db", port |-> 5432, dbname |-> "d",
           username |-> "u", pool_mode |-> "unset", over |-> <<>>]

File(id, t) == [EmptyFile EXCEPT !.tenants = id :> t]

Bounds(min, max) == "min_connections" :> min @@ "max_connections" :> max

\* Four files that load, the second with its bounds spread over file, tenant and
\* defaults, the others with bounds that validate does not compare, and files that
\* break one rule each; in the last the minimum is the default one, but is compared.
MCContents ==
  { File("acme", Tenant),
    [File("acme", [Tenant EXCEPT !.host = "${DB_HOST}", !.over = "min_connections" :> 30])
       EXCEPT !.set["min_connections"] = 25, !.pool_mode = "transaction"],
    [File("acme", Tenant) EXCEPT !.set["max_connections"] = 1],
    [EmptyFile EXCEPT !.set["min_connections"] = 3, !.set["max_connections"] = -1],
    [EmptyFile EXCEPT !.parses = FALSE],
    File("-acme", Tenant),
    File("acme", [Tenant EXCEPT !.host = "${EMPTY}"]),
    File("acme", [Tenant EXCEPT !.host = "db:5432"]),
    File("acme", [Tenant EXCEPT !.db_type = "oracle"]),
    File("acme", [Tenant EXCEPT !.dbname = ""]),
    File("acme", [Tenant EXCEPT !.username = ""]),
    File("acme", [Tenant EXCEPT !.port = 0]),
    File("acme", [Tenant EXCEPT !.pool_mode = "statement"]),
    File("acme", [Tenant EXCEPT !.over = Bounds(9, 8)]),
    [EmptyFile EXCEPT !.set["api_port"] = 70000],
    [File("acme", Tenant) EXCEPT !.set["min_connections"] = 2, !.set["max_connections"] = 1] }

ReloadInit == Init /\ CertInit /\ which \in {"config", "cert"}

ReloadNext ==
  \/ which = "config" /\ Next /\ UNCHANGED <<certVars, which>>
  \/ which = "cert" /\ CertNext /\ UNCHANGED <<vars, which>>

ReloadSpec ==
  /\ ReloadInit /\ [][ReloadNext]_<<vars, certVars, which>>
  /\ which = "config" => Fairness
=============================================================================
