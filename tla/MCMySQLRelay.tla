---------------------------- MODULE MCMySQLRelay ----------------------------
(* Instances of MySQLRelay for TLC. *)
EXTENDS MySQLRelay, TLC

\* Clients and backends are interchangeable (safety runs only).
Symmetry == Permutations(Clients) \cup Permutations(Backends)
=============================================================================
