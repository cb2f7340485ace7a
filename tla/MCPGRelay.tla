------------------------------ MODULE MCPGRelay ------------------------------
(* Instances of PGRelay for TLC. *)
EXTENDS PGRelay, TLC

\* Clients and backends are interchangeable (safety runs only).
Symmetry == Permutations(Clients) \cup Permutations(Backends)
=============================================================================
