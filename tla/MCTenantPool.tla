---------------------------- MODULE MCTenantPool ----------------------------
(***************************************************************************)
(* Instances of TenantPool for TLC.                                        *)
(***************************************************************************)
EXTENDS TenantPoolLease, TLC

\* Clients, drainers and connections are interchangeable (safety runs only).
Symmetry == Permutations(Clients) \cup Permutations(Conns) \cup Permutations(Drainers)

=============================================================================
