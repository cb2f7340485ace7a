-------------------------- MODULE MCTenantLifecycle --------------------------
(* Small instances of TenantLifecycle for TLC *)
EXTENDS TenantLifecycle, TLC

\* Pool identities, sessions and API workers are interchangeable.
Symmetry == Permutations(PoolObjs) \cup Permutations(Sessions) \cup Permutations(Admins)
=============================================================================
