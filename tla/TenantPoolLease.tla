--------------------------- MODULE TenantPoolLease ---------------------------
(***************************************************************************)
(* TenantPool implements ConnectionLease: the owner of a connection is the *)
(* user that holds it, else the pool while it is idle or in warm-up's      *)
(* hands, else nobody.  A connection PooledConn.Close was called on while  *)
(* a user holds it keeps its owner until the user lets it go.              *)
(***************************************************************************)
EXTENDS TenantPool

\* The two owners that are no users have names of their own.
ASSUME LeaseAssumption == "pool" \notin Procs /\ "none" \notin Procs

OwnerOf(c) ==
  IF \E p \in Procs : held[p] = c THEN CHOOSE p \in Procs : held[p] = c
  ELSE IF c \in IdleSet \/ c = warmConn THEN "pool" ELSE "none"

Lease == INSTANCE ConnectionLease WITH
  Users <- Procs, Pool <- "pool", None <- "none",
  owner <- [c \in Conns |-> OwnerOf(c)], shut <- closed

\* The pool keeps what ConnectionLease promises: connections pass between users
\* only by way of the pool, and a closed pool lends none it kept.
ImplementsLease == Lease!Spec
=============================================================================
