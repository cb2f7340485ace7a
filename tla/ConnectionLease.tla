-------------------------- MODULE ConnectionLease --------------------------
(***************************************************************************)
(* What a tenant's pool promises its users, without counters, lists and    *)
(* locks: every backend connection has one owner, a user gets one at a     *)
(* time, a connection passes from one user to another only by way of the   *)
(* pool, and a pool that is shut hands out none of the connections it      *)
(* kept.  A dial that is under way when the pool shuts still ends in a     *)
(* lease: Acquire does not look at closed again.                           *)
(***************************************************************************)
CONSTANTS Users, Conns, Pool, None

VARIABLES
  owner,  \* the user a connection is leased to, Pool, or None
  shut    \* the pool has been closed

lease == <<owner, shut>>

Init == owner = [c \in Conns |-> None] /\ shut = FALSE

Pooled == {c \in Conns : owner[c] = Pool}

\* The owners once the connections of R are retired and c has gone to o.
Moved(R, c, o) == [e \in Conns |-> IF e = c THEN o ELSE IF e \in R THEN None ELSE owner[e]]

HoldsNothing(u) == \A c \in Conns : owner[c] # u

\* A pooled connection goes to a user; unusable ones are retired on the way.
Lend(u) ==
  /\ ~shut
  /\ HoldsNothing(u)
  /\ \E c \in Pooled, R \in SUBSET Pooled : owner' = Moved(R, c, u)
  /\ UNCHANGED shut

\* A freshly dialled connection goes to a user, or into the pool.
Dial(o) ==
  /\ o \in Users => HoldsNothing(o)
  /\ \E c \in Conns : owner[c] = None /\ owner' = [owner EXCEPT ![c] = o]
  /\ UNCHANGED shut

\* A user gives its connection back: to the pool if that is open, or for good.
GiveBack(u) ==
  /\ \E c \in Conns, o \in {Pool, None} :
       /\ owner[c] = u
       /\ o = Pool => ~shut
       /\ owner' = [owner EXCEPT ![c] = o]
  /\ UNCHANGED shut

\* The pool closes connections of its own: broken, surplus, or drained.
Retire ==
  /\ \E R \in SUBSET Pooled : owner' = [c \in Conns |-> IF c \in R THEN None ELSE owner[c]]
  /\ UNCHANGED shut

Shut == ~shut /\ shut' = TRUE /\ UNCHANGED owner

Next ==
  \/ \E u \in Users : Lend(u) \/ Dial(u) \/ GiveBack(u)
  \/ Dial(Pool) \/ Retire \/ Shut

Spec == Init /\ [][Next]_lease
=============================================================================
