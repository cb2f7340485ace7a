------------------------ MODULE TenantPoolLeaseProofs ------------------------
(***************************************************************************)
(* Proofs about TenantPool, continued: what tp.total counts, the limit it  *)
(* keeps, the order the reaper keeps, and the refinement of                *)
(* ConnectionLease; again for any numbers of users, drainers and           *)
(* connections and any MinConns and MaxConns.                              *)
(***************************************************************************)
EXTENDS TenantPoolLease, TenantPoolProofs

(***************************************************************************)
(* The connections are apart.  Acquire's pop adds one to tp.active only if *)
(* what it pops is not there already, and a session that was closed leaves *)
(* its connection in tp.active for good: it must never be idle again.      *)
(***************************************************************************)

Apart == active \cap IdleSet = {} /\ warmConn \notin active

\* What one pass of Acquire's loop does to tp.active: a connection that it adds
\* was idle and is not any more.
LEMMA AcquireLoopActive ==
  ASSUME TypeOK, ExclusiveOwnership, NEW p \in Procs, NEW w, AcquireLoop(p, w)
  PROVE  \/ active' = active
         \/ \E c \in IdleSet \ IdleSet' : active' = active \cup {c}
<1>1. CASE RefuseAcquire(p, w) \/ ReserveOrWait(p, w)
  BY <1>1 DEF RefuseAcquire, ReserveOrWait
<1>2. CASE TakeIdle(p, w)
  <2>1. PICK i \in DOMAIN idle :
          /\ active' = active \cup {idle[i]}
          /\ idle' = SubSeq(idle, 1, i - 1)
    BY <1>2 DEF TakeIdle
  <2>2. /\ Len(idle) \in Nat /\ DOMAIN idle = 1 .. Len(idle) /\ i \in 1 .. Len(idle)
        /\ \A j \in 1 .. Len(idle) : idle[j] \in Conns
    BY DEF TypeOK
  <2>3. /\ SubSeq(idle, 1, i - 1) \in Seq(Conns)
        /\ Len(SubSeq(idle, 1, i - 1)) = (IF 1 <= i - 1 THEN i - 1 - 1 + 1 ELSE 0)
        /\ \A j \in 1 .. i - 1 - 1 + 1 : SubSeq(idle, 1, i - 1)[j] = idle[1 + j - 1]
    <3>1. /\ 1 \in Int /\ i - 1 \in Int
          /\ \A j \in 1 .. i - 1 : idle[j] \in Conns
      BY <2>2
    <3> QED
      BY <3>1, SubSeqProperties
  <2>4. /\ DOMAIN idle' = 1 .. i - 1
        /\ \A j \in 1 .. i - 1 : idle'[j] = idle[j]
    <3>1. Len(idle') = i - 1 /\ \A j \in 1 .. i - 1 : idle'[j] = idle[j]
      BY <2>1, <2>2, <2>3
    <3> QED
      BY <2>1, <2>3, <3>1, LenProperties
  <2>5. ASSUME NEW j \in 1 .. i - 1 PROVE idle[i] # idle[j]
    <3>1. j \in DOMAIN idle /\ j # i
      BY <2>2
    <3> QED
      BY <3>1 DEF ExclusiveOwnership
  <2>6. idle[i] \in IdleSet \ IdleSet'
    BY <2>4, <2>5 DEF IdleSet
  <2> QED
    BY <2>1, <2>6
<1> QED
  BY <1>1, <1>2 DEF AcquireLoop

\* Every step keeps them apart.
LEMMA ApartStep == TypeOK /\ Positioned /\ Owned /\ Apart /\ [Next]_vars => Apart'
<1> SUFFICES ASSUME TypeOK, Positioned, Owned, Apart, [Next]_vars PROVE Apart'
  OBVIOUS
<1> USE PoolAssumption DEF poolVars, userVars, warmVars, drainVars
<1>0. /\ IdleSet \subseteq Conns /\ active \subseteq Conns
      /\ NoRepeats(idle)
      /\ active \cap IdleSet = {} /\ warmConn \notin active
  BY IdleSetType DEF Owned, ExclusiveOwnership, NoRepeats, TypeOK, Apart
<1>a. ASSUME IdleSet' \subseteq IdleSet, active' \subseteq active,
             warmConn' = warmConn \/ warmConn' = NoConn
      PROVE  Apart'
  BY <1>0, <1>a DEF Apart
<1>b. ASSUME idle' = idle PROVE IdleSet' = IdleSet
  BY <1>b DEF IdleSet
<1>1. ASSUME NEW p \in Procs, NEW w, AcquireLoop(p, w), UNCHANGED warmConn
      PROVE  Apart'
  <2>1. IdleSet' \subseteq IdleSet
    BY <1>1, AcquireLoopMoves DEF Owned
  <2>2. ASSUME NEW c \in IdleSet \ IdleSet', active' = active \cup {c} PROVE Apart'
    <3>1. c # warmConn
      BY <1>0, <2>2 DEF Owned, WarmOwns
    <3> QED
      BY <1>0, <1>1, <2>1, <2>2, <3>1 DEF Apart
  <2>3. CASE active' = active
    BY <1>a, <1>1, <2>1, <2>3
  <2> QED
    BY <1>1, <2>2, <2>3, AcquireLoopActive DEF Owned
<1>2. ASSUME NEW p \in Procs, Acquire(p) PROVE Apart'
  BY <1>1, <1>2 DEF Acquire
<1>3. ASSUME NEW p \in Procs, DialSucceeds(p) PROVE Apart'
  <2>1. PICK c \in Conns : Unreferenced(c) /\ active' = active \cup {c}
    BY <1>3 DEF DialSucceeds, Opened
  <2>2. UNCHANGED <<idle, warmConn>>
    BY <1>3 DEF DialSucceeds
  <2> QED
    BY <1>0, <1>b, <2>1, <2>2 DEF Unreferenced, Apart
<1>4. ASSUME NEW p \in Procs,
             DialFails(p) \/ ArmTimer(p) \/ Enlist(p) \/ TimerFires(p) \/ CloseConn(p)
      PROVE  Apart'
  BY <1>a, <1>b, <1>4 DEF DialFails, ArmTimer, Enlist, TimerFires, CloseConn
<1>5. ASSUME NEW p \in Procs, WakeUp(p) PROVE Apart'
  BY <1>a, <1>b, <1>1, <1>5 DEF WakeUp
<1>6. ASSUME NEW p \in Procs, Return(p) PROVE Apart'
  <2>1. /\ held[p] \in Conns /\ held[p] \notin IdleSet
        /\ active' = active \ {held[p]} /\ UNCHANGED warmConn
    BY <1>6 DEF Return, Positioned, TypeOK, Owned, ExclusiveOwnership
  <2>2. IdleSet' \subseteq IdleSet \cup {held[p]}
    <3>1. CASE idle' = Append(idle, held[p])
      BY <1>0, <2>1, <3>1, AppendIdle
    <3> QED
      BY <1>b, <1>6, <3>1 DEF Return
  <2> QED
    BY <1>0, <2>1, <2>2 DEF Apart
<1>7. CASE WarmReserve \/ WarmDialFails \/ WarmReauthFails
  BY <1>a, <1>b, <1>7 DEF WarmReserve, WarmDialFails, WarmReauthFails
<1>8. CASE WarmDialSucceeds
  <2>1. warmConn' \notin active /\ UNCHANGED <<idle, active>>
    BY <1>8 DEF WarmDialSucceeds, Opened, Unreferenced
  <2> QED
    BY <1>0, <1>b, <2>1 DEF Apart
<1>9. CASE WarmInsert
  <2>1. /\ warmConn \in Conns /\ warmConn \notin IdleSet
        /\ warmConn' = NoConn /\ active' = active
    BY <1>9 DEF WarmInsert, Positioned, TypeOK, Owned, WarmOwns
  <2>2. IdleSet' \subseteq IdleSet \cup {warmConn}
    <3>1. CASE idle' = Append(idle, warmConn)
      BY <1>0, <2>1, <3>1, AppendIdle
    <3> QED
      BY <1>b, <1>9, <3>1 DEF WarmInsert
  <2> QED
    BY <1>0, <2>1, <2>2 DEF Apart
<1>10. CASE ReapIdle
  <2>1. IdleSet' \subseteq IdleSet
    BY <1>0, <1>10, ReapIdleMoves
  <2> QED
    BY <1>a, <1>10, <2>1 DEF ReapIdle
<1>11. ASSUME NEW d \in Drainers, DrainStep(d) PROVE Apart'
  <2>1. IdleSet' \subseteq IdleSet
    BY <1>b, <1>11 DEF DrainStep, ClosePool, DrainIdle, DrainPoll, DrainForce, IdleSet
  <2> QED
    BY <1>a, <1>11, <2>1 DEF DrainStep, ClosePool, DrainIdle, DrainPoll, DrainForce
<1>12. CASE Environment \/ UNCHANGED vars
  BY <1>a, <1>b, <1>12 DEF Environment, DeadlinePasses, LifetimePasses, BackendHangsUp,
                           StopProxy, vars
<1> QED
  BY <1>2, <1>3, <1>4, <1>5, <1>6, <1>7, <1>8, <1>9, <1>10, <1>11, <1>12
     DEF Next, UserStep, WarmStep

-----------------------------------------------------------------------------
(***************************************************************************)
(* The reaper.  It keeps the order of what it keeps, and what it keeps     *)
(* includes the last MinConns positions.  That the newest connection stays *)
(* i-th from the end is a matter of counting: as many kept positions lie   *)
(* above it after the pass as before.                                      *)
(***************************************************************************)

\* There are m numbers up to m.
LEMMA UpToCount ==
  ASSUME NEW m \in Nat
  PROVE  IsFiniteSet(1 .. m) /\ Cardinality(1 .. m) = m
BY FS_Interval

\* Of the numbers 1..m, m less those taken away remain.
LEMMA RemainingCount ==
  ASSUME NEW m \in Nat, NEW R \in SUBSET (1 .. m)
  PROVE  /\ IsFiniteSet((1 .. m) \ R) /\ Cardinality(R) \in Nat
         /\ Cardinality((1 .. m) \ R) = m - Cardinality(R)
<1>1. IsFiniteSet(1 .. m) /\ Cardinality(1 .. m) = m
  BY UpToCount
<1>2. IsFiniteSet(R) /\ Cardinality(R) \in Nat
  BY <1>1, FS_Subset, FS_CardinalityType, Zenon
<1>3. (1 .. m) \cap R = R
  BY Zenon
<1>4. /\ IsFiniteSet((1 .. m) \ R)
      /\ Cardinality((1 .. m) \ R) = Cardinality(1 .. m) - Cardinality((1 .. m) \cap R)
  BY <1>1, FS_Difference, Zenon
<1> QED
  BY <1>1, <1>2, <1>3, <1>4, Zenon

\* There are b - a numbers above a and up to b.
LEMMA AboveCount ==
  ASSUME NEW a \in Nat, NEW b \in Nat, a <= b
  PROVE  IsFiniteSet(a + 1 .. b) /\ Cardinality(a + 1 .. b) = b - a
<1>1. a + 1 \in Int /\ b \in Int
  OBVIOUS
<1>2. /\ IsFiniteSet(a + 1 .. b)
      /\ Cardinality(a + 1 .. b) = IF a + 1 > b THEN 0 ELSE b - (a + 1) + 1
  BY <1>1, FS_Interval
<1> QED
  BY <1>2

Increasing(f, n) == \A i, j \in 1 .. n : i < j => f[i] < f[j]

\* An increasing function from 1..n to n numbers reaches all of them, and where it
\* reaches a number above which all up to m are reached, it is as far from n as
\* that number is from m.
LEMMA IncreasingFromTheEnd ==
  ASSUME NEW m \in Nat, NEW K \in SUBSET (1 .. m), NEW n \in Nat,
         IsFiniteSet(K), n = Cardinality(K),
         NEW f \in [1 .. n -> K], Increasing(f, n)
  PROVE  /\ \A x \in K : \E a \in 1 .. n : f[a] = x
         /\ \A i, j \in 1 .. n : f[i] = f[j] => i = j
         /\ \A v \in 1 .. m : v .. m \subseteq K =>
              n + v - m \in 1 .. n /\ f[n + v - m] = v
<1> USE DEF Increasing
<1>0. \A a \in 1 .. n : f[a] \in K /\ f[a] \in 1 .. m
  BY Zenon
<1>1. \A i, j \in 1 .. n : f[i] = f[j] => i = j
  <2> SUFFICES ASSUME NEW i \in 1 .. n, NEW j \in 1 .. n, i # j PROVE f[i] # f[j]
    OBVIOUS
  <2> QED
    BY <1>0
<1>2. f \in Surjection(1 .. n, K)
  <2>1. f \in Injection(1 .. n, K)
    BY <1>1 DEF Injection, IsInjective
  <2>2. Cardinality(1 .. n) = n
    BY FS_Interval
  <2> QED
    BY <2>1, <2>2, FS_Injection
<1>3. \A x \in K : \E a \in 1 .. n : f[a] = x
  BY <1>2 DEF Surjection
<1>4. ASSUME NEW v \in 1 .. m, v .. m \subseteq K
      PROVE  n + v - m \in 1 .. n /\ f[n + v - m] = v
  <2>1. v \in K
    BY <1>4
  <2>2. PICK a \in 1 .. n : f[a] = v
    BY <1>3, <2>1
  <2> DEFINE S == a + 1 .. n
             T == v + 1 .. m
             g == [b \in S |-> f[b]]
  <2>3. \A b \in S : b \in 1 .. n /\ f[b] \in T
    <3> SUFFICES ASSUME NEW b \in S PROVE b \in 1 .. n /\ f[b] \in T
      OBVIOUS
    <3>1. b \in 1 .. n /\ a < b
      BY <2>2
    <3>2. f[a] < f[b] /\ f[b] \in 1 .. m
      BY <1>0, <2>2, <3>1
    <3> QED
      BY <2>2, <3>1, <3>2
  <2>4. \A t \in T : \E b \in S : f[b] = t
    <3> SUFFICES ASSUME NEW t \in T PROVE \E b \in S : f[b] = t
      OBVIOUS
    <3>1. t \in K /\ t > v
      BY <1>4
    <3>2. PICK b \in 1 .. n : f[b] = t
      BY <1>3, <3>1
    <3>3. ~(b < a) /\ b # a
      BY <2>2, <3>1, <3>2
    <3> QED
      BY <2>2, <3>2, <3>3
  <2>5. g \in Bijection(S, T)
    <3>1. g \in [S -> T] /\ \A b \in S : g[b] = f[b]
      BY <2>3
    <3>2. \A b, c \in S : g[b] = g[c] => b = c
      BY <1>1, <2>3, <3>1
    <3>3. \A t \in T : \E b \in S : g[b] = t
      BY <2>4, <3>1
    <3> HIDE DEF S, T, g
    <3>4. g \in Injection(S, T)
      BY <3>1, <3>2 DEF Injection, IsInjective
    <3>5. g \in Surjection(S, T)
      BY <3>1, <3>3 DEF Surjection
    <3> QED
      BY <3>4, <3>5 DEF Bijection
  <2>6. Cardinality(T) = Cardinality(S)
    <3>2. IsFiniteSet(S)
      BY AboveCount
    <3> HIDE DEF S, T, g
    <3>3. ExistsBijection(S, T)
      BY <2>5 DEF ExistsBijection
    <3> QED
      BY <3>2, <3>3, FS_Bijection
  <2>7. Cardinality(S) = n - a /\ Cardinality(T) = m - v
    BY AboveCount
  <2>8. n + v - m = a
    BY <2>6, <2>7, SMTT(30)
  <2> QED
    BY <2>2, <2>8
<1> QED
  BY <1>1, <1>3, <1>4

\* A pass of the reaper takes what it closes off tp.total and off idle alike, and
\* leaves the last MinConns positions of idle as they are.
LEMMA ReapIdleCounts ==
  ASSUME TypeOK, ReapIdle
  PROVE  /\ Len(idle') >= MinConns
         /\ total' - Len(idle') = total - Len(idle)
         /\ total' <= total
         /\ \A i \in 1 .. MinConns :
              idle'[Len(idle') + 1 - i] = idle[Len(idle) + 1 - i]
<1>1. PICK k \in 0 .. Len(idle) :
        LET R == Reapable(k)
            K == DOMAIN idle \ R
        IN  /\ total' = total - Cardinality(R)
            /\ \E f \in [1 .. Cardinality(K) -> K] :
                 /\ \A i, j \in 1 .. Cardinality(K) : i < j => f[i] < f[j]
                 /\ idle' = [i \in 1 .. Cardinality(K) |-> idle[f[i]]]
  BY Zenon DEF ReapIdle
<1> DEFINE K == DOMAIN idle \ Reapable(k)
           n == Cardinality(K)
           m == Len(idle)
<1>2. PICK f \in [1 .. n -> K] :
        /\ \A i, j \in 1 .. n : i < j => f[i] < f[j]
        /\ idle' = [i \in 1 .. n |-> idle[f[i]]]
  BY <1>1, Zenon
<1>3. /\ n \in Nat /\ IsFiniteSet(K) /\ IsFiniteSet(Reapable(k))
      /\ Cardinality(Reapable(k)) \in Nat /\ Reapable(k) \subseteq DOMAIN idle
  BY ReapableFinite, Zenon
<1>4. /\ m \in Nat /\ MinConns \in Nat /\ m > MinConns /\ DOMAIN idle = 1 .. m
      /\ total \in Int
  BY PoolAssumption DEF TypeOK, ReapIdle
<1>5. n = m - Cardinality(Reapable(k))
  <2>1. K = (1 .. m) \ Reapable(k) /\ Reapable(k) \in SUBSET (1 .. m)
    BY <1>3, <1>4
  <2> HIDE DEF K, m
  <2> QED
    BY <1>4, <2>1, RemainingCount, Zenon
<1>6. m - MinConns + 1 .. m \subseteq K
  BY <1>4 DEF Reapable
<1>7. K \in SUBSET (1 .. m)
  BY <1>4
<1>n. n = Cardinality(K)
  OBVIOUS
<1> HIDE DEF n, K
<1>8. \A v \in 1 .. m : v .. m \subseteq K => n + v - m \in 1 .. n /\ f[n + v - m] = v
  <2> HIDE DEF m
  <2>1. Increasing(f, n)
    BY <1>2 DEF Increasing
  <2>2. /\ m \in Nat /\ K \in SUBSET (1 .. m) /\ n \in Nat
        /\ IsFiniteSet(K) /\ n = Cardinality(K) /\ f \in [1 .. n -> K]
    BY <1>3, <1>4, <1>7, <1>n
  <2> QED
    BY ONLY <2>1, <2>2, IncreasingFromTheEnd
<1>9. DOMAIN idle' = 1 .. n /\ Len(idle') = n /\ \A i \in 1 .. n : idle'[i] = idle[f[i]]
  <2>1. idle' \in Seq(Conns)
    BY ReapIdleType
  <2>2. DOMAIN idle' = 1 .. n /\ \A i \in 1 .. n : idle'[i] = idle[f[i]]
    BY <1>2
  <2>3. DOMAIN idle' = 1 .. Len(idle') /\ Len(idle') \in Nat
    BY <2>1, LenProperties
  <2> QED
    BY <1>3, <2>2, <2>3
<1>10. ASSUME NEW i \in 1 .. MinConns
       PROVE  n + 1 - i \in 1 .. n /\ idle'[n + 1 - i] = idle[m + 1 - i]
  <2>1. m + 1 - i \in 1 .. m /\ m + 1 - i .. m \subseteq m - MinConns + 1 .. m
    BY <1>4
  <2>2. m + 1 - i .. m \subseteq K
    BY <1>6, <2>1
  <2>3. n + (m + 1 - i) - m \in 1 .. n /\ f[n + (m + 1 - i) - m] = m + 1 - i
    BY <1>8, <2>1, <2>2, SMTT(30)
  <2>4. n + (m + 1 - i) - m = n + 1 - i
    BY <1>3, <1>4
  <2> QED
    BY <1>9, <2>3, <2>4
<1>11. n >= MinConns
  <2>1. CASE MinConns = 0
    BY <1>3, <2>1
  <2>2. CASE MinConns > 0
    <3>1. n + 1 - MinConns \in 1 .. n
      BY <1>4, <1>10, <2>2
    <3> QED
      BY <1>3, <1>4, <3>1
  <2> QED
    BY <1>4, <2>1, <2>2
<1>12. total' = total - Cardinality(Reapable(k))
  BY <1>1
<1> QED
  BY <1>3, <1>4, <1>5, <1>9, <1>10, <1>11, <1>12

\* The newest MinConns idle connections survive every pass of the reaper, in place.
THEOREM NewestKept == Spec => ReaperKeepsNewest
<1>1. ASSUME TypeOK, [Next]_vars
      PROVE  [ReapIdle => /\ Len(idle') >= MinConns
                          /\ \A i \in 1 .. MinConns :
                               idle'[Len(idle') + 1 - i] = idle[Len(idle) + 1 - i]]_vars
  BY <1>1, ReapIdleCounts
<1> QED
  BY TypeCorrect, <1>1, PTL DEF Spec, ReaperKeepsNewest

-----------------------------------------------------------------------------
(***************************************************************************)
(* tp.total.                                                               *)
(***************************************************************************)

InDial(f) == {p \in Procs : f[p] = "dialing"}

ByWarm == IF warm \in {"dialing", "dialed"} THEN 1 ELSE 0

\* Moving one user changes the number of dials under way by the one expected.
LEMMA DialsMove ==
  ASSUME NEW f \in [Procs -> Positions], NEW p \in Procs, NEW x
  PROVE  LET g == [f EXCEPT ![p] = x]
         IN  /\ Cardinality(InDial(f)) \in Nat /\ Cardinality(InDial(g)) \in Nat
             /\ f[p] # "dialing" /\ x = "dialing" =>
                  Cardinality(InDial(g)) = Cardinality(InDial(f)) + 1
             /\ f[p] = "dialing" /\ x # "dialing" =>
                  Cardinality(InDial(g)) = Cardinality(InDial(f)) - 1
             /\ f[p] # "dialing" /\ x # "dialing" => InDial(g) = InDial(f)
<1> DEFINE g == [f EXCEPT ![p] = x]
<1>1. IsFiniteSet(InDial(f)) /\ IsFiniteSet(InDial(g))
  BY FS_Subset, PoolAssumption DEF InDial
<1>2. Cardinality(InDial(f)) \in Nat /\ Cardinality(InDial(g)) \in Nat
  BY <1>1, FS_CardinalityType
<1>3. ASSUME f[p] # "dialing", x = "dialing"
      PROVE  Cardinality(InDial(g)) = Cardinality(InDial(f)) + 1
  <2>1. InDial(g) = InDial(f) \cup {p} /\ p \notin InDial(f)
    BY <1>3 DEF InDial
  <2> HIDE DEF g
  <2> QED
    BY <1>1, <2>1, FS_AddElement
<1>4. ASSUME f[p] = "dialing", x # "dialing"
      PROVE  Cardinality(InDial(g)) = Cardinality(InDial(f)) - 1
  <2>1. InDial(g) = InDial(f) \ {p} /\ p \in InDial(f)
    BY <1>4 DEF InDial
  <2> HIDE DEF g
  <2> QED
    BY <1>1, <2>1, FS_RemoveElement
<1>5. f[p] # "dialing" /\ x # "dialing" => InDial(g) = InDial(f)
  BY DEF InDial
<1> QED
  BY <1>2, <1>3, <1>4, <1>5

\* The sizes tp.total is made of are numbers.
LEMMA SizesAreNumbers ==
  ASSUME TypeOK
  PROVE  /\ total \in Int /\ skew \in Int /\ Len(idle) \in Nat
         /\ IsFiniteSet(active) /\ Cardinality(active) \in Nat
         /\ pc \in [Procs -> Positions] /\ Cardinality(InDial(pc)) \in Nat
         /\ ByWarm \in {0, 1}
<1>1. IsFiniteSet(active) /\ Cardinality(active) \in Nat
  BY FS_Subset, FS_CardinalityType, PoolAssumption DEF TypeOK
<1>2. IsFiniteSet(InDial(pc))
  BY FS_Subset, PoolAssumption DEF InDial
<1> QED
  BY <1>1, <1>2, FS_CardinalityType DEF TypeOK, ByWarm

\* The connections that are in use, and the clients that are dialing one.
Busy == Cardinality(active)
Dials == Cardinality(InDial(pc))

\* One pass of Acquire's loop changes tp.total as it changes what it counts.
LEMMA AcquireLoopTotal ==
  ASSUME TypeOK, Apart, TotalAccounts, NEW p \in Procs, NEW w, AcquireLoop(p, w),
         pc[p] # "dialing", UNCHANGED <<warm, skew>>
  PROVE  TotalAccounts'
<1>0. /\ total \in Int /\ skew \in Int /\ Len(idle) \in Nat
      /\ IsFiniteSet(active) /\ Cardinality(active) \in Nat
      /\ pc \in [Procs -> Positions] /\ Cardinality(InDial(pc)) \in Nat
      /\ ByWarm \in {0, 1}
      /\ total = Len(idle) + Cardinality(active) + (Cardinality(InDial(pc)) + ByWarm) + skew
  BY SizesAreNumbers DEF TotalAccounts, Dialing, ByWarm, InDial
<1>n. /\ total \in Int /\ skew \in Int /\ Len(idle) \in Int
      /\ Busy \in Int /\ Dials \in Int /\ ByWarm \in Int
      /\ total = Len(idle) + Busy + (Dials + ByWarm) + skew
  <2>1. total = Len(idle) + Busy + (Dials + ByWarm) + skew
    BY <1>0, Zenon DEF Busy, Dials
  <2> QED
    BY <1>0, <2>1 DEF Busy, Dials
<1>1. TotalAccounts' <=> total' = Len(idle') + Busy' + (Dials' + ByWarm) + skew
  BY DEF TotalAccounts, Dialing, ByWarm, InDial, Busy, Dials
<1>u. /\ active' = active => Busy' = Busy
      /\ InDial(pc') = InDial(pc) => Dials' = Dials
  BY DEF Busy, Dials, InDial
<1>2. CASE RefuseAcquire(p, w)
  <2>1. InDial(pc') = InDial(pc)
    BY <1>0, <1>2, DialsMove, Zenon DEF RefuseAcquire
  <2> QED
    BY <1>n, <1>u, <1>1, <1>2, <2>1 DEF RefuseAcquire
<1>3. CASE TakeIdle(p, w)
  <2>1. PICK i \in DOMAIN idle :
          /\ active' = active \cup {idle[i]}
          /\ idle' = SubSeq(idle, 1, i - 1)
          /\ total' = total - (Len(idle) - i)
    BY <1>3 DEF TakeIdle
  <2>2. i \in 1 .. Len(idle) /\ \A j \in 1 .. Len(idle) : idle[j] \in Conns
    BY DEF TypeOK
  <2>3. Len(idle') = i - 1
    <3>1. /\ 1 \in Int /\ i - 1 \in Int
          /\ \A j \in 1 .. i - 1 : idle[j] \in Conns
      BY <1>0, <2>2, SMTT(30)
    <3>2. Len(SubSeq(idle, 1, i - 1)) = (IF 1 <= i - 1 THEN i - 1 - 1 + 1 ELSE 0)
      BY <3>1, SubSeqProperties
    <3> QED
      BY <1>0, <2>1, <2>2, <3>2, SMTT(30)
  <2>4. Busy' = Busy + 1
    <3>1. idle[i] \notin active
      BY DEF Apart, IdleSet
    <3>2. Cardinality(active') = Cardinality(active) + 1
      BY <1>0, <2>1, <3>1, FS_AddElement, Zenon
    <3> QED
      BY <3>2, Zenon DEF Busy
  <2>5. InDial(pc') = InDial(pc)
    BY <1>0, <1>3, DialsMove, Zenon DEF TakeIdle
  <2>6. total' = total - (Len(idle) - i) /\ i \in Int
    BY <1>0, <2>1, <2>2
  <2>7. total' = (i - 1) + (Busy + 1) + (Dials + ByWarm) + skew
    BY <1>n, <2>6, SMTT(30)
  <2> QED
    BY <1>1, <1>u, <2>3, <2>4, <2>5, <2>7, Zenon
<1>4. CASE ReserveOrWait(p, w)
  <2>1. Len(idle') = 0 /\ Busy' = Busy
    BY <1>u, <1>4 DEF ReserveOrWait
  <2>2. CASE total' = total - Len(idle) + 1 /\ pc' = [pc EXCEPT ![p] = "dialing"]
    <3>1. Dials' = Dials + 1
      <4>1. Cardinality(InDial(pc')) = Cardinality(InDial(pc)) + 1
        BY <1>0, <2>2, DialsMove, Zenon
      <4> QED
        BY <4>1, Zenon DEF Dials, InDial
    <3>2. total' = total - Len(idle) + 1
      BY <2>2
    <3> QED
      BY <1>n, <1>1, <2>1, <3>1, <3>2
  <2>3. CASE total' = total - Len(idle) /\ pc' = [pc EXCEPT ![p] = "exhausted"]
    <3>1. InDial(pc') = InDial(pc)
      BY <1>0, <2>3, DialsMove, Zenon
    <3>2. total' = total - Len(idle) /\ Dials' = Dials
      BY <1>u, <2>3, <3>1
    <3> QED
      BY <1>n, <1>1, <2>1, <3>2
  <2> QED
    BY <1>4, <2>2, <2>3 DEF ReserveOrWait
<1> QED
  BY <1>2, <1>3, <1>4 DEF AcquireLoop

\* Every step keeps tp.total exact.
LEMMA TotalStep ==
  TypeOK /\ TypeOK' /\ Positioned /\ Owned /\ Apart /\ TotalAccounts /\ [Next]_vars
    => TotalAccounts'
<1> SUFFICES ASSUME TypeOK, TypeOK', Positioned, Owned, Apart, TotalAccounts, [Next]_vars
             PROVE  TotalAccounts'
  OBVIOUS
<1> USE PoolAssumption DEF poolVars, userVars, warmVars, drainVars
<1>0. /\ total \in Int /\ skew \in Int /\ Len(idle) \in Nat
      /\ IsFiniteSet(active) /\ Cardinality(active) \in Nat
      /\ pc \in [Procs -> Positions] /\ Cardinality(InDial(pc)) \in Nat
      /\ ByWarm \in {0, 1}
      /\ total = Len(idle) + Cardinality(active) + (Cardinality(InDial(pc)) + ByWarm) + skew
  BY SizesAreNumbers DEF TotalAccounts, Dialing, ByWarm, InDial
<1>n. /\ total \in Int /\ skew \in Int /\ Len(idle) \in Int
      /\ Busy \in Int /\ Dials \in Int /\ ByWarm \in Int
      /\ total = Len(idle) + Busy + (Dials + ByWarm) + skew
  <2>1. total = Len(idle) + Busy + (Dials + ByWarm) + skew
    BY <1>0, Zenon DEF Busy, Dials
  <2> QED
    BY <1>0, <2>1 DEF Busy, Dials
<1>1. TotalAccounts' <=> total' = Len(idle') + Busy' + (Dials' + ByWarm') + skew'
  BY DEF TotalAccounts, Dialing, ByWarm, InDial, Busy, Dials
<1>u. /\ active' = active => Busy' = Busy
      /\ InDial(pc') = InDial(pc) \/ pc' = pc => Dials' = Dials
      /\ warm' = warm => ByWarm' = ByWarm
  BY DEF Busy, Dials, InDial, ByWarm
<1>a. ASSUME UNCHANGED <<total, idle, active, warm, skew>>, InDial(pc') = InDial(pc)
      PROVE  TotalAccounts'
  BY <1>n, <1>u, <1>1, <1>a, Zenon
<1>b. ASSUME NEW c \in Conns, idle' = Append(idle, c) PROVE Len(idle') = Len(idle) + 1
  BY <1>b, AppendProperties DEF TypeOK
<1>2. ASSUME NEW p \in Procs, Acquire(p) PROVE TotalAccounts'
  BY <1>2, AcquireLoopTotal DEF Acquire
<1>3. ASSUME NEW p \in Procs, DialFails(p) PROVE TotalAccounts'
  <2>1. Cardinality(InDial(pc')) = Cardinality(InDial(pc)) - 1
    BY <1>0, <1>3, DialsMove, Zenon DEF DialFails
  <2>2. Dials' = Dials - 1
    BY <2>1, Zenon DEF Dials, InDial
  <2>3. total' = total - 1 /\ idle' = idle /\ Busy' = Busy /\ ByWarm' = ByWarm /\ skew' = skew
    BY <1>u, <1>3 DEF DialFails
  <2>4. total - 1 = Len(idle) + Busy + ((Dials - 1) + ByWarm) + skew
    BY <1>n
  <2> QED
    BY <1>1, <2>2, <2>3, <2>4, Zenon
<1>4. ASSUME NEW p \in Procs, DialSucceeds(p) PROVE TotalAccounts'
  <2>1. PICK c \in Conns : c \notin active /\ active' = active \cup {c}
    BY <1>4 DEF DialSucceeds, Opened, Unreferenced
  <2>2. Cardinality(active') = Cardinality(active) + 1
    BY <1>0, <2>1, FS_AddElement, Zenon
  <2>3. Cardinality(InDial(pc')) = Cardinality(InDial(pc)) - 1
    BY <1>0, <1>4, DialsMove, Zenon DEF DialSucceeds
  <2>4. UNCHANGED <<total, idle, warm, skew>>
    BY <1>4 DEF DialSucceeds
  <2>5. Busy' = Busy + 1 /\ Dials' = Dials - 1
    BY <2>2, <2>3, Zenon DEF Busy, Dials, InDial
  <2>6. total = Len(idle) + (Busy + 1) + ((Dials - 1) + ByWarm) + skew
    BY <1>n
  <2> QED
    BY <1>1, <1>u, <2>4, <2>5, <2>6, Zenon
<1>5. ASSUME NEW p \in Procs, ArmTimer(p) \/ Enlist(p) \/ CloseConn(p)
      PROVE  TotalAccounts'
  <2>1. PICK x \in Positions \ {"dialing"} : pc' = [pc EXCEPT ![p] = x]
    BY <1>5 DEF ArmTimer, Enlist, CloseConn, Positions
  <2>2. pc[p] # "dialing"
    BY <1>5 DEF ArmTimer, Enlist, CloseConn, Positioned
  <2>3. InDial(pc') = InDial(pc)
    BY <1>0, <2>1, <2>2, DialsMove, Zenon
  <2> QED
    BY <1>a, <1>5, <2>3 DEF ArmTimer, Enlist, CloseConn
<1>6. ASSUME NEW p \in Procs, TimerFires(p) PROVE TotalAccounts'
  <2>1. InDial(pc') = InDial(pc)
    BY <1>0, <1>6, BroadcastWakes DEF TimerFires, InDial
  <2> QED
    BY <1>a, <1>6, <2>1 DEF TimerFires
<1>7. ASSUME NEW p \in Procs, WakeUp(p) PROVE TotalAccounts'
  <2>1. CASE closed \/ p \in expired
    <3>1. InDial(pc') = InDial(pc)
      <4>1. pc' = [pc EXCEPT ![p] = "out"] /\ pc[p] # "dialing"
        BY <1>7, <2>1 DEF WakeUp, AcquireLoop, RefuseAcquire
      <4> QED
        BY <1>0, <4>1, DialsMove, Zenon
    <3> QED
      BY <1>a, <1>7, <2>1, <3>1 DEF WakeUp
  <2>2. CASE ~closed /\ p \notin expired
    BY <1>7, <2>2, AcquireLoopTotal DEF WakeUp
  <2> QED
    BY <2>1, <2>2
<1>8. ASSUME NEW p \in Procs, Return(p) PROVE TotalAccounts'
  <2> DEFINE c == held[p]
  <2>1. /\ c \in Conns /\ active' = active \ {c} /\ UNCHANGED warm
        /\ skew' = IF c \in active THEN skew ELSE skew - 1
    BY <1>8 DEF Return, Positioned, TypeOK
  <2>2. InDial(pc') = InDial(pc)
    <3>1. [pc EXCEPT ![p] = "out"] \in [Procs -> Positions]
      BY DEF TypeOK, Positions
    <3>2. \A q \in Procs : LET f == [pc EXCEPT ![p] = "out"]
                           IN  pc'[q] = f[q] \/ (f[q] = "waiting" /\ pc'[q] = "woken")
      BY <1>8, <3>1, SignalWakes, Zenon DEF Return
    <3>3. InDial(pc') = InDial([pc EXCEPT ![p] = "out"])
      BY <3>1, <3>2 DEF InDial
    <3>4. InDial([pc EXCEPT ![p] = "out"]) = InDial(pc)
      BY <1>0, <1>8, DialsMove, Zenon DEF Return
    <3> QED
      BY <3>3, <3>4
  <2>3. \/ Busy' = Busy - 1 /\ skew' = skew
        \/ Busy' = Busy /\ skew' = skew - 1
    <3>1. CASE c \in active
      <4>1. Cardinality(active \ {c}) = Cardinality(active) - 1
        BY <1>0, <3>1, FS_RemoveElement, Zenon
      <4>2. Busy' = Busy - 1
        BY <2>1, <4>1, Zenon DEF Busy
      <4> QED
        BY <2>1, <3>1, <4>2, Zenon
    <3>2. CASE c \notin active
      <4>1. active' = active
        BY <2>1, <3>2
      <4> QED
        BY <1>u, <2>1, <3>2, <4>1, Zenon
    <3> QED
      BY <3>1, <3>2
  <2>4. \/ total' = total - 1 /\ Len(idle') = Len(idle)
        \/ total' = total /\ Len(idle') = Len(idle) + 1
    <3>1. CASE total' = total - 1 /\ idle' = idle
      BY <3>1
    <3>2. CASE total' = total /\ idle' = Append(idle, c)
      BY <1>b, <2>1, <3>2, Zenon
    <3> QED
      BY <1>8, <3>1, <3>2 DEF Return
  <2>5. ByWarm' = ByWarm /\ Dials' = Dials
    BY <1>u, <2>1, <2>2, Zenon
  <2>6. total' = Len(idle') + Busy' + (Dials + ByWarm) + skew'
    <3>1. CASE Busy' = Busy - 1 /\ skew' = skew /\ total' = total - 1 /\ Len(idle') = Len(idle)
      <4>1. total - 1 = Len(idle) + (Busy - 1) + (Dials + ByWarm) + skew
        BY <1>n
      <4> QED
        BY <3>1, <4>1, Zenon
    <3>2. CASE Busy' = Busy - 1 /\ skew' = skew /\ total' = total /\ Len(idle') = Len(idle) + 1
      <4>1. total = (Len(idle) + 1) + (Busy - 1) + (Dials + ByWarm) + skew
        BY <1>n
      <4> QED
        BY <3>2, <4>1, Zenon
    <3>3. CASE Busy' = Busy /\ skew' = skew - 1 /\ total' = total - 1 /\ Len(idle') = Len(idle)
      <4>1. total - 1 = Len(idle) + Busy + (Dials + ByWarm) + (skew - 1)
        BY <1>n
      <4> QED
        BY <3>3, <4>1, Zenon
    <3>4. CASE Busy' = Busy /\ skew' = skew - 1 /\ total' = total /\ Len(idle') = Len(idle) + 1
      <4>1. total = (Len(idle) + 1) + Busy + (Dials + ByWarm) + (skew - 1)
        BY <1>n
      <4> QED
        BY <3>4, <4>1, Zenon
    <3> QED
      BY <2>3, <2>4, <3>1, <3>2, <3>3, <3>4, Zenon
  <2> QED
    BY <1>1, <2>5, <2>6, Zenon
<1>9. CASE WarmReserve
  <2>1. Len(idle') = Len(idle) /\ Busy' = Busy /\ Dials' = Dials /\ skew' = skew /\ ByWarm = 0
    BY <1>u, <1>9 DEF WarmReserve, ByWarm
  <2>2. CASE warm' = "finished" /\ total' = total
    <3>1. ByWarm' = 0
      BY <2>2 DEF ByWarm
    <3> QED
      BY <1>n, <1>1, <2>1, <2>2, <3>1
  <2>3. CASE warm' = "dialing" /\ total' = total + 1
    <3>1. ByWarm' = 1
      BY <2>3 DEF ByWarm
    <3>2. total + 1 = Len(idle) + Busy + (Dials + 1) + skew
      BY <1>n, <2>1
    <3> QED
      BY <1>1, <2>1, <2>3, <3>1, <3>2, Zenon
  <2> QED
    BY <1>9, <2>2, <2>3 DEF WarmReserve
<1>10. CASE WarmDialFails \/ WarmReauthFails
  <2>1. /\ ByWarm = 1 /\ ByWarm' = 0 /\ total' = total - 1
        /\ idle' = idle /\ Busy' = Busy /\ Dials' = Dials /\ skew' = skew
    BY <1>u, <1>10 DEF WarmDialFails, WarmReauthFails, ByWarm
  <2>2. total - 1 = Len(idle) + Busy + (Dials + 0) + skew
    BY <1>n, <2>1
  <2> QED
    BY <1>1, <2>1, <2>2, Zenon
<1>11. CASE WarmDialSucceeds
  <2>1. /\ ByWarm' = ByWarm /\ total' = total
        /\ idle' = idle /\ Busy' = Busy /\ Dials' = Dials /\ skew' = skew
    BY <1>u, <1>11 DEF WarmDialSucceeds, ByWarm
  <2> QED
    BY <1>n, <1>1, <2>1, Zenon
<1>12. CASE WarmInsert
  <2>1. /\ ByWarm = 1 /\ ByWarm' = 0 /\ total' = total
        /\ Busy' = Busy /\ Dials' = Dials /\ warmConn \in Conns
    BY <1>u, <1>12 DEF WarmInsert, ByWarm, Positioned, TypeOK
  <2>2. CASE idle' = idle /\ skew' = skew + 1
    <3>1. total = Len(idle) + Busy + (Dials + 0) + (skew + 1)
      BY <1>n, <2>1
    <3> QED
      BY <1>1, <2>1, <2>2, <3>1, Zenon
  <2>3. CASE idle' = Append(idle, warmConn) /\ skew' = skew
    <3>1. Len(idle') = Len(idle) + 1
      BY <1>b, <2>1, <2>3
    <3>2. total = (Len(idle) + 1) + Busy + (Dials + 0) + skew
      BY <1>n, <2>1
    <3> QED
      BY <1>1, <2>1, <2>3, <3>1, <3>2, Zenon
  <2> QED
    BY <1>12, <2>2, <2>3 DEF WarmInsert
<1>13. CASE ReapIdle
  <2>1. total' \in Int /\ Len(idle') \in Int
    BY DEF TypeOK
  <2>2. total' - Len(idle') = total - Len(idle)
    BY <1>13, ReapIdleCounts
  <2>3. Busy' = Busy /\ Dials' = Dials /\ ByWarm' = ByWarm /\ skew' = skew
    BY <1>u, <1>13 DEF ReapIdle
  <2>4. total' = Len(idle') + Busy + (Dials + ByWarm) + skew
    BY <1>n, <2>1, <2>2
  <2> QED
    BY <1>1, <2>3, <2>4, Zenon
<1>14. ASSUME NEW d \in Drainers, ClosePool(d) PROVE TotalAccounts'
  <2>1. InDial(pc') = InDial(pc)
    <3>1. CASE pc' = pc
      BY <3>1
    <3>2. CASE pc' = Broadcast(pc)
      BY <1>0, <3>2, BroadcastWakes, SMTT(30) DEF InDial
    <3> QED
      BY <1>14, <3>1, <3>2 DEF ClosePool
  <2> QED
    BY <1>a, <1>14, <2>1 DEF ClosePool
<1>15. ASSUME NEW d \in Drainers, DrainIdle(d) PROVE TotalAccounts'
  <2>1. /\ Len(idle') = 0 /\ total' = total - Len(idle)
        /\ Busy' = Busy /\ Dials' = Dials /\ ByWarm' = ByWarm /\ skew' = skew
    BY <1>u, <1>15 DEF DrainIdle
  <2>2. total - Len(idle) = 0 + Busy + (Dials + ByWarm) + skew
    BY <1>n
  <2> QED
    BY <1>1, <2>1, <2>2, Zenon
<1>16. ASSUME NEW d \in Drainers, DrainForce(d) PROVE TotalAccounts'
  <2>1. /\ active' = {} /\ total' = total - Cardinality(active)
        /\ idle' = idle /\ Dials' = Dials /\ ByWarm' = ByWarm /\ skew' = skew
    BY <1>u, <1>16 DEF DrainForce
  <2>2. Busy' = 0 /\ total' = total - Busy
    BY <2>1, FS_EmptySet, Zenon DEF Busy
  <2>3. total - Busy = Len(idle) + 0 + (Dials + ByWarm) + skew
    BY <1>n
  <2> QED
    BY <1>1, <2>1, <2>2, <2>3, Zenon
<1>17. ASSUME NEW d \in Drainers, DrainPoll(d) PROVE TotalAccounts'
  BY <1>a, <1>17 DEF DrainPoll
<1>18. CASE Environment \/ UNCHANGED vars
  BY <1>a, <1>18 DEF Environment, DeadlinePasses, LifetimePasses, BackendHangsUp,
                     StopProxy, vars
<1> QED
  BY <1>2, <1>3, <1>4, <1>5, <1>6, <1>7, <1>8, <1>9, <1>10, <1>11, <1>12, <1>13, <1>14,
     <1>15, <1>16, <1>17, <1>18 DEF Next, UserStep, WarmStep, DrainStep

\* No step takes tp.total over the limit: only Acquire, below MaxConns, and warm-up,
\* below MinConns, raise it.
LEMMA LimitStep == TypeOK /\ TypeOK' /\ total <= Limit /\ [Next]_vars => total' <= Limit
<1> SUFFICES ASSUME TypeOK, TypeOK', total <= Limit, [Next]_vars PROVE total' <= Limit
  BY DEF Limit
<1> USE PoolAssumption DEF poolVars, userVars, warmVars, drainVars
<1>0. /\ total \in Int /\ total' \in Int /\ Len(idle) \in Nat /\ Cardinality(active) \in Nat
      /\ Limit \in Nat /\ MaxConns <= Limit /\ MinConns <= Limit
  BY SizesAreNumbers DEF TypeOK, Limit
<1>a. ASSUME total' <= total PROVE total' <= Limit
  BY <1>0, <1>a
<1>1. ASSUME NEW p \in Procs, NEW w, AcquireLoop(p, w) PROVE total' <= Limit
  <2>1. CASE RefuseAcquire(p, w)
    BY <2>1 DEF RefuseAcquire
  <2>2. CASE TakeIdle(p, w)
    <3>1. PICK i \in DOMAIN idle : total' = total - (Len(idle) - i)
      BY <2>2 DEF TakeIdle
    <3>2. i \in 1 .. Len(idle)
      BY DEF TypeOK
    <3>3. \A x \in 1 .. Len(idle) : total - (Len(idle) - x) <= total
      BY <1>0
    <3> QED
      BY <1>a, <3>1, <3>2, <3>3
  <2>3. CASE ReserveOrWait(p, w)
    BY <1>0, <2>3 DEF ReserveOrWait
  <2> QED
    BY <1>1, <2>1, <2>2, <2>3 DEF AcquireLoop
<1>2. ASSUME NEW p \in Procs, UserStep(p) PROVE total' <= Limit
  <2>1. CASE Acquire(p) \/ WakeUp(p)
    BY <1>1, <2>1 DEF Acquire, WakeUp
  <2>2. CASE DialFails(p) \/ DialSucceeds(p) \/ ArmTimer(p) \/ Enlist(p) \/ TimerFires(p)
               \/ Return(p) \/ CloseConn(p)
    BY <1>0, <2>2 DEF DialFails, DialSucceeds, ArmTimer, Enlist, TimerFires, Return, CloseConn
  <2> QED
    BY <1>2, <2>1, <2>2 DEF UserStep
<1>3. CASE WarmStep
  BY <1>0, <1>3 DEF WarmStep, WarmReserve, WarmDialFails, WarmDialSucceeds, WarmReauthFails,
                    WarmInsert
<1>4. CASE ReapIdle
  BY <1>a, <1>4, ReapIdleCounts
<1>5. ASSUME NEW d \in Drainers, DrainStep(d) PROVE total' <= Limit
  BY <1>0, <1>5 DEF DrainStep, ClosePool, DrainIdle, DrainPoll, DrainForce
<1>6. CASE Environment \/ UNCHANGED vars
  BY <1>6, Zenon DEF Environment, DeadlinePasses, LifetimePasses, BackendHangsUp, StopProxy, vars
<1> QED
  BY <1>2, <1>3, <1>4, <1>5, <1>6 DEF Next

CountInv ==
  /\ TypeOK /\ Positioned /\ Owned /\ OpenSocketsTracked
  /\ Apart /\ TotalAccounts /\ total <= Limit

\* The pool starts with nothing, and every step keeps the count exact.
LEMMA CountInvariant == Spec => []CountInv
<1>1. Init => CountInv
  <2> SUFFICES ASSUME Init PROVE CountInv
    OBVIOUS
  <2>1. TypeOK /\ Positioned
    BY InitTyped
  <2>2. IdleSet = {} /\ Len(idle) = 0 /\ Cardinality(active) = 0
    BY FS_EmptySet DEF Init, IdleSet
  <2>3. Owned /\ OpenSocketsTracked /\ Apart
    BY <2>2, PoolAssumption DEF Init, Owned, ExclusiveOwnership, WarmOwns, OpenSocketsTracked, Apart
  <2>4. Dialing = 0
    <3>1. {p \in Procs : pc[p] = "dialing"} = {}
      BY DEF Init
    <3>2. warm \notin {"dialing", "dialed"}
      BY DEF Init
    <3> QED
      BY <3>1, <3>2, FS_EmptySet DEF Dialing
  <2>5. TotalAccounts
    BY <2>2, <2>4 DEF TotalAccounts, Init
  <2>6. total <= Limit
    BY PoolAssumption DEF Init, Limit
  <2> QED
    BY <2>1, <2>3, <2>5, <2>6 DEF CountInv
<1>2. CountInv /\ [Next]_vars => CountInv'
  <2> SUFFICES ASSUME CountInv, [Next]_vars PROVE CountInv'
    OBVIOUS
  <2> USE DEF CountInv
  <2>1. TypeOK' /\ Positioned' /\ Owned' /\ OpenSocketsTracked'
    BY TypeStep, PositionedStep, OwnedStep, TrackedStep
  <2>2. Apart' /\ TotalAccounts'
    BY <2>1, ApartStep, TotalStep
  <2>3. (total <= Limit)'
    BY <2>1, LimitStep DEF Limit
  <2> QED
    BY <2>1, <2>2, <2>3
<1> QED
  BY <1>1, <1>2, PTL DEF Spec

\* tp.total is exact in every reachable state, up to the two leaks skew records.
THEOREM TotalExact == Spec => []TotalAccounts
<1>1. CountInv => TotalAccounts
  BY DEF CountInv
<1> QED
  BY CountInvariant, <1>1, PTL

\* The idle list holds at most as many connections as it is long.
LEMMA IdleSetSize ==
  ASSUME TypeOK
  PROVE  IsFiniteSet(IdleSet) /\ Cardinality(IdleSet) <= Len(idle)
<1>1. Len(idle) \in Nat /\ DOMAIN idle = 1 .. Len(idle) /\ IdleSet \subseteq Conns
  BY IdleSetType DEF TypeOK
<1>2. IsFiniteSet(DOMAIN idle) /\ Cardinality(DOMAIN idle) = Len(idle)
  BY <1>1, UpToCount
<1>3. idle \in Surjection(DOMAIN idle, IdleSet)
  <2>1. idle \in [DOMAIN idle -> IdleSet]
    BY DEF TypeOK, IdleSet
  <2> QED
    BY <2>1 DEF Surjection, IdleSet
<1> QED
  BY <1>2, <1>3, FS_Surjection

\* The database never sees more connections than the limit allows, unless one was
\* returned after a forced drain had taken it off the count: every socket not closed
\* is idle, active or warm-up's, and tp.total counts each of these.
THEOREM LimitKept == Spec => []WithinLimit
<1>1. ASSUME CountInv PROVE WithinLimit
  <2> USE <1>1 DEF CountInv
  <2> DEFINE Open == {c \in Conns : sock[c] # "closed"}
             W == {warmConn} \ {NoConn}
  <2>0. /\ total \in Int /\ skew \in Int /\ Len(idle) \in Nat /\ Limit \in Nat
        /\ IsFiniteSet(active) /\ Cardinality(active) \in Nat
        /\ Cardinality(InDial(pc)) \in Nat /\ ByWarm \in {0, 1}
        /\ total = Len(idle) + Cardinality(active) + (Cardinality(InDial(pc)) + ByWarm) + skew
    BY SizesAreNumbers, PoolAssumption DEF TotalAccounts, Dialing, ByWarm, InDial, Limit
  <2>1. Open \subseteq (IdleSet \cup active) \cup W
    BY PoolAssumption DEF OpenSocketsTracked
  <2>2. IsFiniteSet(W) /\ Cardinality(W) <= ByWarm
    <3>1. CASE warmConn = NoConn
      <4>1. W = {}
        BY <3>1
      <4> HIDE DEF W
      <4> QED
        BY <2>0, <4>1, FS_EmptySet
    <3>2. CASE warmConn # NoConn
      <4>1. W = {warmConn} /\ ByWarm = 1
        BY <3>2 DEF Positioned, ByWarm
      <4> HIDE DEF W
      <4> QED
        BY <4>1, FS_Singleton
    <3> QED
      BY <3>1, <3>2
  <2>3. /\ IsFiniteSet(IdleSet) /\ Cardinality(IdleSet) <= Len(idle)
        /\ Cardinality(IdleSet) \in Nat /\ Cardinality(W) \in Nat
    BY <2>2, IdleSetSize, FS_CardinalityType
  <2> HIDE DEF W
  <2>4. ASSUME NEW S, NEW T, IsFiniteSet(S), IsFiniteSet(T)
        PROVE  /\ IsFiniteSet(S \cup T) /\ Cardinality(S \cup T) \in Nat
               /\ Cardinality(S \cup T) <= Cardinality(S) + Cardinality(T)
    <3>1. IsFiniteSet(S \cap T) /\ IsFiniteSet(S \cup T)
      BY <2>4, FS_Subset, FS_Union, Zenon
    <3>2. /\ Cardinality(S \cap T) \in Nat /\ Cardinality(S \cup T) \in Nat
          /\ Cardinality(S) \in Nat /\ Cardinality(T) \in Nat
      BY <2>4, <3>1, FS_CardinalityType
    <3>3. Cardinality(S \cup T) = Cardinality(S) + Cardinality(T) - Cardinality(S \cap T)
      BY <2>4, FS_Union
    <3> QED
      BY <3>1, <3>2, <3>3
  <2>5. /\ IsFiniteSet(IdleSet \cup active) /\ Cardinality(IdleSet \cup active) \in Nat
        /\ Cardinality(IdleSet \cup active) <= Cardinality(IdleSet) + Cardinality(active)
    BY <2>0, <2>3, <2>4, SMTT(30)
  <2>6. /\ IsFiniteSet((IdleSet \cup active) \cup W)
        /\ Cardinality((IdleSet \cup active) \cup W) \in Nat
        /\ Cardinality((IdleSet \cup active) \cup W)
             <= Cardinality(IdleSet \cup active) + Cardinality(W)
    BY <2>2, <2>4, <2>5
  <2>7. Cardinality(Open) <= Cardinality((IdleSet \cup active) \cup W) /\ Cardinality(Open) \in Nat
    BY <2>1, <2>6, FS_Subset, FS_CardinalityType
  <2>8. Cardinality(Open) <= Len(idle) + Cardinality(active) + ByWarm
    BY <2>0, <2>2, <2>3, <2>5, <2>6, <2>7, SMTT(30)
  <2>9. skew >= 0 => Cardinality(Open) <= Limit
    BY <2>0, <2>7, <2>8
  <2> QED
    BY <2>9 DEF WithinLimit
<1> QED
  BY CountInvariant, <1>1, PTL

-----------------------------------------------------------------------------
(***************************************************************************)
(* The refinement.  ExclusiveOwnership and WarmOwns make the owner of a    *)
(* connection a function of who holds it; what is left is to name the      *)
(* abstract step, and who changed hands, for each step of the pool.        *)
(***************************************************************************)

InPool(c) == c \in IdleSet \/ c = warmConn

LeaseInv == TypeOK /\ Positioned /\ Owned

\* The owner of a connection: who holds it, else the pool, else nobody.
LEMMA OwnerIs ==
  ASSUME LeaseInv, NEW c \in Conns
  PROVE  /\ \A p \in Procs : held[p] = c <=> OwnerOf(c) = p
         /\ InPool(c) <=> OwnerOf(c) = "pool"
         /\ OwnerOf(c) \in Procs \cup {"pool", "none"}
<1>1. /\ InPool(c) => \A p \in Procs : held[p] # c
      /\ \A p, q \in Procs : held[p] = c /\ held[q] = c => p = q
  BY PoolAssumption DEF LeaseInv, Owned, ExclusiveOwnership, WarmOwns, InPool
<1>2. CASE \E p \in Procs : held[p] = c
  <2>1. PICK p \in Procs : held[p] = c
    BY <1>2
  <2>2. OwnerOf(c) = CHOOSE q \in Procs : held[q] = c
    BY <1>2 DEF OwnerOf
  <2>3. OwnerOf(c) \in Procs /\ held[OwnerOf(c)] = c
    BY <1>2, <2>2, Zenon
  <2>4. OwnerOf(c) = p
    BY <1>1, <2>1, <2>3
  <2> QED
    BY <1>1, <2>1, <2>4, LeaseAssumption
<1>3. CASE ~\E p \in Procs : held[p] = c
  <2>1. OwnerOf(c) = IF InPool(c) THEN "pool" ELSE "none"
    BY <1>3 DEF OwnerOf, InPool
  <2> QED
    BY <1>3, <2>1, LeaseAssumption
<1> QED
  BY <1>2, <1>3

\* The same after a step.
LEMMA OwnerIsNext ==
  ASSUME LeaseInv', NEW c \in Conns
  PROVE  /\ \A p \in Procs : held'[p] = c <=> OwnerOf(c)' = p
         /\ InPool(c)' <=> OwnerOf(c)' = "pool"
         /\ OwnerOf(c)' \in Procs \cup {"pool", "none"}
<1>1. /\ InPool(c)' => \A p \in Procs : held'[p] # c
      /\ \A p, q \in Procs : held'[p] = c /\ held'[q] = c => p = q
  BY PoolAssumption DEF LeaseInv, Owned, ExclusiveOwnership, WarmOwns, InPool
<1>2. CASE \E p \in Procs : held'[p] = c
  <2>1. PICK p \in Procs : held'[p] = c
    BY <1>2
  <2>2. OwnerOf(c)' = CHOOSE q \in Procs : held'[q] = c
    BY <1>2 DEF OwnerOf
  <2>3. OwnerOf(c)' \in Procs /\ held'[OwnerOf(c)'] = c
    BY <1>2, <2>2, Zenon
  <2>4. OwnerOf(c)' = p
    BY <1>1, <2>1, <2>3
  <2> QED
    BY <1>1, <2>1, <2>4, LeaseAssumption
<1>3. CASE ~\E p \in Procs : held'[p] = c
  <2>1. OwnerOf(c)' = IF InPool(c)' THEN "pool" ELSE "none"
    BY <1>3 DEF OwnerOf, InPool
  <2> QED
    BY <1>3, <2>1, LeaseAssumption
<1> QED
  BY <1>2, <1>3

\* A connection whose holder and place stay the same keeps its owner.
LEMMA OwnerKept ==
  ASSUME LeaseInv, LeaseInv', NEW c \in Conns,
         \A p \in Procs : held'[p] = c <=> held[p] = c, InPool(c)' <=> InPool(c)
  PROVE  OwnerOf(c)' = OwnerOf(c)
<1>1. /\ \A p \in Procs : held[p] = c <=> OwnerOf(c) = p
      /\ InPool(c) <=> OwnerOf(c) = "pool"
      /\ OwnerOf(c) \in Procs \cup {"pool", "none"}
  BY OwnerIs
<1>2. /\ \A p \in Procs : held'[p] = c <=> OwnerOf(c)' = p
      /\ InPool(c)' <=> OwnerOf(c)' = "pool"
      /\ OwnerOf(c)' \in Procs \cup {"pool", "none"}
  BY OwnerIsNext
<1> QED
  BY <1>1, <1>2

\* Steps that touch no connection are stutters of the lease.
LEMMA LeaseStutters ==
  ASSUME LeaseInv, LeaseInv', closed' = closed, held' = held,
         \A c \in Conns : InPool(c)' <=> InPool(c)
  PROVE  UNCHANGED Lease!lease
<1>1. \A c \in Conns : OwnerOf(c)' = OwnerOf(c)
  BY OwnerKept
<1> QED
  BY <1>1 DEF Lease!lease

\* The pool closes connections it has kept.
LEMMA LeaseRetires ==
  ASSUME LeaseInv, LeaseInv', closed' = closed, held' = held,
         \A c \in Conns : InPool(c)' => InPool(c)
  PROVE  Lease!Retire
<1> DEFINE R == {c \in Conns : InPool(c) /\ ~InPool(c)'}
<1>1. ASSUME NEW c \in Conns PROVE OwnerOf(c)' = IF c \in R THEN "none" ELSE OwnerOf(c)
  <2>1. CASE c \in R
    <3>1. \A p \in Procs : held'[p] # c
      BY <2>1, OwnerIs, LeaseAssumption
    <3> QED
      BY <2>1, <3>1, OwnerIsNext
  <2>2. CASE c \notin R
    BY <2>2, OwnerKept
  <2> QED
    BY <2>1, <2>2
<1>2. R \in SUBSET Lease!Pooled
  BY OwnerIs DEF Lease!Pooled
<1> HIDE DEF R
<1>3. [c \in Conns |-> OwnerOf(c)]' =
        [c \in Conns |-> IF c \in R THEN "none" ELSE [d \in Conns |-> OwnerOf(d)][c]]
  BY <1>1
<1> QED
  BY <1>2, <1>3 DEF Lease!Retire

\* Acquire pops a connection; those it finds unusable on the way are closed.
LEMMA LeaseLends ==
  ASSUME LeaseInv, LeaseInv', ~closed, closed' = closed,
         NEW p \in Procs, held[p] = NoConn,
         NEW c \in Conns, InPool(c), held' = [held EXCEPT ![p] = c],
         \A e \in Conns : InPool(e)' => InPool(e)
  PROVE  Lease!Lend(p)
<1> DEFINE R == {e \in Conns : InPool(e) /\ ~InPool(e)'}
<1>0. \A q \in Procs : held'[q] = IF q = p THEN c ELSE held[q]
  BY DEF LeaseInv, TypeOK
<1>1. OwnerOf(c)' = p
  BY <1>0, OwnerIsNext
<1>2. ASSUME NEW e \in Conns, e # c
      PROVE  OwnerOf(e)' = IF e \in R THEN "none" ELSE OwnerOf(e)
  <2>1. \A q \in Procs : held'[q] = e <=> held[q] = e
    BY <1>0, <1>2, PoolAssumption
  <2>2. CASE e \in R
    <3>1. \A q \in Procs : held'[q] # e
      BY <2>1, <2>2, OwnerIs, LeaseAssumption
    <3> QED
      BY <2>2, <3>1, OwnerIsNext
  <2>3. CASE e \notin R
    BY <2>1, <2>3, OwnerKept
  <2> QED
    BY <2>2, <2>3
<1>3. R \in SUBSET Lease!Pooled /\ c \in Lease!Pooled
  BY OwnerIs DEF Lease!Pooled
<1>4. Lease!HoldsNothing(p)
  BY OwnerIs, PoolAssumption DEF Lease!HoldsNothing
<1> HIDE DEF R
<1>5. [d \in Conns |-> OwnerOf(d)]' = Lease!Moved(R, c, p)
  BY <1>1, <1>2 DEF Lease!Moved
<1> QED
  BY <1>3, <1>4, <1>5 DEF Lease!Lend

\* A connection freshly dialled for a user.
LEMMA LeaseDials ==
  ASSUME LeaseInv, LeaseInv', closed' = closed,
         NEW p \in Procs, held[p] = NoConn,
         NEW c \in Conns, ~InPool(c), \A q \in Procs : held[q] # c,
         held' = [held EXCEPT ![p] = c],
         \A e \in Conns : InPool(e)' <=> InPool(e)
  PROVE  Lease!Dial(p)
<1>0. \A q \in Procs : held'[q] = IF q = p THEN c ELSE held[q]
  BY DEF LeaseInv, TypeOK
<1>1. OwnerOf(c)' = p /\ OwnerOf(c) = "none"
  BY <1>0, OwnerIs, OwnerIsNext
<1>2. ASSUME NEW e \in Conns, e # c PROVE OwnerOf(e)' = OwnerOf(e)
  <2>1. \A q \in Procs : held'[q] = e <=> held[q] = e
    BY <1>0, <1>2, PoolAssumption
  <2> QED
    BY <2>1, OwnerKept
<1>3. Lease!HoldsNothing(p)
  BY OwnerIs, PoolAssumption DEF Lease!HoldsNothing
<1>4. [d \in Conns |-> OwnerOf(d)]' = [[d \in Conns |-> OwnerOf(d)] EXCEPT ![c] = p]
  BY <1>1, <1>2, Zenon
<1>5. [d \in Conns |-> OwnerOf(d)][c] = "none"
  BY <1>1
<1> QED
  BY <1>3, <1>4, <1>5, Zenon DEF Lease!Dial

\* A user lets its connection go: back into an open pool, or for good.
LEMMA LeaseGivesBack ==
  ASSUME LeaseInv, LeaseInv', closed' = closed,
         NEW p \in Procs, NEW c \in Conns, held[p] = c, held' = [held EXCEPT ![p] = NoConn],
         InPool(c)' => ~closed,
         \A e \in Conns \ {c} : InPool(e)' <=> InPool(e)
  PROVE  Lease!GiveBack(p)
<1> DEFINE o == IF InPool(c)' THEN "pool" ELSE "none"
<1>0. \A q \in Procs : held'[q] = IF q = p THEN NoConn ELSE held[q]
  BY DEF LeaseInv, TypeOK
<1>1. OwnerOf(c) = p
  BY OwnerIs
<1>2. \A q \in Procs : held'[q] # c
  BY <1>0, <1>1, OwnerIs, PoolAssumption
<1>3. OwnerOf(c)' = o
  BY <1>2, OwnerIsNext
<1>4. ASSUME NEW e \in Conns, e # c PROVE OwnerOf(e)' = OwnerOf(e)
  <2>1. \A q \in Procs : held'[q] = e <=> held[q] = e
    BY <1>0, <1>4, PoolAssumption
  <2> QED
    BY <1>4, <2>1, OwnerKept
<1>5. o \in {"pool", "none"} /\ (o = "pool" => ~closed)
  OBVIOUS
<1> HIDE DEF o
<1>6. [d \in Conns |-> OwnerOf(d)]' = [[d \in Conns |-> OwnerOf(d)] EXCEPT ![c] = o]
  BY <1>3, <1>4, Zenon
<1>7. [d \in Conns |-> OwnerOf(d)][c] = p
  BY <1>1
<1> QED
  BY <1>5, <1>6, <1>7, Zenon DEF Lease!GiveBack

\* A connection freshly dialled by warm-up.
LEMMA LeaseWarms ==
  ASSUME LeaseInv, LeaseInv', closed' = closed, held' = held,
         NEW c \in Conns, ~InPool(c), \A q \in Procs : held[q] # c,
         \A e \in Conns : InPool(e)' <=> InPool(e) \/ e = c
  PROVE  Lease!Dial("pool")
<1>1. OwnerOf(c)' = "pool" /\ OwnerOf(c) = "none"
  BY OwnerIs, OwnerIsNext
<1>2. ASSUME NEW e \in Conns, e # c PROVE OwnerOf(e)' = OwnerOf(e)
  BY <1>2, OwnerKept
<1>3. [d \in Conns |-> OwnerOf(d)]' = [[d \in Conns |-> OwnerOf(d)] EXCEPT ![c] = "pool"]
  BY <1>1, <1>2, Zenon
<1>4. [d \in Conns |-> OwnerOf(d)][c] = "none"
  BY <1>1
<1> QED
  BY <1>3, <1>4, LeaseAssumption, Zenon DEF Lease!Dial

\* Every step of the pool is a step of the lease or leaves it alone.
LEMMA LeaseStep ==
  ASSUME LeaseInv, LeaseInv', [Next]_vars
  PROVE  [Lease!Next]_(Lease!lease)
<1> USE PoolAssumption DEF poolVars, userVars, warmVars, drainVars
<1>0. /\ IdleSet \subseteq Conns /\ NoRepeats(idle)
      /\ held \in [Procs -> Conns \cup {NoConn}]
      /\ TypeOK /\ Positioned /\ Owned /\ ExclusiveOwnership
  BY IdleSetType DEF LeaseInv, Owned, ExclusiveOwnership, NoRepeats, TypeOK
<1>a. ASSUME UNCHANGED <<held, idle, warmConn, closed>> PROVE UNCHANGED Lease!lease
  <2>1. \A c \in Conns : InPool(c)' <=> InPool(c)
    BY <1>a DEF InPool, IdleSet
  <2> QED
    BY <1>a, <2>1, LeaseStutters
<1>b. ASSUME UNCHANGED <<held, warmConn, closed>>, IdleSet' \subseteq IdleSet
      PROVE  Lease!Next
  <2>1. \A c \in Conns : InPool(c)' => InPool(c)
    BY <1>b DEF InPool
  <2> QED
    BY <1>b, <2>1, LeaseRetires DEF Lease!Next
<1>1. ASSUME NEW p \in Procs, NEW w, AcquireLoop(p, w), held[p] = NoConn,
             UNCHANGED <<closed, warmConn>>
      PROVE  [Lease!Next]_(Lease!lease)
  <2>1. IdleSet' \subseteq IdleSet
    BY <1>0, <1>1, AcquireLoopMoves
  <2>2. CASE held' = held
    BY <1>b, <1>1, <2>1, <2>2
  <2>3. CASE held' # held
    <3>1. PICK c \in IdleSet : held' = [held EXCEPT ![p] = c]
      BY <1>0, <1>1, <2>3, AcquireLoopMoves
    <3>2. ~closed
      BY <1>1, <2>3 DEF AcquireLoop, RefuseAcquire, TakeIdle, ReserveOrWait
    <3>3. c \in Conns /\ InPool(c) /\ \A e \in Conns : InPool(e)' => InPool(e)
      BY <1>0, <1>1, <2>1 DEF InPool
    <3> QED
      BY <1>1, <3>1, <3>2, <3>3, LeaseLends, Zenon DEF Lease!Next
  <2> QED
    BY <2>2, <2>3
<1>2. ASSUME NEW p \in Procs, Acquire(p) PROVE [Lease!Next]_(Lease!lease)
  BY <1>0, <1>1, <1>2 DEF Acquire, Positioned
<1>3. ASSUME NEW p \in Procs, DialSucceeds(p) PROVE Lease!Next
  <2>1. PICK c \in Conns : Unreferenced(c) /\ held' = [held EXCEPT ![p] = c]
    BY <1>3, Zenon DEF DialSucceeds, Opened
  <2>2. UNCHANGED <<idle, warmConn, closed>> /\ held[p] = NoConn
    BY <1>0, <1>3 DEF DialSucceeds, Positioned
  <2>3. /\ ~InPool(c) /\ \A q \in Procs : held[q] # c
        /\ \A e \in Conns : InPool(e)' <=> InPool(e)
    BY <2>1, <2>2 DEF Unreferenced, InPool, IdleSet
  <2> QED
    BY <2>1, <2>2, <2>3, LeaseDials, Zenon DEF Lease!Next
<1>4. ASSUME NEW p \in Procs, DialFails(p) \/ ArmTimer(p) \/ Enlist(p) \/ TimerFires(p)
      PROVE  UNCHANGED Lease!lease
  BY <1>a, <1>4 DEF DialFails, ArmTimer, Enlist, TimerFires
<1>5. ASSUME NEW p \in Procs, WakeUp(p) PROVE [Lease!Next]_(Lease!lease)
  <2>1. held[p] = NoConn /\ UNCHANGED <<closed, warmConn>>
    BY <1>0, <1>5, Zenon DEF WakeUp, Positioned
  <2>2. CASE UNCHANGED <<held, idle>>
    BY <1>a, <2>1, <2>2
  <2>3. CASE AcquireLoop(p, waiting - 1)
    BY <1>1, <2>1, <2>3
  <2> QED
    BY <1>5, <2>2, <2>3 DEF WakeUp
<1>6. ASSUME NEW p \in Procs, Return(p) PROVE Lease!Next
  <2>1. /\ held' = [held EXCEPT ![p] = NoConn] /\ UNCHANGED <<closed, warmConn>>
        /\ held[p] \in Conns /\ held[p] # NoConn /\ held[p] \notin IdleSet
    BY <1>0, <1>6 DEF Return, Positioned, ExclusiveOwnership
  <2>2. PICK c \in Conns : held[p] = c
    BY <2>1
  <2>3. c # warmConn
    BY <1>0, <2>1, <2>2 DEF Owned, WarmOwns
  <2>4. \/ IdleSet' = IdleSet
        \/ ~closed /\ IdleSet' = IdleSet \cup {c}
    <3>1. CASE idle' = idle
      BY <3>1 DEF IdleSet
    <3>2. CASE ~closed /\ idle' = Append(idle, c)
      BY <1>0, <2>1, <2>2, <3>2, AppendIdle
    <3> QED
      BY <1>6, <2>2, <3>1, <3>2, Zenon DEF Return
  <2>5. /\ InPool(c)' => ~closed
        /\ \A e \in Conns \ {c} : InPool(e)' <=> InPool(e)
    BY <2>1, <2>2, <2>3, <2>4 DEF InPool
  <2> QED
    BY <2>1, <2>2, <2>5, LeaseGivesBack, Zenon DEF Lease!Next
<1>7. ASSUME NEW p \in Procs, CloseConn(p) PROVE [Lease!Next]_(Lease!lease)
  <2>1. UNCHANGED <<idle, closed, warmConn>> /\ held[p] \in Conns /\ held[p] \notin IdleSet
    BY <1>0, <1>7 DEF CloseConn, Positioned, ExclusiveOwnership
  <2>2. CASE held' = held
    BY <1>a, <2>1, <2>2, Zenon
  <2>3. CASE held' = [held EXCEPT ![p] = NoConn]
    <3>1. PICK c \in Conns : held[p] = c
      BY <2>1
    <3>2. c # warmConn /\ c \notin IdleSet
      BY <1>0, <2>1, <3>1 DEF Owned, WarmOwns
    <3>3. ~InPool(c)' /\ \A e \in Conns \ {c} : InPool(e)' <=> InPool(e)
      BY <2>1, <3>2 DEF InPool, IdleSet
    <3> QED
      BY <2>1, <2>3, <3>1, <3>3, LeaseGivesBack, Zenon DEF Lease!Next
  <2> QED
    BY <1>7, <2>2, <2>3 DEF CloseConn
<1>8. CASE WarmReserve \/ WarmDialFails
  BY <1>a, <1>8 DEF WarmReserve, WarmDialFails
<1>9. CASE WarmDialSucceeds
  <2>1. PICK c \in Conns : Unreferenced(c) /\ warmConn' = c
    BY <1>9 DEF WarmDialSucceeds, Opened
  <2>2. UNCHANGED <<held, idle, closed>> /\ warmConn = NoConn
    BY <1>0, <1>9, Zenon DEF WarmDialSucceeds, Positioned
  <2>3. /\ ~InPool(c) /\ \A q \in Procs : held[q] # c
        /\ \A e \in Conns : InPool(e)' <=> InPool(e) \/ e = c
    BY <2>1, <2>2, Zenon DEF Unreferenced, InPool, IdleSet
  <2> QED
    BY <2>2, <2>3, LeaseWarms DEF Lease!Next
<1>10. CASE WarmReauthFails
  <2>1. UNCHANGED <<held, idle, closed>> /\ warmConn' = NoConn
    BY <1>10 DEF WarmReauthFails
  <2>2. \A e \in Conns : InPool(e)' => InPool(e)
    BY <2>1 DEF InPool, IdleSet
  <2> QED
    BY <2>1, <2>2, LeaseRetires DEF Lease!Next
<1>11. CASE WarmInsert
  <2>1. /\ UNCHANGED <<held, closed>> /\ warmConn' = NoConn
        /\ warmConn \in Conns /\ warmConn \notin IdleSet
    BY <1>0, <1>11 DEF WarmInsert, Positioned, TypeOK, Owned, WarmOwns
  <2>2. IdleSet' \subseteq IdleSet \cup {warmConn}
    <3>1. CASE idle' = idle
      BY <3>1 DEF IdleSet
    <3>2. CASE idle' = Append(idle, warmConn)
      BY <1>0, <2>1, <3>2, AppendIdle
    <3> QED
      BY <1>11, <3>1, <3>2 DEF WarmInsert
  <2>3. \A e \in Conns : InPool(e)' => InPool(e)
    BY <2>1, <2>2 DEF InPool
  <2> QED
    BY <2>1, <2>3, LeaseRetires DEF Lease!Next
<1>12. CASE ReapIdle
  <2>1. IdleSet' \subseteq IdleSet
    BY <1>0, <1>12, ReapIdleMoves
  <2> QED
    BY <1>b, <1>12, <2>1 DEF ReapIdle
<1>13. ASSUME NEW d \in Drainers, ClosePool(d) PROVE [Lease!Next]_(Lease!lease)
  <2>1. UNCHANGED <<held, idle, warmConn>>
    BY <1>13 DEF ClosePool
  <2>2. CASE UNCHANGED closed
    BY <1>a, <2>1, <2>2
  <2>3. CASE ~closed /\ closed' = TRUE
    <3>1. \A c \in Conns : OwnerOf(c)' = OwnerOf(c)
      BY <2>1 DEF OwnerOf, IdleSet
    <3>2. Lease!Shut
      BY <2>3, <3>1 DEF Lease!Shut
    <3> QED
      BY <3>2 DEF Lease!Next
  <2> QED
    BY <1>13, <2>2, <2>3, Zenon DEF ClosePool
<1>14. ASSUME NEW d \in Drainers, DrainIdle(d) PROVE Lease!Next
  <2>1. UNCHANGED <<held, warmConn, closed>> /\ IdleSet' \subseteq IdleSet
    BY <1>14 DEF DrainIdle, IdleSet
  <2> QED
    BY <1>b, <2>1
<1>15. ASSUME NEW d \in Drainers, DrainPoll(d) \/ DrainForce(d) PROVE UNCHANGED Lease!lease
  BY <1>a, <1>15 DEF DrainPoll, DrainForce
<1>16. CASE Environment \/ UNCHANGED vars
  BY <1>a, <1>16, Zenon DEF Environment, DeadlinePasses, LifetimePasses, BackendHangsUp,
                     StopProxy, vars
<1> QED
  BY <1>2, <1>3, <1>4, <1>5, <1>6, <1>7, <1>8, <1>9, <1>10, <1>11, <1>12, <1>13, <1>14,
     <1>15, <1>16 DEF Next, UserStep, WarmStep, DrainStep

\* The pool implements ConnectionLease, for any numbers of users and connections.
THEOREM LeaseImplemented == Spec => ImplementsLease
<1>1. Init => Lease!Init
  <2> SUFFICES ASSUME Init PROVE Lease!Init
    OBVIOUS
  <2>1. \A c \in Conns : OwnerOf(c) = "none"
    BY PoolAssumption DEF Init, OwnerOf, IdleSet
  <2>2. closed = FALSE
    BY DEF Init
  <2> QED
    BY <2>1, <2>2 DEF Lease!Init
<1>2. CountInv => LeaseInv
  BY DEF CountInv, LeaseInv
<1>3. LeaseInv /\ LeaseInv' /\ [Next]_vars => [Lease!Next]_(Lease!lease)
  BY LeaseStep
<1> QED
  BY CountInvariant, <1>1, <1>2, <1>3, PTL DEF Spec, ImplementsLease, Lease!Spec

=============================================================================
