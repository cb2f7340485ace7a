-------------------------- MODULE TenantPoolProofs --------------------------
(***************************************************************************)
(* Proofs about TenantPool for any numbers of users, drainers and          *)
(* connections and any MinConns and MaxConns.                              *)
(***************************************************************************)
EXTENDS TenantPool, FiniteSetTheorems, SequenceTheorems, TLAPS

(* Facts about the operators the actions are built from *)

\* A function on 1..n is a sequence of length n.
LEMMA FunctionIsSeq ==
  ASSUME NEW S, NEW n \in Nat, NEW g \in [1 .. n -> S]
  PROVE  g \in Seq(S) /\ Len(g) = n
<1>1. g \in Seq(S)
  BY SeqDef
<1>2. DOMAIN g = 1 .. n /\ DOMAIN g = 1 .. Len(g) /\ Len(g) \in Nat
  BY <1>1, LenProperties
<1> QED
  BY <1>1, <1>2

\* The idle list holds connections only.
LEMMA IdleSetType == ASSUME TypeOK PROVE IdleSet \subseteq Conns
BY DEF TypeOK, IdleSet

\* PooledConn.Close leaves a socket state for every connection.
LEMMA CloseSocketsType ==
  ASSUME TypeOK, NEW S, CloseSockets(S)
  PROVE  sock' \in [Conns -> {"closed", "open", "broken"}]
BY DEF TypeOK, CloseSockets

\* Signal wakes at most one waiter and touches nobody else.
LEMMA SignalWakes ==
  ASSUME NEW f \in [Procs -> Positions], NEW g \in Signal(f)
  PROVE  /\ g \in [Procs -> Positions]
         /\ \A q \in Procs : g[q] = f[q] \/ (f[q] = "waiting" /\ g[q] = "woken")
BY DEF Signal, Positions

\* Broadcast wakes the waiters and touches nobody else.
LEMMA BroadcastWakes ==
  ASSUME NEW f \in [Procs -> Positions]
  PROVE  /\ Broadcast(f) \in [Procs -> Positions]
         /\ \A q \in Procs : \/ Broadcast(f)[q] = f[q]
                             \/ f[q] = "waiting" /\ Broadcast(f)[q] = "woken"
BY DEF Broadcast, Positions

\* The reaper closes a finite number of connections.
LEMMA ReapableFinite ==
  ASSUME TypeOK, NEW k \in 0 .. Len(idle)
  PROVE  /\ Reapable(k) \subseteq DOMAIN idle
         /\ IsFiniteSet(Reapable(k)) /\ Cardinality(Reapable(k)) \in Nat
         /\ IsFiniteSet(DOMAIN idle \ Reapable(k))
         /\ Cardinality(DOMAIN idle \ Reapable(k)) \in Nat
<1>1. DOMAIN idle = 1 .. Len(idle) /\ Len(idle) \in Nat
  BY DEF TypeOK
<1>2. IsFiniteSet(1 .. Len(idle))
  BY <1>1, FS_Interval
<1>3. Reapable(k) \subseteq DOMAIN idle
  BY <1>1, PoolAssumption DEF Reapable
<1>4. IsFiniteSet(Reapable(k)) /\ IsFiniteSet(DOMAIN idle \ Reapable(k))
  BY <1>1, <1>2, <1>3, FS_Subset
<1> QED
  BY <1>3, <1>4, FS_CardinalityType

-----------------------------------------------------------------------------
(***************************************************************************)
(* Type correctness.  Return puts what its caller holds into idle, so the  *)
(* types are inductive only together with the positions at which a user,   *)
(* or warm-up, holds a connection, and the one at which the lock is kept.  *)
(***************************************************************************)

\* A user holds a connection exactly while it uses it, warm-up exactly between
\* its dial and its insert, and tp.mu is kept exactly from AfterFunc to Wait.
Positioned ==
  /\ \A p \in Procs : held[p] # NoConn <=> pc[p] \in {"using", "closing"}
  /\ \A p \in Procs : mu = p <=> pc[p] = "armed"
  /\ warmConn # NoConn <=> warm = "dialed"


\* One pass of Acquire's loop keeps the types.
LEMMA AcquireLoopType ==
  ASSUME TypeOK, NEW p \in Procs, NEW w \in Int, AcquireLoop(p, w)
  PROVE  /\ total' \in Int /\ waiting' \in Int
         /\ idle' \in Seq(Conns) /\ active' \in SUBSET Conns
         /\ sock' \in [Conns -> {"closed", "open", "broken"}]
         /\ pc' \in [Procs -> Positions]
         /\ held' \in [Procs -> Conns \cup {NoConn}]
<1> USE DEF Positions
<1>1. CASE RefuseAcquire(p, w)
  BY <1>1 DEF RefuseAcquire, TypeOK
<1>2. CASE TakeIdle(p, w)
  <2>1. PICK i \in DOMAIN idle :
          /\ held' = [held EXCEPT ![p] = idle[i]]
          /\ active' = active \cup {idle[i]}
          /\ CloseSockets({idle[j] : j \in i+1 .. Len(idle)})
          /\ idle' = SubSeq(idle, 1, i - 1)
          /\ total' = total - (Len(idle) - i)
    BY <1>2, Zenon DEF TakeIdle
  <2>2. i \in 1 .. Len(idle) /\ idle[i] \in Conns /\ Len(idle) \in Nat
    BY DEF TypeOK
  <2>3. idle' \in Seq(Conns)
    <3>1. \A j \in 1 .. i - 1 : idle[j] \in Conns
      BY <2>2 DEF TypeOK
    <3>2. i - 1 \in Int
      BY <2>2
    <3> QED
      BY <2>1, <3>1, <3>2, SubSeqProperties
  <2>4. sock' \in [Conns -> {"closed", "open", "broken"}]
    BY <2>1, CloseSocketsType
  <2>5. total' \in Int
    BY <2>1, <2>2 DEF TypeOK
  <2>6. active' \in SUBSET Conns /\ held' \in [Procs -> Conns \cup {NoConn}]
    BY <2>1, <2>2 DEF TypeOK
  <2>7. waiting' \in Int /\ pc' \in [Procs -> Positions]
    BY <1>2 DEF TypeOK, TakeIdle
  <2> QED
    BY <2>3, <2>4, <2>5, <2>6, <2>7
<1>3. CASE ReserveOrWait(p, w)
  <2>1. sock' \in [Conns -> {"closed", "open", "broken"}]
    BY <1>3, CloseSocketsType DEF ReserveOrWait
  <2>2. Len(idle) \in Nat
    BY DEF TypeOK
  <2> QED
    BY <1>3, <2>1, <2>2, PoolAssumption DEF ReserveOrWait, TypeOK
<1> QED
  BY <1>1, <1>2, <1>3 DEF AcquireLoop

\* The reaper leaves a sequence of connections and an integer total.
LEMMA ReapIdleType ==
  ASSUME TypeOK, ReapIdle
  PROVE  /\ idle' \in Seq(Conns)
         /\ total' \in Int
         /\ sock' \in [Conns -> {"closed", "open", "broken"}]
<1>1. PICK k \in 0 .. Len(idle) :
        LET R == Reapable(k)
            K == DOMAIN idle \ R
        IN  /\ CloseSockets({idle[i] : i \in R})
            /\ total' = total - Cardinality(R)
            /\ \E f \in [1 .. Cardinality(K) -> K] :
                 /\ \A i, j \in 1 .. Cardinality(K) : i < j => f[i] < f[j]
                 /\ idle' = [i \in 1 .. Cardinality(K) |-> idle[f[i]]]
  BY Zenon DEF ReapIdle
<1> DEFINE K == DOMAIN idle \ Reapable(k)
<1>2. PICK f \in [1 .. Cardinality(K) -> K] :
        idle' = [i \in 1 .. Cardinality(K) |-> idle[f[i]]]
  BY <1>1, Zenon
<1>3. Cardinality(K) \in Nat /\ Cardinality(Reapable(k)) \in Nat
  BY ReapableFinite, Zenon
<1>4. ASSUME NEW i \in 1 .. Cardinality(K) PROVE idle[f[i]] \in Conns
  <2>1. f[i] \in DOMAIN idle
    BY Zenon
  <2> QED
    BY <2>1 DEF TypeOK
<1>5. idle' \in Seq(Conns)
  <2> DEFINE n == Cardinality(K)
  <2>1. n \in Nat /\ idle' = [i \in 1 .. n |-> idle[f[i]]]
    BY <1>2, <1>3
  <2>2. \A i \in 1 .. n : idle[f[i]] \in Conns
    BY <1>4, Zenon
  <2>3. idle' \in [1 .. n -> Conns]
    BY <2>1, <2>2, Zenon
  <2> HIDE DEF n
  <2> QED
    BY <2>1, <2>3, FunctionIsSeq, Zenon
<1> QED
  BY <1>1, <1>3, <1>5, CloseSocketsType DEF TypeOK

\* Every step of the pool keeps the types.
LEMMA TypeStep == TypeOK /\ Positioned /\ [Next]_vars => TypeOK'
<1> SUFFICES ASSUME TypeOK, Positioned, [Next]_vars PROVE TypeOK'
  OBVIOUS
<1> USE PoolAssumption DEF poolVars, userVars, warmVars, drainVars
<1>1. ASSUME NEW p \in Procs, Acquire(p) PROVE TypeOK'
  <2>1. waiting \in Int /\ AcquireLoop(p, waiting)
    BY <1>1 DEF Acquire, TypeOK
  <2> QED
    BY <1>1, <2>1, AcquireLoopType DEF Acquire, TypeOK
<1>2. ASSUME NEW p \in Procs, DialFails(p) PROVE TypeOK'
  BY <1>2 DEF DialFails, TypeOK, Positions
<1>3. ASSUME NEW p \in Procs, DialSucceeds(p) PROVE TypeOK'
  BY <1>3 DEF DialSucceeds, Opened, TypeOK, Positions
<1>4. ASSUME NEW p \in Procs, ArmTimer(p) PROVE TypeOK'
  BY <1>4 DEF ArmTimer, TypeOK, Positions
<1>5. ASSUME NEW p \in Procs, Enlist(p) PROVE TypeOK'
  BY <1>5 DEF Enlist, TypeOK, Positions
<1>6. ASSUME NEW p \in Procs, TimerFires(p) PROVE TypeOK'
  BY <1>6, BroadcastWakes DEF TimerFires, TypeOK
<1>7. ASSUME NEW p \in Procs, WakeUp(p) PROVE TypeOK'
  <2>1. CASE closed \/ p \in expired
    BY <1>7, <2>1 DEF WakeUp, TypeOK, Positions
  <2>2. CASE ~closed /\ p \notin expired
    <3>1. waiting - 1 \in Int /\ AcquireLoop(p, waiting - 1)
      BY <1>7, <2>2 DEF WakeUp, TypeOK
    <3> QED
      BY <1>7, <3>1, AcquireLoopType DEF WakeUp, TypeOK
  <2> QED
    BY <2>1, <2>2
<1>8. ASSUME NEW p \in Procs, Return(p) PROVE TypeOK'
  <2> held[p] \in Conns
    BY <1>8 DEF Return, Positioned, TypeOK
  <2>1. pc' \in [Procs -> Positions]
    <3>1. [pc EXCEPT ![p] = "out"] \in [Procs -> Positions]
      BY DEF TypeOK, Positions
    <3> QED
      BY <1>8, <3>1, SignalWakes, Zenon DEF Return
  <2>2. /\ sock' \in [Conns -> {"closed", "open", "broken"}]
        /\ idle' \in Seq(Conns) /\ total' \in Int
    <3>1. CASE closed \/ held[p] \in aged
      BY <1>8, <3>1, CloseSocketsType DEF Return, TypeOK
    <3>2. CASE ~(closed \/ held[p] \in aged)
      <4>1. idle' = Append(idle, held[p]) /\ sock' = sock /\ total' = total
        BY <1>8, <3>2 DEF Return
      <4>2. idle \in Seq(Conns)
        BY DEF TypeOK
      <4>3. idle' \in Seq(Conns)
        BY <4>1, <4>2, AppendProperties
      <4> QED
        BY <4>1, <4>3 DEF TypeOK
    <3> QED
      BY <3>1, <3>2
  <2>3. skew' \in Int /\ active' \in SUBSET Conns
    BY <1>8 DEF Return, TypeOK
  <2>4. held' \in [Procs -> Conns \cup {NoConn}]
    BY <1>8 DEF Return, TypeOK
  <2> QED
    BY <1>8, <2>1, <2>2, <2>3, <2>4 DEF Return, TypeOK
<1>9. ASSUME NEW p \in Procs, CloseConn(p) PROVE TypeOK'
  BY <1>9, CloseSocketsType DEF CloseConn, TypeOK, Positions
<1>10. CASE WarmReserve
  BY <1>10 DEF WarmReserve, TypeOK
<1>11. CASE WarmDialFails
  BY <1>11 DEF WarmDialFails, TypeOK
<1>12. CASE WarmDialSucceeds
  BY <1>12 DEF WarmDialSucceeds, Opened, TypeOK
<1>13. CASE WarmReauthFails
  BY <1>13, CloseSocketsType DEF WarmReauthFails, TypeOK
<1>14. CASE WarmInsert
  <2> warmConn \in Conns
    BY <1>14 DEF WarmInsert, Positioned, TypeOK
  <2>1. CASE closed
    BY <1>14, <2>1, CloseSocketsType DEF WarmInsert, TypeOK
  <2>2. CASE ~closed
    <3>1. idle' = Append(idle, warmConn)
      BY <1>14, <2>2 DEF WarmInsert
    <3>2. idle \in Seq(Conns)
      BY DEF TypeOK
    <3>3. idle' \in Seq(Conns)
      BY <3>1, <3>2, AppendProperties
    <3> QED
      BY <1>14, <2>2, <3>3 DEF WarmInsert, TypeOK
  <2> QED
    BY <2>1, <2>2
<1>15. CASE ReapIdle
  BY <1>15, ReapIdleType, Zenon DEF ReapIdle, TypeOK
<1>16. ASSUME NEW d \in Drainers, ClosePool(d) PROVE TypeOK'
  <2>1. pc' \in [Procs -> Positions]
    BY <1>16, BroadcastWakes DEF ClosePool, TypeOK
  <2>2. closed' \in BOOLEAN
    BY <1>16, Zenon DEF ClosePool, TypeOK
  <2> QED
    BY <1>16, <2>1, <2>2 DEF ClosePool, TypeOK
<1>17. ASSUME NEW d \in Drainers, DrainIdle(d) PROVE TypeOK'
  BY <1>17, CloseSocketsType DEF DrainIdle, TypeOK
<1>18. ASSUME NEW d \in Drainers, DrainPoll(d) PROVE TypeOK'
  BY <1>18 DEF DrainPoll, TypeOK
<1>19. ASSUME NEW d \in Drainers, DrainForce(d) PROVE TypeOK'
  <2> Cardinality(active) \in Nat
    BY FS_Subset, FS_CardinalityType DEF TypeOK
  <2> QED
    BY <1>19, CloseSocketsType DEF DrainForce, TypeOK
<1>20. CASE Environment
  <2>1. ASSUME NEW p \in Procs, DeadlinePasses(p) PROVE TypeOK'
    BY <2>1 DEF DeadlinePasses, TypeOK
  <2>2. ASSUME NEW c \in Conns, LifetimePasses(c) PROVE TypeOK'
    BY <2>2 DEF LifetimePasses, TypeOK
  <2>3. ASSUME NEW c \in Conns, BackendHangsUp(c) PROVE TypeOK'
    BY <2>3 DEF BackendHangsUp, TypeOK
  <2>4. CASE StopProxy
    BY <2>4 DEF StopProxy, TypeOK
  <2> QED
    BY <1>20, <2>1, <2>2, <2>3, <2>4 DEF Environment
<1>21. CASE UNCHANGED vars
  BY <1>21 DEF vars, TypeOK
<1> QED
  BY <1>1, <1>2, <1>3, <1>4, <1>5, <1>6, <1>7, <1>8, <1>9, <1>10, <1>11, <1>12, <1>13,
     <1>14, <1>15, <1>16, <1>17, <1>18, <1>19, <1>20, <1>21
     DEF Next, UserStep, WarmStep, DrainStep

\* The positions are kept by every step.
LEMMA PositionedStep == TypeOK /\ Positioned /\ [Next]_vars => Positioned'
<1> SUFFICES ASSUME TypeOK, Positioned, [Next]_vars PROVE Positioned'
  OBVIOUS
<1> USE PoolAssumption DEF poolVars, userVars, warmVars, drainVars
<1>1. ASSUME NEW p \in Procs, NEW w, AcquireLoop(p, w), Unlocked,
             pc[p] \in {"out", "woken"}, mu' = mu, UNCHANGED warmVars
      PROVE  Positioned'
  <2>1. CASE RefuseAcquire(p, w)
    BY <1>1, <2>1 DEF RefuseAcquire, Positioned, Unlocked, TypeOK
  <2>2. CASE TakeIdle(p, w)
    <3>1. PICK i \in DOMAIN idle : held' = [held EXCEPT ![p] = idle[i]]
      BY <2>2, Zenon DEF TakeIdle
    <3>2. idle[i] # NoConn
      BY DEF TypeOK
    <3> QED
      BY <1>1, <2>2, <3>1, <3>2 DEF TakeIdle, Positioned, Unlocked, TypeOK
  <2>3. CASE ReserveOrWait(p, w)
    BY <1>1, <2>3 DEF ReserveOrWait, Positioned, Unlocked, TypeOK
  <2> QED
    BY <1>1, <2>1, <2>2, <2>3 DEF AcquireLoop
<1>2. ASSUME NEW p \in Procs, Acquire(p) PROVE Positioned'
  BY <1>1, <1>2 DEF Acquire
<1>3. ASSUME NEW p \in Procs, DialFails(p) PROVE Positioned'
  BY <1>3 DEF DialFails, Positioned, TypeOK
<1>4. ASSUME NEW p \in Procs, DialSucceeds(p) PROVE Positioned'
  BY <1>4 DEF DialSucceeds, Positioned, TypeOK
<1>5. ASSUME NEW p \in Procs, ArmTimer(p) PROVE Positioned'
  BY <1>5 DEF ArmTimer, Positioned, Unlocked, TypeOK
<1>6. ASSUME NEW p \in Procs, Enlist(p) PROVE Positioned'
  BY <1>6 DEF Enlist, Positioned, TypeOK
<1>7. ASSUME NEW p \in Procs, TimerFires(p) PROVE Positioned'
  BY <1>7 DEF TimerFires, Broadcast, Positioned, TypeOK
<1>8. ASSUME NEW p \in Procs, WakeUp(p) PROVE Positioned'
  <2>1. CASE closed \/ p \in expired
    BY <1>8, <2>1 DEF WakeUp, Positioned, Unlocked, TypeOK
  <2>2. CASE ~closed /\ p \notin expired
    BY <1>1, <1>8, <2>2 DEF WakeUp
  <2> QED
    BY <2>1, <2>2
<1>9. ASSUME NEW p \in Procs, Return(p) PROVE Positioned'
  <2>1. [pc EXCEPT ![p] = "out"] \in [Procs -> Positions]
    BY DEF TypeOK, Positions
  <2>2. \A q \in Procs : LET f == [pc EXCEPT ![p] = "out"]
                         IN  pc'[q] = f[q] \/ (f[q] = "waiting" /\ pc'[q] = "woken")
    BY <1>9, <2>1, SignalWakes, Zenon DEF Return
  <2>3. /\ pc \in [Procs -> Positions] /\ held \in [Procs -> Conns \cup {NoConn}]
        /\ pc[p] \in {"using", "closing"} /\ held' = [held EXCEPT ![p] = NoConn]
        /\ mu = Nobody /\ UNCHANGED <<mu, warm, warmConn>>
    BY <1>9 DEF Return, Unlocked, TypeOK
  <2>4. ASSUME NEW q \in Procs PROVE pc'[q] \in {"using", "closing"} <=> held'[q] # NoConn
    BY <2>2, <2>3 DEF Positioned
  <2>5. ASSUME NEW q \in Procs PROVE mu' = q <=> pc'[q] = "armed"
    BY <2>2, <2>3 DEF Positioned
  <2> QED
    BY <2>3, <2>4, <2>5 DEF Positioned
<1>10. ASSUME NEW p \in Procs, CloseConn(p) PROVE Positioned'
  BY <1>10 DEF CloseConn, Positioned, TypeOK
<1>11. CASE WarmStep
  BY <1>11 DEF WarmStep, WarmReserve, WarmDialFails, WarmDialSucceeds, WarmReauthFails,
               WarmInsert, Opened, Positioned, TypeOK
<1>12. CASE ReapIdle
  BY <1>12 DEF ReapIdle, Positioned
<1>13. ASSUME NEW d \in Drainers, ClosePool(d) PROVE Positioned'
  BY <1>13 DEF ClosePool, Broadcast, Positioned, TypeOK
<1>14. ASSUME NEW d \in Drainers, DrainIdle(d) \/ DrainPoll(d) \/ DrainForce(d)
       PROVE  Positioned'
  BY <1>14 DEF DrainIdle, DrainPoll, DrainForce, Positioned
<1>15. CASE Environment
  BY <1>15 DEF Environment, DeadlinePasses, LifetimePasses, BackendHangsUp, StopProxy,
               Positioned
<1>16. CASE UNCHANGED vars
  BY <1>16 DEF vars, Positioned
<1> QED
  BY <1>2, <1>3, <1>4, <1>5, <1>6, <1>7, <1>8, <1>9, <1>10, <1>11, <1>12, <1>13, <1>14,
     <1>15, <1>16 DEF Next, UserStep, DrainStep

\* The initial state has the types and the positions.
LEMMA InitTyped == Init => TypeOK /\ Positioned
<1> SUFFICES ASSUME Init PROVE TypeOK /\ Positioned
  OBVIOUS
<1>1. TypeOK
  <2>1. closed \in BOOLEAN /\ shutdown \in BOOLEAN /\ swept \in BOOLEAN
    BY Zenon DEF Init
  <2>2. idle \in Seq(Conns)
    BY DEF Init
  <2> QED
    BY <2>1, <2>2 DEF Init, TypeOK, Positions
<1>2. Positioned
  BY PoolAssumption DEF Init, Positioned
<1> QED
  BY <1>1, <1>2

\* Every reachable state of the pool is well typed.
THEOREM TypeCorrect == Spec => [](TypeOK /\ Positioned)
BY InitTyped, TypeStep, PositionedStep, PTL DEF Spec

-----------------------------------------------------------------------------
(***************************************************************************)
(* Ownership and tracking.  Warm-up is an owner too: what it has dialled   *)
(* must not be idle or held, or its append would list it twice.            *)
(***************************************************************************)

WarmOwns ==
  warmConn # NoConn => warmConn \notin IdleSet /\ \A p \in Procs : held[p] # warmConn

Owned == ExclusiveOwnership /\ WarmOwns

NoRepeats(s) == \A i, j \in DOMAIN s : s[i] = s[j] => i = j

\* What one pass of Acquire's loop does to the idle list, the caller and the
\* sockets: at most one connection moves from idle to the caller, and every
\* other one that leaves idle is closed.
LEMMA AcquireLoopMoves ==
  ASSUME TypeOK, ExclusiveOwnership, NEW p \in Procs, NEW w, AcquireLoop(p, w)
  PROVE  /\ IdleSet' \subseteq IdleSet
         /\ NoRepeats(idle')
         /\ active \subseteq active'
         /\ \/ held' = held
            \/ \E c \in IdleSet \ IdleSet' : held' = [held EXCEPT ![p] = c] /\ c \in active'
         /\ \A e \in Conns : sock'[e] # "closed" =>
              /\ sock[e] # "closed"
              /\ e \in IdleSet => e \in IdleSet' \/ held' = [held EXCEPT ![p] = e]
<1>1. CASE RefuseAcquire(p, w)
  BY <1>1 DEF RefuseAcquire, IdleSet, ExclusiveOwnership, NoRepeats
<1>2. CASE TakeIdle(p, w)
  <2>1. PICK i \in DOMAIN idle :
          /\ held' = [held EXCEPT ![p] = idle[i]]
          /\ active' = active \cup {idle[i]}
          /\ CloseSockets({idle[j] : j \in i+1 .. Len(idle)})
          /\ idle' = SubSeq(idle, 1, i - 1)
    BY <1>2, Zenon DEF TakeIdle
  <2>2. /\ Len(idle) \in Nat /\ DOMAIN idle = 1 .. Len(idle) /\ i \in 1 .. Len(idle)
        /\ \A j \in 1 .. Len(idle) : idle[j] \in Conns
    BY DEF TypeOK
  <2>3. /\ DOMAIN idle' = 1 .. i - 1
        /\ \A j \in 1 .. i - 1 : idle'[j] = idle[j]
    <3>1. /\ 1 \in Int /\ i - 1 \in Int
          /\ \A j \in 1 .. i - 1 : idle[j] \in Conns
      BY <2>2
    <3>2. /\ SubSeq(idle, 1, i - 1) \in Seq(Conns)
          /\ Len(SubSeq(idle, 1, i - 1)) = (IF 1 <= i - 1 THEN i - 1 - 1 + 1 ELSE 0)
          /\ \A j \in 1 .. i - 1 - 1 + 1 : SubSeq(idle, 1, i - 1)[j] = idle[1 + j - 1]
      BY <3>1, SubSeqProperties
    <3>3. Len(idle') = i - 1 /\ \A j \in 1 .. i - 1 : idle'[j] = idle[j]
      BY <2>1, <2>2, <3>2
    <3> QED
      BY <2>1, <3>2, <3>3, LenProperties
  <2>4. IdleSet' = {idle[j] : j \in 1 .. i - 1}
    BY <2>3 DEF IdleSet
  <2>5. IdleSet' \subseteq IdleSet /\ idle[i] \in IdleSet \ IdleSet'
    <3>1. IdleSet' \subseteq IdleSet /\ idle[i] \in IdleSet
      <4>1. 1 .. i - 1 \subseteq DOMAIN idle
        BY <2>2
      <4> QED
        BY <2>4, <4>1 DEF IdleSet
    <3>2. ASSUME NEW j \in 1 .. i - 1 PROVE idle[i] # idle[j]
      <4>1. j \in DOMAIN idle /\ j # i
        BY <2>2
      <4> QED
        BY <4>1 DEF ExclusiveOwnership
    <3> QED
      BY <2>4, <3>1, <3>2
  <2>6. NoRepeats(idle')
    <3>1. \A a, b \in 1 .. Len(idle) : idle[a] = idle[b] => a = b
      BY <2>2 DEF ExclusiveOwnership
    <3> QED
      BY <2>2, <2>3, <3>1 DEF NoRepeats
  <2>7. ASSUME NEW e \in Conns, sock'[e] # "closed"
        PROVE  /\ sock[e] # "closed"
               /\ e \in IdleSet => e \in IdleSet' \/ held' = [held EXCEPT ![p] = e]
    <3>1. e \notin {idle[j] : j \in i+1 .. Len(idle)} /\ sock[e] # "closed"
      BY <2>1, <2>7 DEF CloseSockets
    <3>2. ASSUME e \in IdleSet PROVE e \in IdleSet' \/ e = idle[i]
      <4>1. PICK j \in 1 .. Len(idle) : e = idle[j]
        BY <2>2, <3>2 DEF IdleSet
      <4>2. j \notin i+1 .. Len(idle)
        BY <3>1, <4>1
      <4> QED
        BY <2>2, <2>4, <4>1, <4>2
    <3> QED
      BY <2>1, <3>1, <3>2, Zenon
  <2> QED
    BY <2>1, <2>5, <2>6, <2>7, Zenon
<1>3. CASE ReserveOrWait(p, w)
  <2>1. IdleSet' = {} /\ NoRepeats(idle')
    BY <1>3 DEF ReserveOrWait, IdleSet, NoRepeats
  <2>2. \A e \in Conns : sock'[e] # "closed" => sock[e] # "closed" /\ e \notin IdleSet
    BY <1>3 DEF ReserveOrWait, CloseSockets
  <2> QED
    BY <1>3, <2>1, <2>2 DEF ReserveOrWait
<1> QED
  BY <1>1, <1>2, <1>3 DEF AcquireLoop

\* Appending a connection that is not idle lists it once.
LEMMA AppendIdle ==
  ASSUME TypeOK, NoRepeats(idle), NEW c \in Conns, c \notin IdleSet, idle' = Append(idle, c)
  PROVE  IdleSet' = IdleSet \cup {c} /\ NoRepeats(idle')
<1>1. /\ Len(idle) \in Nat /\ DOMAIN idle = 1 .. Len(idle)
      /\ DOMAIN idle' = 1 .. Len(idle) + 1
      /\ \A i \in 1 .. Len(idle) : idle'[i] = idle[i]
      /\ idle'[Len(idle) + 1] = c
  <2>1. idle \in Seq(Conns)
    BY DEF TypeOK
  <2>2. /\ idle' \in Seq(Conns) /\ Len(idle') = Len(idle) + 1
        /\ \A i \in 1 .. Len(idle) : idle'[i] = idle[i]
        /\ idle'[Len(idle) + 1] = c
    BY <2>1, AppendProperties
  <2> QED
    BY <2>1, <2>2, LenProperties
<1>2. IdleSet' = IdleSet \cup {c}
  BY <1>1 DEF IdleSet
<1>3. NoRepeats(idle')
  <2> SUFFICES ASSUME NEW i \in 1 .. Len(idle) + 1, NEW j \in 1 .. Len(idle) + 1,
                      idle'[i] = idle'[j]
               PROVE  i = j
    BY <1>1 DEF NoRepeats
  <2>1. \A k \in 1 .. Len(idle) : idle'[k] # c
    BY <1>1 DEF IdleSet
  <2>2. CASE i = Len(idle) + 1 \/ j = Len(idle) + 1
    BY <1>1, <2>1, <2>2
  <2>3. CASE i \in 1 .. Len(idle) /\ j \in 1 .. Len(idle)
    BY <1>1, <2>3 DEF NoRepeats
  <2> QED
    BY <1>1, <2>2, <2>3
<1> QED
  BY <1>2, <1>3

\* The reaper keeps in idle exactly the connections it does not close.
LEMMA ReapIdleMoves ==
  ASSUME TypeOK, NoRepeats(idle), ReapIdle
  PROVE  /\ IdleSet' \subseteq IdleSet
         /\ NoRepeats(idle')
         /\ \A e \in Conns : sock'[e] # "closed" =>
              sock[e] # "closed" /\ (e \in IdleSet => e \in IdleSet')
<1>1. PICK k \in 0 .. Len(idle) :
        LET R == Reapable(k)
            K == DOMAIN idle \ R
        IN  /\ CloseSockets({idle[i] : i \in R})
            /\ \E f \in [1 .. Cardinality(K) -> K] :
                 /\ \A i, j \in 1 .. Cardinality(K) : i < j => f[i] < f[j]
                 /\ idle' = [i \in 1 .. Cardinality(K) |-> idle[f[i]]]
  BY Zenon DEF ReapIdle
<1> DEFINE K == DOMAIN idle \ Reapable(k)
           n == Cardinality(K)
<1>2. PICK f \in [1 .. n -> K] :
        /\ \A i, j \in 1 .. n : i < j => f[i] < f[j]
        /\ idle' = [i \in 1 .. n |-> idle[f[i]]]
  BY <1>1, Zenon
<1>3. /\ n \in Nat /\ IsFiniteSet(K) /\ K \subseteq Nat /\ K \subseteq DOMAIN idle
      /\ Reapable(k) \subseteq DOMAIN idle
  <2>1. /\ IsFiniteSet(K) /\ n \in Nat
        /\ Reapable(k) \subseteq DOMAIN idle
    BY ReapableFinite, Zenon
  <2>2. DOMAIN idle \subseteq Nat
    BY DEF TypeOK
  <2> QED
    BY <2>1, <2>2
<1> HIDE DEF n
<1>4. \A i, j \in 1 .. n : f[i] = f[j] => i = j
  <2> SUFFICES ASSUME NEW i \in 1 .. n, NEW j \in 1 .. n, i # j PROVE f[i] # f[j]
    OBVIOUS
  <2>1. f[i] \in Nat /\ f[j] \in Nat
    BY <1>3
  <2>2. i < j \/ j < i
    BY <1>3
  <2> QED
    BY <1>2, <2>1, <2>2
<1>5. f \in Surjection(1 .. n, K)
  <2>1. f \in Injection(1 .. n, K)
    BY <1>4 DEF Injection, IsInjective
  <2>2. Cardinality(1 .. n) = n
    BY <1>3, FS_Interval
  <2> QED
    BY <1>3, <2>1, <2>2, FS_Injection DEF n
<1>6. DOMAIN idle' = 1 .. n /\ \A i \in 1 .. n : idle'[i] = idle[f[i]] /\ f[i] \in DOMAIN idle
  BY <1>2, <1>3
<1>7. IdleSet' \subseteq IdleSet
  BY <1>6 DEF IdleSet
<1>8. NoRepeats(idle')
  BY <1>4, <1>6 DEF NoRepeats
<1>9. ASSUME NEW e \in Conns, sock'[e] # "closed"
      PROVE  sock[e] # "closed" /\ (e \in IdleSet => e \in IdleSet')
  <2>1. e \notin {idle[i] : i \in Reapable(k)} /\ sock[e] # "closed"
    BY <1>1, <1>9 DEF CloseSockets
  <2>2. ASSUME e \in IdleSet PROVE e \in IdleSet'
    <3>1. PICK i \in DOMAIN idle : e = idle[i]
      BY <2>2 DEF IdleSet
    <3>2. i \in K
      BY <2>1, <3>1
    <3>3. PICK m \in 1 .. n : f[m] = i
      BY <1>5, <3>2 DEF Surjection
    <3> QED
      BY <1>6, <3>1, <3>3 DEF IdleSet
  <2> QED
    BY <2>1, <2>2
<1> QED
  BY <1>7, <1>8, <1>9

\* Every step keeps ownership exclusive.
LEMMA OwnedStep == TypeOK /\ Positioned /\ Owned /\ [Next]_vars => Owned'
<1> SUFFICES ASSUME TypeOK, Positioned, Owned, [Next]_vars PROVE Owned'
  OBVIOUS
<1> USE PoolAssumption DEF poolVars, userVars, warmVars, drainVars
<1>0. /\ IdleSet \subseteq Conns
      /\ NoRepeats(idle)
      /\ held \in [Procs -> Conns \cup {NoConn}]
  BY IdleSetType DEF Owned, ExclusiveOwnership, NoRepeats, TypeOK
<1>a. ASSUME UNCHANGED <<idle, held, warmConn>> PROVE Owned'
  BY <1>a DEF Owned, ExclusiveOwnership, WarmOwns, IdleSet
<1>b. ASSUME IdleSet' \subseteq IdleSet, NoRepeats(idle'), UNCHANGED <<held, warmConn>>
      PROVE  Owned'
  BY <1>b DEF Owned, ExclusiveOwnership, WarmOwns, NoRepeats
<1>1. ASSUME NEW p \in Procs, NEW w, AcquireLoop(p, w), UNCHANGED warmConn
      PROVE  Owned'
  <2>1. IdleSet' \subseteq IdleSet /\ NoRepeats(idle')
    BY <1>1, AcquireLoopMoves DEF Owned
  <2>2. CASE held' = held
    BY <1>b, <1>1, <2>1, <2>2
  <2>3. ASSUME NEW c \in IdleSet \ IdleSet', held' = [held EXCEPT ![p] = c] PROVE Owned'
    <3>1. /\ c # NoConn /\ c # warmConn
          /\ \A q \in Procs : held[q] # c /\ held[q] \notin IdleSet'
      BY <1>0, <2>1, <2>3 DEF Owned, ExclusiveOwnership, WarmOwns
    <3>2. \A q \in Procs : held'[q] = IF q = p THEN c ELSE held[q]
      BY <1>0, <2>3
    <3>3. ExclusiveOwnership'
      BY <2>1, <2>3, <3>1, <3>2 DEF Owned, ExclusiveOwnership, NoRepeats
    <3>4. WarmOwns'
      BY <1>1, <2>1, <3>1, <3>2 DEF Owned, WarmOwns
    <3> QED
      BY <3>3, <3>4 DEF Owned
  <2> QED
    BY <1>1, <2>2, <2>3, AcquireLoopMoves DEF Owned
<1>2. ASSUME NEW p \in Procs, Acquire(p) PROVE Owned'
  BY <1>1, <1>2 DEF Acquire
<1>3. ASSUME NEW p \in Procs, DialFails(p) PROVE Owned'
  BY <1>a, <1>3 DEF DialFails
<1>4. ASSUME NEW p \in Procs, DialSucceeds(p) PROVE Owned'
  <2>1. PICK c \in Conns : Unreferenced(c) /\ held' = [held EXCEPT ![p] = c]
    BY <1>4, Zenon DEF DialSucceeds, Opened
  <2>2. UNCHANGED <<idle, warmConn>>
    BY <1>4 DEF DialSucceeds
  <2> QED
    <3>1. IdleSet' = IdleSet /\ NoRepeats(idle')
      BY <1>0, <2>2 DEF IdleSet, NoRepeats
    <3>2. c \notin IdleSet /\ c # warmConn /\ \A q \in Procs : held[q] # c
      BY <2>1 DEF Unreferenced
    <3>3. \A q \in Procs : held'[q] = IF q = p THEN c ELSE held[q]
      BY <1>0, <2>1
    <3>4. ExclusiveOwnership'
      BY <3>1, <3>2, <3>3 DEF Owned, ExclusiveOwnership, NoRepeats
    <3>5. WarmOwns'
      BY <2>2, <3>1, <3>2, <3>3 DEF Owned, WarmOwns
    <3> QED
      BY <3>4, <3>5 DEF Owned
<1>5. ASSUME NEW p \in Procs, ArmTimer(p) \/ Enlist(p) \/ TimerFires(p) PROVE Owned'
  BY <1>a, <1>5 DEF ArmTimer, Enlist, TimerFires
<1>6. ASSUME NEW p \in Procs, WakeUp(p) PROVE Owned'
  BY <1>a, <1>1, <1>6 DEF WakeUp
<1>7. ASSUME NEW p \in Procs, Return(p) PROVE Owned'
  <2>1. held[p] \in Conns /\ held[p] # NoConn /\ held[p] \notin IdleSet
    BY <1>7 DEF Return, Positioned, TypeOK, Owned, ExclusiveOwnership
  <2>2. held' = [held EXCEPT ![p] = NoConn] /\ UNCHANGED warmConn
    BY <1>7 DEF Return
  <2>3. IdleSet' \subseteq IdleSet \cup {held[p]} /\ NoRepeats(idle')
    <3>1. CASE UNCHANGED idle
      BY <1>0, <3>1 DEF IdleSet, NoRepeats
    <3>2. CASE idle' = Append(idle, held[p])
      BY <1>0, <2>1, <3>2, AppendIdle
    <3> QED
      BY <1>7, <3>1, <3>2 DEF Return
  <2>4. NoConn \notin IdleSet /\ NoConn # held[p]
    BY <1>0, <2>1
  <2> QED
    BY <1>0, <2>1, <2>2, <2>3, <2>4 DEF Owned, ExclusiveOwnership, WarmOwns, NoRepeats
<1>8. ASSUME NEW p \in Procs, CloseConn(p) PROVE Owned'
  <2>1. CASE UNCHANGED held
    BY <1>a, <1>8, <2>1 DEF CloseConn
  <2>2. CASE held' = [held EXCEPT ![p] = NoConn]
    <3>1. UNCHANGED <<idle, warmConn>>
      BY <1>8 DEF CloseConn
    <3>2. IdleSet' = IdleSet /\ NoRepeats(idle') /\ NoConn \notin IdleSet
      BY <1>0, <3>1 DEF IdleSet, NoRepeats
    <3> QED
      BY <1>0, <2>2, <3>1, <3>2 DEF Owned, ExclusiveOwnership, WarmOwns, NoRepeats
  <2> QED
    BY <1>8, <2>1, <2>2 DEF CloseConn
<1>9. CASE WarmReserve \/ WarmDialFails
  BY <1>a, <1>9 DEF WarmReserve, WarmDialFails
<1>10. CASE WarmDialSucceeds
  <2>1. PICK c \in Conns : Unreferenced(c) /\ warmConn' = c
    BY <1>10 DEF WarmDialSucceeds, Opened
  <2>2. UNCHANGED <<idle, held>>
    BY <1>10 DEF WarmDialSucceeds
  <2>3. IdleSet' = IdleSet /\ NoRepeats(idle')
    BY <1>0, <2>2 DEF IdleSet, NoRepeats
  <2>4. c \notin IdleSet /\ \A p \in Procs : held[p] # c
    BY <2>1 DEF Unreferenced
  <2> QED
    BY <2>1, <2>2, <2>3, <2>4 DEF Owned, ExclusiveOwnership, WarmOwns, NoRepeats
<1>11. CASE WarmReauthFails
  <2>1. UNCHANGED <<idle, held>> /\ warmConn' = NoConn
    BY <1>11 DEF WarmReauthFails
  <2>2. IdleSet' = IdleSet /\ NoRepeats(idle')
    BY <1>0, <2>1 DEF IdleSet, NoRepeats
  <2> QED
    BY <2>1, <2>2 DEF Owned, ExclusiveOwnership, WarmOwns, NoRepeats
<1>12. CASE WarmInsert
  <2>1. warmConn \in Conns /\ warmConn \notin IdleSet /\ \A p \in Procs : held[p] # warmConn
    BY <1>12 DEF WarmInsert, Positioned, TypeOK, Owned, WarmOwns
  <2>2. warmConn' = NoConn /\ held' = held
    BY <1>12 DEF WarmInsert
  <2>3. IdleSet' \subseteq IdleSet \cup {warmConn} /\ NoRepeats(idle')
    <3>1. CASE UNCHANGED idle
      BY <1>0, <3>1 DEF IdleSet, NoRepeats
    <3>2. CASE idle' = Append(idle, warmConn)
      BY <1>0, <2>1, <3>2, AppendIdle
    <3> QED
      BY <1>12, <3>1, <3>2 DEF WarmInsert
  <2> QED
    BY <2>1, <2>2, <2>3 DEF Owned, ExclusiveOwnership, WarmOwns, NoRepeats
<1>13. CASE ReapIdle
  <2>1. IdleSet' \subseteq IdleSet /\ NoRepeats(idle')
    BY <1>0, <1>13, ReapIdleMoves
  <2> QED
    BY <1>b, <1>13, <2>1 DEF ReapIdle
<1>14. ASSUME NEW d \in Drainers, DrainIdle(d) PROVE Owned'
  <2>1. IdleSet' \subseteq IdleSet /\ NoRepeats(idle')
    <3>1. idle' = <<>>
      BY <1>14 DEF DrainIdle
    <3> QED
      BY <3>1 DEF IdleSet, NoRepeats
  <2> QED
    BY <1>b, <1>14, <2>1 DEF DrainIdle
<1>15. ASSUME NEW d \in Drainers, ClosePool(d) \/ DrainPoll(d) \/ DrainForce(d) PROVE Owned'
  BY <1>a, <1>15 DEF ClosePool, DrainPoll, DrainForce
<1>16. CASE Environment
  BY <1>a, <1>16 DEF Environment, DeadlinePasses, LifetimePasses, BackendHangsUp, StopProxy
<1>17. CASE UNCHANGED vars
  BY <1>a, <1>17 DEF vars
<1> QED
  BY <1>2, <1>3, <1>4, <1>5, <1>6, <1>7, <1>8, <1>9, <1>10, <1>11, <1>12, <1>13, <1>14,
     <1>15, <1>16, <1>17 DEF Next, UserStep, WarmStep, DrainStep

\* A connection is never used by two goroutines, nor used while idle, nor idle
\* twice, for any number of clients, checkers, drainers and connections.
THEOREM OwnershipExclusive == Spec => []ExclusiveOwnership
<1>1. Init => TypeOK /\ Positioned /\ Owned
  <2>1. Init => Owned
    BY PoolAssumption DEF Init, Owned, ExclusiveOwnership, WarmOwns, IdleSet
  <2> QED
    BY <2>1, InitTyped
<1>2. TypeOK /\ Positioned /\ Owned /\ [Next]_vars => (TypeOK /\ Positioned /\ Owned)'
  BY TypeStep, PositionedStep, OwnedStep
<1>3. Owned => ExclusiveOwnership
  BY DEF Owned
<1> QED
  BY <1>1, <1>2, <1>3, PTL DEF Spec

\* Every step keeps each open socket in some owner's hands.
LEMMA TrackedStep ==
  TypeOK /\ Positioned /\ Owned /\ OpenSocketsTracked /\ [Next]_vars => OpenSocketsTracked'
<1> SUFFICES ASSUME TypeOK, Positioned, Owned, OpenSocketsTracked, [Next]_vars,
                    NEW e \in Conns, sock'[e] # "closed"
             PROVE  \/ e \in IdleSet'
                    \/ e = warmConn'
                    \/ e \in active' /\ \E q \in Procs : held'[q] = e
  BY DEF OpenSocketsTracked
<1> DEFINE Kept == \/ e \in IdleSet'
                   \/ e = warmConn'
                   \/ e \in active' /\ \E q \in Procs : held'[q] = e
<1> USE PoolAssumption DEF poolVars, userVars, warmVars, drainVars
<1>0. /\ sock \in [Conns -> {"closed", "open", "broken"}]
      /\ held \in [Procs -> Conns \cup {NoConn}]
      /\ sock[e] # "closed" => \/ e \in IdleSet
                               \/ e = warmConn
                               \/ e \in active /\ \E q \in Procs : held[q] = e
      /\ NoRepeats(idle)
  BY DEF TypeOK, OpenSocketsTracked, Owned, ExclusiveOwnership, NoRepeats
<1>a. ASSUME UNCHANGED <<idle, active, held, warmConn>>, sock[e] # "closed" PROVE Kept
  BY <1>0, <1>a DEF IdleSet
<1>1. ASSUME NEW p \in Procs, NEW w, AcquireLoop(p, w), held[p] = NoConn, UNCHANGED warmConn
      PROVE  Kept
  <2>1. /\ active \subseteq active'
        /\ \/ held' = held
           \/ \E c \in IdleSet \ IdleSet' : held' = [held EXCEPT ![p] = c] /\ c \in active'
        /\ sock[e] # "closed"
        /\ e \in IdleSet => e \in IdleSet' \/ held' = [held EXCEPT ![p] = e]
    BY <1>1, AcquireLoopMoves DEF Owned
  <2>2. CASE e \in IdleSet
    <3>1. CASE e \in IdleSet'
      BY <3>1
    <3>2. CASE held' = [held EXCEPT ![p] = e]
      <4>1. held'[p] = e /\ held'[p] # held[p]
        BY <1>0, <1>1, <3>2
      <4>2. PICK c \in IdleSet : held' = [held EXCEPT ![p] = c] /\ c \in active'
        BY <2>1, <4>1
      <4> QED
        BY <1>0, <4>1, <4>2
    <3> QED
      BY <2>1, <2>2, <3>1, <3>2
  <2>3. CASE e = warmConn
    BY <1>1, <2>3
  <2>4. CASE e \in active /\ \E q \in Procs : held[q] = e
    <3>1. PICK q \in Procs : held[q] = e
      BY <2>4
    <3>2. held'[q] = e
      BY <1>0, <1>1, <2>1, <3>1
    <3> QED
      BY <2>1, <2>4, <3>2
  <2> QED
    BY <1>0, <2>1, <2>2, <2>3, <2>4
<1>2. ASSUME NEW p \in Procs, Acquire(p) PROVE Kept
  BY <1>1, <1>2 DEF Acquire, Positioned
<1>3. ASSUME NEW p \in Procs, DialFails(p) PROVE Kept
  BY <1>a, <1>3 DEF DialFails
<1>4. ASSUME NEW p \in Procs, DialSucceeds(p) PROVE Kept
  <2>1. PICK c \in Conns : /\ sock' = [sock EXCEPT ![c] = "open"]
                           /\ active' = active \cup {c}
                           /\ held' = [held EXCEPT ![p] = c]
    BY <1>4, Zenon DEF DialSucceeds, Opened
  <2>2. UNCHANGED <<idle, warmConn>> /\ held[p] = NoConn
    BY <1>4 DEF DialSucceeds, Positioned
  <2> QED
    BY <1>0, <2>1, <2>2 DEF IdleSet
<1>5. ASSUME NEW p \in Procs, ArmTimer(p) \/ Enlist(p) \/ TimerFires(p) PROVE Kept
  BY <1>a, <1>5 DEF ArmTimer, Enlist, TimerFires
<1>6. ASSUME NEW p \in Procs, WakeUp(p) PROVE Kept
  <2>1. held[p] = NoConn /\ UNCHANGED warmConn
    BY <1>6 DEF WakeUp, Positioned
  <2> QED
    BY <1>a, <1>1, <1>6, <2>1, Zenon DEF WakeUp
<1>7. ASSUME NEW p \in Procs, Return(p) PROVE Kept
  <2>1. /\ held[p] \in Conns /\ held[p] \notin IdleSet
        /\ active' = active \ {held[p]}
        /\ held' = [held EXCEPT ![p] = NoConn] /\ UNCHANGED warmConn
    BY <1>7 DEF Return, Positioned, TypeOK, Owned, ExclusiveOwnership
  <2>2. CASE CloseSockets({held[p]}) /\ UNCHANGED idle
    BY <1>0, <2>1, <2>2, Zenon DEF CloseSockets, IdleSet
  <2>3. CASE idle' = Append(idle, held[p]) /\ UNCHANGED sock
    <3>1. IdleSet' = IdleSet \cup {held[p]}
      BY <1>0, <2>1, <2>3, AppendIdle
    <3> QED
      BY <1>0, <2>1, <2>3, <3>1
  <2> QED
    BY <1>7, <2>2, <2>3 DEF Return
<1>8. ASSUME NEW p \in Procs, CloseConn(p) PROVE Kept
  <2>1. /\ sock[e] # "closed" /\ e # held[p]
        /\ UNCHANGED <<idle, active, warmConn>>
        /\ held' = [held EXCEPT ![p] = NoConn] \/ held' = held
    BY <1>8 DEF CloseConn, CloseSockets
  <2> QED
    BY <1>0, <2>1 DEF IdleSet
<1>9. CASE WarmReserve \/ WarmDialFails
  BY <1>a, <1>9 DEF WarmReserve, WarmDialFails
<1>10. CASE WarmDialSucceeds
  <2>1. /\ sock' = [sock EXCEPT ![warmConn'] = "open"] /\ warmConn = NoConn
        /\ UNCHANGED <<idle, active, held>>
    BY <1>10, Zenon DEF WarmDialSucceeds, Opened, Positioned
  <2> QED
    BY <1>0, <2>1 DEF IdleSet
<1>11. CASE WarmReauthFails
  <2>1. sock[e] # "closed" /\ e # warmConn /\ UNCHANGED <<idle, active, held>>
    BY <1>11 DEF WarmReauthFails, CloseSockets
  <2> QED
    BY <1>0, <2>1 DEF IdleSet
<1>12. CASE WarmInsert
  <2>1. warmConn \in Conns /\ warmConn \notin IdleSet /\ UNCHANGED <<active, held>>
    BY <1>12 DEF WarmInsert, Positioned, TypeOK, Owned, WarmOwns
  <2>2. CASE CloseSockets({warmConn}) /\ UNCHANGED idle
    BY <1>0, <2>1, <2>2 DEF CloseSockets, IdleSet
  <2>3. CASE idle' = Append(idle, warmConn) /\ UNCHANGED sock
    <3>1. IdleSet' = IdleSet \cup {warmConn}
      BY <1>0, <2>1, <2>3, AppendIdle
    <3> QED
      BY <1>0, <2>1, <2>3, <3>1
  <2> QED
    BY <1>12, <2>2, <2>3 DEF WarmInsert
<1>13. CASE ReapIdle
  <2>1. sock[e] # "closed" /\ (e \in IdleSet => e \in IdleSet')
    BY <1>0, <1>13, ReapIdleMoves
  <2>2. UNCHANGED <<active, held, warmConn>>
    BY <1>13 DEF ReapIdle
  <2> QED
    BY <1>0, <2>1, <2>2
<1>14. ASSUME NEW d \in Drainers, DrainIdle(d) PROVE Kept
  BY <1>0, <1>14 DEF DrainIdle, CloseSockets
<1>15. ASSUME NEW d \in Drainers, DrainForce(d) PROVE Kept
  BY <1>0, <1>15 DEF DrainForce, CloseSockets, IdleSet
<1>16. ASSUME NEW d \in Drainers, ClosePool(d) \/ DrainPoll(d) PROVE Kept
  BY <1>a, <1>16 DEF ClosePool, DrainPoll
<1>17. CASE Environment
  <2>1. UNCHANGED <<idle, active, held, warmConn>>
    BY <1>17 DEF Environment, DeadlinePasses, LifetimePasses, BackendHangsUp, StopProxy
  <2>2. sock[e] # "closed"
    BY <1>0, <1>17 DEF Environment, DeadlinePasses, LifetimePasses, BackendHangsUp, StopProxy
  <2> QED
    BY <1>a, <2>1, <2>2
<1>18. CASE UNCHANGED vars
  BY <1>a, <1>18, Zenon DEF vars
<1> QED
  BY <1>2, <1>3, <1>4, <1>5, <1>6, <1>7, <1>8, <1>9, <1>10, <1>11, <1>12, <1>13, <1>14,
     <1>15, <1>16, <1>17, <1>18, Zenon DEF Next, UserStep, WarmStep, DrainStep

\* No socket is ever lost: until it is closed it is idle, in warm-up's hands, or
\* in use and in tp.active.
THEOREM SocketsTracked == Spec => []OpenSocketsTracked
<1> DEFINE IInv == TypeOK /\ Positioned /\ Owned /\ OpenSocketsTracked
<1>1. Init => IInv
  <2>1. Init => Owned
    BY PoolAssumption DEF Init, Owned, ExclusiveOwnership, WarmOwns, IdleSet
  <2>2. Init => OpenSocketsTracked
    BY DEF Init, OpenSocketsTracked
  <2> QED
    BY <2>1, <2>2, InitTyped
<1>2. IInv /\ [Next]_vars => IInv'
  BY TypeStep, PositionedStep, OwnedStep, TrackedStep
<1>3. IInv => OpenSocketsTracked
  OBVIOUS
<1> QED
  BY <1>1, <1>2, <1>3, PTL DEF Spec

-----------------------------------------------------------------------------
(***************************************************************************)
(* The closed pool.  That idle stays empty needs that closed stays set: it *)
(* is the only thing Return and warm-up look at.                           *)
(***************************************************************************)

SweptIsClosed == swept => closed /\ idle = <<>>

\* Every step keeps a drained closed pool closed and empty.
LEMMA SweptStep == TypeOK /\ SweptIsClosed /\ [Next]_vars => SweptIsClosed'
<1> SUFFICES ASSUME TypeOK, SweptIsClosed, [Next]_vars PROVE SweptIsClosed'
  OBVIOUS
<1> USE PoolAssumption DEF poolVars, userVars, warmVars, drainVars, SweptIsClosed
<1>1. ASSUME NEW p \in Procs, NEW w, AcquireLoop(p, w), UNCHANGED <<closed, swept>>
      PROVE  SweptIsClosed'
  BY <1>1 DEF AcquireLoop, RefuseAcquire, TakeIdle, ReserveOrWait
<1>2. ASSUME NEW p \in Procs, Acquire(p) \/ WakeUp(p) PROVE SweptIsClosed'
  BY <1>1, <1>2, Zenon DEF Acquire, WakeUp
<1>3. ASSUME NEW p \in Procs, DialFails(p) \/ DialSucceeds(p) PROVE SweptIsClosed'
  BY <1>3, Zenon DEF DialFails, DialSucceeds
<1>4. ASSUME NEW p \in Procs, ArmTimer(p) \/ Enlist(p) \/ TimerFires(p) PROVE SweptIsClosed'
  BY <1>4, Zenon DEF ArmTimer, Enlist, TimerFires
<1>5. ASSUME NEW p \in Procs, Return(p) \/ CloseConn(p) PROVE SweptIsClosed'
  BY <1>5, Zenon DEF Return, CloseConn
<1>6. CASE WarmStep
  BY <1>6, Zenon DEF WarmStep, WarmReserve, WarmDialFails, WarmDialSucceeds, WarmReauthFails,
              WarmInsert
<1>7. CASE ReapIdle
  <2>1. ~swept
    <3>1. Len(idle) > MinConns
      BY <1>7 DEF ReapIdle
    <3> QED
      BY <3>1
  <2> QED
    BY <1>7, <2>1 DEF ReapIdle
<1>8. ASSUME NEW d \in Drainers, DrainStep(d) PROVE SweptIsClosed'
  BY <1>8, Zenon DEF DrainStep, ClosePool, DrainIdle, DrainPoll, DrainForce
<1>9. CASE Environment
  BY <1>9, Zenon DEF Environment, DeadlinePasses, LifetimePasses, BackendHangsUp, StopProxy
<1>10. CASE UNCHANGED vars
  BY <1>10 DEF vars
<1> QED
  BY <1>2, <1>3, <1>4, <1>5, <1>6, <1>7, <1>8, <1>9, <1>10 DEF Next, UserStep

\* A pool that was closed and then drained never holds an idle connection again.
THEOREM ClosedEmpty == Spec => []ClosedStaysEmpty
<1> DEFINE IInv == TypeOK /\ Positioned /\ SweptIsClosed
<1>1. Init => IInv
  BY InitTyped DEF Init, SweptIsClosed
<1>2. IInv /\ [Next]_vars => IInv'
  BY TypeStep, PositionedStep, SweptStep
<1>3. IInv => ClosedStaysEmpty
  BY DEF SweptIsClosed, ClosedStaysEmpty
<1> QED
  BY <1>1, <1>2, <1>3, PTL DEF Spec

-----------------------------------------------------------------------------
(***************************************************************************)
(* The number of waiters.  Each step that moves a user into or out of the  *)
(* waiting part of Acquire moves exactly one.                              *)
(***************************************************************************)

WaitingPart == {"exhausted", "armed", "waiting", "woken"}

WaitersOf(f) == {p \in Procs : f[p] \in WaitingPart}

\* Moving one user changes the number of waiters by the one expected.
LEMMA WaitersMove ==
  ASSUME NEW f \in [Procs -> Positions], NEW g \in [Procs -> Positions], NEW p \in Procs,
         \A q \in Procs \ {p} : f[q] \in WaitingPart <=> g[q] \in WaitingPart
  PROVE  /\ Cardinality(WaitersOf(f)) \in Nat /\ Cardinality(WaitersOf(g)) \in Nat
         /\ f[p] \notin WaitingPart /\ g[p] \in WaitingPart =>
              Cardinality(WaitersOf(g)) = Cardinality(WaitersOf(f)) + 1
         /\ f[p] \in WaitingPart /\ g[p] \notin WaitingPart =>
              Cardinality(WaitersOf(g)) = Cardinality(WaitersOf(f)) - 1
         /\ (f[p] \in WaitingPart <=> g[p] \in WaitingPart) =>
              Cardinality(WaitersOf(g)) = Cardinality(WaitersOf(f))
<1>1. IsFiniteSet(WaitersOf(f)) /\ IsFiniteSet(WaitersOf(g))
  BY FS_Subset, PoolAssumption DEF WaitersOf
<1>2. Cardinality(WaitersOf(f)) \in Nat /\ Cardinality(WaitersOf(g)) \in Nat
  BY <1>1, FS_CardinalityType
<1>3. ASSUME f[p] \notin WaitingPart, g[p] \in WaitingPart
      PROVE  Cardinality(WaitersOf(g)) = Cardinality(WaitersOf(f)) + 1
  <2>1. WaitersOf(g) = WaitersOf(f) \cup {p} /\ p \notin WaitersOf(f)
    BY <1>3 DEF WaitersOf
  <2> QED
    BY <1>1, <2>1, FS_AddElement
<1>4. ASSUME f[p] \in WaitingPart, g[p] \notin WaitingPart
      PROVE  Cardinality(WaitersOf(g)) = Cardinality(WaitersOf(f)) - 1
  <2>1. WaitersOf(g) = WaitersOf(f) \ {p} /\ p \in WaitersOf(f)
    BY <1>4 DEF WaitersOf
  <2> QED
    BY <1>1, <2>1, FS_RemoveElement
<1>5. ASSUME f[p] \in WaitingPart <=> g[p] \in WaitingPart
      PROVE  Cardinality(WaitersOf(g)) = Cardinality(WaitersOf(f))
  <2>1. WaitersOf(g) = WaitersOf(f)
    BY <1>5 DEF WaitersOf
  <2> QED
    BY <2>1
<1> QED
  BY <1>2, <1>3, <1>4, <1>5

\* Every step keeps tp.waiting equal to the number of waiters.
LEMMA WaitingStep ==
  TypeOK /\ TypeOK' /\ Positioned /\ WaitingCounts /\ [Next]_vars => WaitingCounts'
<1> SUFFICES ASSUME TypeOK, TypeOK', Positioned, WaitingCounts, [Next]_vars
             PROVE  WaitingCounts'
  OBVIOUS
<1> USE PoolAssumption DEF poolVars, userVars, warmVars, drainVars
<1>0. /\ pc \in [Procs -> Positions] /\ pc' \in [Procs -> Positions] /\ waiting \in Int
      /\ waiting = Cardinality(WaitersOf(pc))
      /\ WaitingCounts' <=> waiting' = Cardinality(WaitersOf(pc'))
  BY DEF TypeOK, WaitingCounts, Waiters, WaitersOf, WaitingPart
<1>a. ASSUME waiting' = waiting,
             \A q \in Procs : pc[q] \in WaitingPart <=> pc'[q] \in WaitingPart
      PROVE  WaitingCounts'
  <2>1. WaitersOf(pc') = WaitersOf(pc)
    BY <1>a DEF WaitersOf
  <2> QED
    BY <1>0, <1>a, <2>1
<1>b. ASSUME NEW p \in Procs, NEW x \in Positions, pc' = [pc EXCEPT ![p] = x],
             \/ waiting' = waiting /\ (pc[p] \in WaitingPart <=> x \in WaitingPart)
             \/ waiting' = waiting + 1 /\ pc[p] \notin WaitingPart /\ x \in WaitingPart
             \/ waiting' = waiting - 1 /\ pc[p] \in WaitingPart /\ x \notin WaitingPart
      PROVE  WaitingCounts'
  <2>1. pc'[p] = x /\ \A q \in Procs \ {p} : pc'[q] = pc[q]
    BY <1>0, <1>b
  <2>2. \A q \in Procs \ {p} : pc[q] \in WaitingPart <=> pc'[q] \in WaitingPart
    BY <2>1
  <2>3. /\ Cardinality(WaitersOf(pc)) \in Nat
        /\ pc[p] \notin WaitingPart /\ x \in WaitingPart =>
             Cardinality(WaitersOf(pc')) = Cardinality(WaitersOf(pc)) + 1
        /\ pc[p] \in WaitingPart /\ x \notin WaitingPart =>
             Cardinality(WaitersOf(pc')) = Cardinality(WaitersOf(pc)) - 1
        /\ (pc[p] \in WaitingPart <=> x \in WaitingPart) =>
             Cardinality(WaitersOf(pc')) = Cardinality(WaitersOf(pc))
    BY <1>0, <2>1, <2>2, WaitersMove
  <2> QED
    BY <1>0, <1>b, <2>3
<1>1. ASSUME NEW p \in Procs, AcquireLoop(p, waiting), pc[p] = "out" PROVE WaitingCounts'
  <2>1. PICK x \in Positions : /\ pc' = [pc EXCEPT ![p] = x]
                               /\ \/ waiting' = waiting /\ x \notin WaitingPart
                                  \/ waiting' = waiting + 1 /\ x \in WaitingPart
    BY <1>1 DEF AcquireLoop, RefuseAcquire, TakeIdle, ReserveOrWait, Positions, WaitingPart
  <2>2. pc[p] \notin WaitingPart
    BY <1>1 DEF WaitingPart
  <2> QED
    BY <1>b, <2>1, <2>2, Zenon
<1>2. ASSUME NEW p \in Procs, AcquireLoop(p, waiting - 1), pc[p] = "woken"
      PROVE  WaitingCounts'
  <2>1. PICK x \in Positions : /\ pc' = [pc EXCEPT ![p] = x]
                               /\ \/ waiting' = waiting - 1 /\ x \notin WaitingPart
                                  \/ waiting' = waiting - 1 + 1 /\ x \in WaitingPart
    BY <1>2 DEF AcquireLoop, RefuseAcquire, TakeIdle, ReserveOrWait, Positions, WaitingPart
  <2>2. pc[p] \in WaitingPart /\ waiting - 1 + 1 = waiting
    BY <1>0, <1>2 DEF WaitingPart
  <2> QED
    BY <1>b, <2>1, <2>2, Zenon
<1>3. ASSUME NEW p \in Procs, Acquire(p) PROVE WaitingCounts'
  BY <1>1, <1>3 DEF Acquire
<1>4. ASSUME NEW p \in Procs, DialFails(p) \/ DialSucceeds(p) \/ CloseConn(p)
      PROVE  WaitingCounts'
  <2>1. PICK x \in Positions \ WaitingPart : pc' = [pc EXCEPT ![p] = x]
    BY <1>4 DEF DialFails, DialSucceeds, CloseConn, Positions, WaitingPart
  <2>2. pc[p] \notin WaitingPart /\ waiting' = waiting
    BY <1>4 DEF DialFails, DialSucceeds, CloseConn, WaitingPart
  <2> QED
    BY <1>b, <2>1, <2>2, Zenon
<1>5. ASSUME NEW p \in Procs, ArmTimer(p) PROVE WaitingCounts'
  <2>1. pc[p] \in WaitingPart
    BY <1>5 DEF ArmTimer, WaitingPart
  <2>2. CASE p \in expired
    BY <1>b, <1>5, <2>1, <2>2 DEF ArmTimer, Positions, WaitingPart
  <2>3. CASE p \notin expired
    BY <1>b, <1>5, <2>1, <2>3 DEF ArmTimer, Positions, WaitingPart
  <2> QED
    BY <2>2, <2>3
<1>6. ASSUME NEW p \in Procs, Enlist(p) PROVE WaitingCounts'
  <2>1. pc[p] \in WaitingPart
    BY <1>6 DEF Enlist, Positioned, WaitingPart
  <2> QED
    BY <1>b, <1>6, <2>1, Zenon DEF Enlist, Positions, WaitingPart
<1>7. ASSUME pc' = Broadcast(pc), waiting' = waiting PROVE WaitingCounts'
  BY <1>0, <1>a, <1>7, BroadcastWakes DEF WaitingPart
<1>8. ASSUME NEW p \in Procs, TimerFires(p) PROVE WaitingCounts'
  BY <1>7, <1>8 DEF TimerFires
<1>9. ASSUME NEW p \in Procs, WakeUp(p) PROVE WaitingCounts'
  <2>1. pc[p] \in WaitingPart /\ pc[p] = "woken"
    BY <1>9 DEF WakeUp, WaitingPart
  <2>2. CASE closed \/ p \in expired
    BY <1>b, <1>9, <2>1, <2>2 DEF WakeUp, Positions, WaitingPart
  <2>3. CASE ~closed /\ p \notin expired
    BY <1>2, <1>9, <2>1, <2>3 DEF WakeUp
  <2> QED
    BY <2>2, <2>3
<1>10. ASSUME NEW p \in Procs, Return(p) PROVE WaitingCounts'
  <2> DEFINE f == [pc EXCEPT ![p] = "out"]
  <2>1. f \in [Procs -> Positions] /\ pc' \in Signal(f)
    BY <1>0, <1>10 DEF Return, Positions
  <2>2. \A q \in Procs : pc'[q] = f[q] \/ (f[q] = "waiting" /\ pc'[q] = "woken")
    BY <2>1, SignalWakes, Zenon
  <2>3. \A q \in Procs : f[q] \in WaitingPart <=> pc'[q] \in WaitingPart
    BY <2>2 DEF WaitingPart
  <2>4. \A q \in Procs : f[q] \in WaitingPart <=> pc[q] \in WaitingPart
    BY <1>0, <1>10 DEF Return, WaitingPart
  <2> QED
    BY <1>a, <1>10, <2>3, <2>4, Zenon DEF Return
<1>11. CASE WarmStep \/ ReapIdle
  BY <1>a, <1>11 DEF WarmStep, WarmReserve, WarmDialFails, WarmDialSucceeds, WarmReauthFails,
                     WarmInsert, ReapIdle
<1>12. ASSUME NEW d \in Drainers, DrainStep(d) PROVE WaitingCounts'
  <2>1. CASE ClosePool(d)
    <3>1. waiting' = waiting /\ (pc' = pc \/ pc' = Broadcast(pc))
      BY <2>1 DEF ClosePool
    <3> QED
      BY <1>a, <1>7, <3>1
  <2>2. CASE DrainIdle(d) \/ DrainPoll(d) \/ DrainForce(d)
    BY <1>a, <2>2 DEF DrainIdle, DrainPoll, DrainForce
  <2> QED
    BY <1>12, <2>1, <2>2 DEF DrainStep
<1>13. CASE Environment
  BY <1>a, <1>13, Zenon DEF Environment, DeadlinePasses, LifetimePasses, BackendHangsUp, StopProxy
<1>14. CASE UNCHANGED vars
  BY <1>a, <1>14 DEF vars
<1> QED
  BY <1>3, <1>4, <1>5, <1>6, <1>8, <1>9, <1>10, <1>11, <1>12, <1>13, <1>14
     DEF Next, UserStep

\* tp.waiting, which Stats exports, is always the number of Acquire calls that
\* found the pool exhausted and have not come back.
THEOREM WaitingExact == Spec => []WaitingCounts
<1> DEFINE IInv == TypeOK /\ Positioned /\ WaitingCounts
<1>1. Init => IInv
  <2>1. ASSUME Init PROVE WaitingCounts
    <3>1. Waiters = {} /\ waiting = 0
      BY <2>1 DEF Init, Waiters
    <3> QED
      BY <3>1, FS_EmptySet DEF WaitingCounts
  <2> QED
    BY <2>1, InitTyped
<1>2. IInv /\ [Next]_vars => IInv'
  BY TypeStep, PositionedStep, WaitingStep
<1>3. IInv => WaitingCounts
  OBVIOUS
<1> QED
  BY <1>1, <1>2, <1>3, PTL DEF Spec
=============================================================================
