----------------------------- MODULE TenantPool -----------------------------
(***************************************************************************)
(* One tenant's pool of backend connections (internal/pool/pool.go,        *)
(* conn.go): Acquire with its condition variable and its per-call timer,   *)
(* Return, the warm-up goroutine, the idle reaper, Drain with its forced   *)
(* close, and Close.  The users are the proxy's client goroutines          *)
(* (Clients), which end a use with Return or with PooledConn.Close, and    *)
(* the health checker's goroutines (Checkers), whose deferred Return also  *)
(* follows a Close.                                                        *)
(*                                                                         *)
(* Every section of code under tp.mu is one step, with one exception:      *)
(* between AfterFunc and the enlisting in cond.Wait the lock stays held    *)
(* (mu = p), because the timer's Broadcast does not take the lock and can  *)
(* fall into that window.                                                  *)
(***************************************************************************)
EXTENDS Integers, Sequences, FiniteSets

CONSTANTS
  Clients,    \* goroutines of proxied sessions
  Checkers,   \* goroutines of pingPostgresViaPool
  Drainers,   \* callers of Drain or Close
  Conns,      \* identities of PooledConn objects, reused once unreferenced
  MaxConns, MinConns,
  Mode,       \* tp.poolMode
  DBType,     \* tp.dbType
  NoConn, Nobody

Procs == Clients \cup Checkers

ASSUME PoolAssumption ==
  /\ MaxConns \in Nat
  /\ MinConns \in Nat
  /\ Mode \in {"session", "transaction"}
  /\ DBType \in {"postgres", "mysql"}
  /\ IsFiniteSet(Conns)
  /\ IsFiniteSet(Procs)
  /\ Clients \cap Checkers = {}
  /\ Checkers # {} => Mode = "transaction" /\ DBType = "postgres"
  /\ NoConn \notin Conns
  /\ Nobody \notin Procs

VARIABLES
  total, idle, active, waiting, closed,  \* the TenantPool's fields
  mu,         \* holder of tp.mu across the AfterFunc/Wait window
  sock,       \* each connection's socket
  aged,       \* connections past maxLifetime
  pc, held,   \* each user's position and the connection it holds
  expired,    \* users whose acquire deadline has passed
  timer,      \* users with an AfterFunc timer pending
  shutdown,   \* the proxy's context is cancelled
  warm, warmConn, warmed,                \* the warm-up goroutine
  drain,      \* each drainer's position
  swept,      \* history: Drain has emptied idle since the pool closed
  skew        \* history: what total misses against the connections it counts

poolVars == <<total, idle, active, waiting, closed>>
userVars == <<mu, pc, held, expired, timer, shutdown>>
warmVars == <<warm, warmConn, warmed>>
drainVars == <<drain, swept>>
vars == <<poolVars, userVars, warmVars, drainVars, sock, aged, skew>>

-----------------------------------------------------------------------------
(* Connections *)

IdleSet == {idle[i] : i \in DOMAIN idle}

Authenticated == Mode = "transaction"

\* What Acquire asks of a popped connection: not past its lifetime and, unless
\* the pool authenticated it, answering Ping.
Usable(c) == c \notin aged /\ (Authenticated \/ sock[c] = "open")

Unreferenced(c) ==
  /\ sock[c] = "closed"
  /\ c \notin active \cup IdleSet
  /\ c # warmConn
  /\ \A p \in Procs : held[p] # c

\* PooledConn.Close on every connection of S: neither total nor active changes.
CloseSockets(S) == sock' = [c \in Conns |-> IF c \in S THEN "closed" ELSE sock[c]]

\* A new PooledConn c around a freshly dialled socket.
Opened(c) ==
  /\ Unreferenced(c)
  /\ sock' = [sock EXCEPT ![c] = "open"]
  /\ aged' = aged \ {c}

(* The condition variable: a user is on its notify list iff it is "waiting" *)

Signal(pcs) ==
  LET W == {q \in Procs : pcs[q] = "waiting"}
  IN  IF W = {} THEN {pcs} ELSE {[pcs EXCEPT ![q] = "woken"] : q \in W}

Broadcast(pcs) == [q \in Procs |-> IF pcs[q] = "waiting" THEN "woken" ELSE pcs[q]]

Unlocked == mu = Nobody

-----------------------------------------------------------------------------
(* Acquire *)

CtxDone(p) == shutdown /\ p \in Clients

\* Variant: a refused caller stays counted as waiting.
RefuseAcquireKeepsCount(p, w) ==
  /\ CtxDone(p) \/ closed
  /\ pc' = [pc EXCEPT ![p] = "out"]
  /\ UNCHANGED <<total, idle, active, waiting, held, sock>>

\* One pass of Acquire's loop from its top, tp.mu held, tp.waiting = w.
RefuseAcquire(p, w) ==
  /\ CtxDone(p) \/ closed
  /\ pc' = [pc EXCEPT ![p] = "out"]
  /\ waiting' = w
  /\ UNCHANGED <<total, idle, active, held, sock>>

\* Variant: the connection is looked at but not popped.
TakeIdlePeeks(p, w) ==
  /\ ~CtxDone(p) /\ ~closed
  /\ \E i \in DOMAIN idle :
       /\ Usable(idle[i])
       /\ \A j \in i+1 .. Len(idle) : ~Usable(idle[j])
       /\ held' = [held EXCEPT ![p] = idle[i]]
       /\ active' = active \cup {idle[i]}
       /\ CloseSockets({idle[j] : j \in i+1 .. Len(idle)})
       /\ idle' = SubSeq(idle, 1, i)
       /\ total' = total - (Len(idle) - i)
  /\ pc' = [pc EXCEPT ![p] = "using"]
  /\ waiting' = w

\* The newest usable idle connection; the unusable ones above it are closed.
TakeIdle(p, w) ==
  /\ ~CtxDone(p) /\ ~closed
  /\ \E i \in DOMAIN idle :
       /\ Usable(idle[i])
       /\ \A j \in i+1 .. Len(idle) : ~Usable(idle[j])
       /\ held' = [held EXCEPT ![p] = idle[i]]
       /\ active' = active \cup {idle[i]}
       /\ CloseSockets({idle[j] : j \in i+1 .. Len(idle)})
       /\ idle' = SubSeq(idle, 1, i - 1)
       /\ total' = total - (Len(idle) - i)
  /\ pc' = [pc EXCEPT ![p] = "using"]
  /\ waiting' = w

\* Variant: the limit is off by one.
ReserveOrWaitOffByOne(p, w) ==
  /\ ~CtxDone(p) /\ ~closed
  /\ \A i \in DOMAIN idle : ~Usable(idle[i])
  /\ CloseSockets(IdleSet)
  /\ idle' = <<>>
  /\ LET left == total - Len(idle) IN
       \/ /\ left <= MaxConns
          /\ total' = left + 1
          /\ pc' = [pc EXCEPT ![p] = "dialing"]
          /\ waiting' = w
       \/ /\ left > MaxConns
          /\ total' = left
          /\ pc' = [pc EXCEPT ![p] = "exhausted"]
          /\ waiting' = w + 1
  /\ UNCHANGED <<active, held>>

\* No usable idle connection: all are closed; reserve a slot and dial, or wait.
ReserveOrWait(p, w) ==
  /\ ~CtxDone(p) /\ ~closed
  /\ \A i \in DOMAIN idle : ~Usable(idle[i])
  /\ CloseSockets(IdleSet)
  /\ idle' = <<>>
  /\ LET left == total - Len(idle) IN
       \/ /\ left < MaxConns
          /\ total' = left + 1
          /\ pc' = [pc EXCEPT ![p] = "dialing"]
          /\ waiting' = w
       \/ /\ left >= MaxConns
          /\ total' = left
          /\ pc' = [pc EXCEPT ![p] = "exhausted"]
          /\ waiting' = w + 1
  /\ UNCHANGED <<active, held>>

AcquireLoop(p, w) == RefuseAcquire(p, w) \/ TakeIdle(p, w) \/ ReserveOrWait(p, w)

Acquire(p) ==
  /\ Unlocked
  /\ pc[p] = "out"
  /\ expired' = expired \ {p}
  /\ AcquireLoop(p, waiting)
  /\ UNCHANGED <<closed, mu, timer, shutdown, warmVars, drainVars, aged, skew>>

\* Variant: a failed dial keeps its slot.
DialFailsKeepsSlot(p) ==
  /\ Unlocked
  /\ pc[p] = "dialing"
  /\ pc' = [pc EXCEPT ![p] = "out"]
  /\ UNCHANGED <<poolVars, mu, held, expired, timer, shutdown, warmVars, drainVars,
                 sock, aged, skew>>

DialFails(p) ==
  /\ Unlocked
  /\ pc[p] = "dialing"
  /\ total' = total - 1
  /\ pc' = [pc EXCEPT ![p] = "out"]
  /\ UNCHANGED <<idle, active, waiting, closed, mu, held, expired, timer, shutdown,
                 warmVars, drainVars, sock, aged, skew>>

\* The dialled connection is handed out whatever happened to the pool meanwhile.
DialSucceeds(p) ==
  /\ Unlocked
  /\ pc[p] = "dialing"
  /\ \E c \in Conns :
       /\ Opened(c)
       /\ active' = active \cup {c}
       /\ held' = [held EXCEPT ![p] = c]
  /\ pc' = [pc EXCEPT ![p] = "using"]
  /\ UNCHANGED <<total, idle, waiting, closed, mu, expired, timer, shutdown,
                 warmVars, drainVars, skew>>

\* Back from the onPoolExhausted callback: time out at once, or arm the timer and
\* keep the lock.  Neither closed nor idle is looked at again.
ArmTimer(p) ==
  /\ Unlocked
  /\ pc[p] = "exhausted"
  /\ \/ /\ p \in expired
        /\ waiting' = waiting - 1
        /\ pc' = [pc EXCEPT ![p] = "out"]
        /\ UNCHANGED <<mu, timer>>
     \/ /\ p \notin expired
        /\ mu' = p
        /\ timer' = timer \cup {p}
        /\ pc' = [pc EXCEPT ![p] = "armed"]
        /\ UNCHANGED waiting
  /\ UNCHANGED <<total, idle, active, closed, held, expired, shutdown,
                 warmVars, drainVars, sock, aged, skew>>

\* cond.Wait joins the notify list and releases tp.mu.
Enlist(p) ==
  /\ mu = p
  /\ mu' = Nobody
  /\ pc' = [pc EXCEPT ![p] = "waiting"]
  /\ UNCHANGED <<poolVars, held, expired, timer, shutdown, warmVars, drainVars,
                 sock, aged, skew>>

\* Variant: the timer wakes one waiter, not necessarily its own.
TimerSignals(p) ==
  /\ p \in timer /\ p \in expired
  /\ timer' = timer \ {p}
  /\ pc' \in Signal(pc)
  /\ UNCHANGED <<poolVars, mu, held, expired, shutdown, warmVars, drainVars,
                 sock, aged, skew>>

\* The AfterFunc body: Broadcast without tp.mu.
TimerFires(p) ==
  /\ p \in timer /\ p \in expired
  /\ timer' = timer \ {p}
  /\ pc' = Broadcast(pc)
  /\ UNCHANGED <<poolVars, mu, held, expired, shutdown, warmVars, drainVars,
                 sock, aged, skew>>

\* cond.Wait returns with tp.mu: stop the timer, then give up or loop.
WakeUp(p) ==
  /\ Unlocked
  /\ pc[p] = "woken"
  /\ timer' = timer \ {p}
  /\ \/ /\ closed \/ p \in expired
        /\ waiting' = waiting - 1
        /\ pc' = [pc EXCEPT ![p] = "out"]
        /\ UNCHANGED <<total, idle, active, held, sock>>
     \/ /\ ~closed /\ p \notin expired
        /\ AcquireLoop(p, waiting - 1)
  /\ UNCHANGED <<closed, mu, expired, shutdown, warmVars, drainVars, aged, skew>>

-----------------------------------------------------------------------------
(* The end of a use *)

\* TenantPool.Return of the connection p holds.
Return(p) ==
  /\ Unlocked
  /\ pc[p] \in {"using", "closing"}
  /\ LET c == held[p] IN
       /\ active' = active \ {c}
       /\ \/ /\ closed \/ c \in aged
             /\ CloseSockets({c})
             /\ total' = total - 1
             /\ UNCHANGED idle
          \/ /\ ~closed /\ c \notin aged
             /\ idle' = Append(idle, c)
             /\ UNCHANGED <<sock, total>>
       /\ skew' = IF c \in active THEN skew ELSE skew - 1
  /\ held' = [held EXCEPT ![p] = NoConn]
  /\ pc' \in Signal([pc EXCEPT ![p] = "out"])
  /\ UNCHANGED <<waiting, closed, mu, expired, timer, shutdown, warmVars, drainVars, aged>>

\* PooledConn.Close by the user: a client is then done with the connection (the end
\* of a session-mode relay, a failed write, read or reset in a transaction-mode
\* one), a health check still runs its deferred Return.
CloseConn(p) ==
  /\ pc[p] = "using"
  /\ CloseSockets({held[p]})
  /\ \/ /\ p \in Clients
        /\ pc' = [pc EXCEPT ![p] = "out"]
        /\ held' = [held EXCEPT ![p] = NoConn]
     \/ /\ p \in Checkers
        /\ pc' = [pc EXCEPT ![p] = "closing"]
        /\ UNCHANGED held
  /\ UNCHANGED <<poolVars, mu, expired, timer, shutdown, warmVars, drainVars, aged, skew>>

-----------------------------------------------------------------------------
(* warmUp *)

WarmReserve ==
  /\ Unlocked
  /\ warm = "check"
  /\ \/ /\ closed \/ warmed >= MinConns \/ total >= MinConns
        /\ warm' = "finished"
        /\ UNCHANGED total
     \/ /\ ~closed /\ warmed < MinConns /\ total < MinConns
        /\ warm' = "dialing"
        /\ total' = total + 1
  /\ UNCHANGED <<idle, active, waiting, closed, userVars, warmConn, warmed, drainVars,
                 sock, aged, skew>>

\* Variant: the dial's error is not looked at and its nil connection is inserted.
WarmDialUnchecked ==
  /\ Unlocked
  /\ warm = "dialing"
  /\ idle' = Append(idle, warmConn)
  /\ warm' = "check"
  /\ UNCHANGED <<total, active, waiting, closed, userVars, warmConn, warmed, drainVars,
                 sock, aged, skew>>

WarmDialFails ==
  /\ Unlocked
  /\ warm = "dialing"
  /\ total' = total - 1
  /\ warm' = "finished"
  /\ UNCHANGED <<idle, active, waiting, closed, userVars, warmConn, warmed, drainVars,
                 sock, aged, skew>>

WarmDialSucceeds ==
  /\ warm = "dialing"
  /\ \E c \in Conns : Opened(c) /\ warmConn' = c
  /\ warm' = "dialed"
  /\ UNCHANGED <<poolVars, userVars, warmed, drainVars, skew>>

\* dial has already authenticated the connection; warmUp authenticates it again.
AuthenticatesTwice == Mode = "transaction" /\ DBType = "postgres"

\* A PostgreSQL backend past its startup phase answers a startup packet with an
\* error, so the second authenticatePG fails.
WarmReauthFails ==
  /\ Unlocked
  /\ warm = "dialed" /\ AuthenticatesTwice
  /\ CloseSockets({warmConn})
  /\ total' = total - 1
  /\ warm' = "finished"
  /\ warmConn' = NoConn
  /\ UNCHANGED <<idle, active, waiting, closed, userVars, warmed, drainVars, aged, skew>>

\* Variant: closed is not looked at again after the dial.
WarmInsertUnchecked ==
  /\ Unlocked
  /\ warm = "dialed" /\ ~AuthenticatesTwice
  /\ idle' = Append(idle, warmConn)
  /\ warm' = "check"
  /\ warmed' = warmed + 1
  /\ warmConn' = NoConn
  /\ UNCHANGED <<total, active, waiting, closed, userVars, drainVars, sock, aged, skew>>

\* On a closed pool the connection is closed and its slot in total stays taken.
WarmInsert ==
  /\ Unlocked
  /\ warm = "dialed" /\ ~AuthenticatesTwice
  /\ \/ /\ closed
        /\ CloseSockets({warmConn})
        /\ warm' = "finished"
        /\ skew' = skew + 1
        /\ UNCHANGED <<idle, warmed>>
     \/ /\ ~closed
        /\ idle' = Append(idle, warmConn)
        /\ warm' = "check"
        /\ warmed' = warmed + 1
        /\ UNCHANGED <<sock, skew>>
  /\ warmConn' = NoConn
  /\ UNCHANGED <<total, active, waiting, closed, userVars, drainVars, aged>>

-----------------------------------------------------------------------------
(* reapIdle, Drain and Close *)

\* Variant: one connection too many may be reaped.
ReapableOffByOne(k) ==
  {i \in 1 .. Len(idle) - MinConns + 1 : i \in DOMAIN idle /\ (i <= k \/ idle[i] \in aged)}

\* idle is in order of lastUsed, so those past idleTimeout are a prefix (its
\* length k); those past maxLifetime may be anywhere.
Reapable(k) ==
  {i \in 1 .. Len(idle) - MinConns : i <= k \/ idle[i] \in aged}

ReapIdle ==
  /\ Unlocked
  /\ Len(idle) > MinConns
  /\ \E k \in 0 .. Len(idle) :
       LET R == Reapable(k)
           K == DOMAIN idle \ R
       IN  /\ CloseSockets({idle[i] : i \in R})
           /\ total' = total - Cardinality(R)
           /\ \E f \in [1 .. Cardinality(K) -> K] :
                /\ \A i, j \in 1 .. Cardinality(K) : i < j => f[i] < f[j]
                /\ idle' = [i \in 1 .. Cardinality(K) |-> idle[f[i]]]
  /\ UNCHANGED <<active, waiting, closed, userVars, warmVars, drainVars, aged, skew>>

ClosePool(d) ==
  /\ Unlocked
  /\ drain[d] = "ready"
  /\ \/ /\ closed
        /\ drain' = [drain EXCEPT ![d] = "done"]
        /\ UNCHANGED <<closed, pc>>
     \/ /\ ~closed
        /\ closed' = TRUE
        /\ pc' = Broadcast(pc)
        /\ drain' = [drain EXCEPT ![d] = "closing"]
  /\ UNCHANGED <<total, idle, active, waiting, mu, held, expired, timer, shutdown,
                 warmVars, swept, sock, aged, skew>>

\* Drain: close the idle connections, then poll unless nothing is active.
DrainIdle(d) ==
  /\ Unlocked
  /\ drain[d] \in {"ready", "closing"}
  /\ CloseSockets(IdleSet)
  /\ total' = total - Len(idle)
  /\ idle' = <<>>
  /\ drain' = [drain EXCEPT ![d] = IF active = {} THEN "done" ELSE "polling"]
  /\ swept' = (swept \/ closed)
  /\ UNCHANGED <<active, waiting, closed, userVars, warmVars, aged, skew>>

DrainPoll(d) ==
  /\ Unlocked
  /\ drain[d] = "polling" /\ active = {}
  /\ drain' = [drain EXCEPT ![d] = "done"]
  /\ UNCHANGED <<poolVars, userVars, warmVars, swept, sock, aged, skew>>

\* Variant: what is active is forgotten but not closed.
DrainForceForgets(d) ==
  /\ Unlocked
  /\ drain[d] = "polling"
  /\ total' = total - Cardinality(active)
  /\ active' = {}
  /\ drain' = [drain EXCEPT ![d] = "done"]
  /\ UNCHANGED <<idle, waiting, closed, userVars, warmVars, swept, sock, aged, skew>>

\* Drain's 30 seconds are over: whatever is active is closed and forgotten.
DrainForce(d) ==
  /\ Unlocked
  /\ drain[d] = "polling"
  /\ CloseSockets(active)
  /\ total' = total - Cardinality(active)
  /\ active' = {}
  /\ drain' = [drain EXCEPT ![d] = "done"]
  /\ UNCHANGED <<idle, waiting, closed, userVars, warmVars, swept, aged, skew>>

-----------------------------------------------------------------------------
(* The environment: time, backends, and the proxy's shutdown *)

DeadlinePasses(p) ==
  /\ pc[p] \in {"exhausted", "armed", "waiting", "woken"}
  /\ p \notin expired
  /\ expired' = expired \cup {p}
  /\ UNCHANGED <<poolVars, mu, pc, held, timer, shutdown, warmVars, drainVars,
                 sock, aged, skew>>

LifetimePasses(c) ==
  /\ sock[c] # "closed" /\ c \notin aged
  /\ aged' = aged \cup {c}
  /\ UNCHANGED <<poolVars, userVars, warmVars, drainVars, sock, skew>>

BackendHangsUp(c) ==
  /\ sock[c] = "open"
  /\ sock' = [sock EXCEPT ![c] = "broken"]
  /\ UNCHANGED <<poolVars, userVars, warmVars, drainVars, aged, skew>>

StopProxy ==
  /\ ~shutdown
  /\ shutdown' = TRUE
  /\ UNCHANGED <<poolVars, mu, pc, held, expired, timer, warmVars, drainVars,
                 sock, aged, skew>>

-----------------------------------------------------------------------------
Init ==
  /\ total = 0 /\ idle = <<>> /\ active = {} /\ waiting = 0 /\ closed = FALSE
  /\ mu = Nobody
  /\ sock = [c \in Conns |-> "closed"]
  /\ aged = {}
  /\ pc = [p \in Procs |-> "out"]
  /\ held = [p \in Procs |-> NoConn]
  /\ expired = {} /\ timer = {} /\ shutdown = FALSE
  /\ warm = (IF MinConns > 0 THEN "check" ELSE "finished")
  /\ warmConn = NoConn /\ warmed = 0
  /\ drain = [d \in Drainers |-> "ready"]
  /\ swept = FALSE /\ skew = 0

UserStep(p) ==
  \/ Acquire(p) \/ DialFails(p) \/ DialSucceeds(p)
  \/ ArmTimer(p) \/ Enlist(p) \/ TimerFires(p) \/ WakeUp(p)
  \/ Return(p) \/ CloseConn(p)

WarmStep == WarmReserve \/ WarmDialFails \/ WarmDialSucceeds \/ WarmReauthFails \/ WarmInsert

DrainStep(d) == ClosePool(d) \/ DrainIdle(d) \/ DrainPoll(d) \/ DrainForce(d)

Environment ==
  \/ \E p \in Procs : DeadlinePasses(p)
  \/ \E c \in Conns : LifetimePasses(c) \/ BackendHangsUp(c)
  \/ StopProxy

Next ==
  \/ \E p \in Procs : UserStep(p)
  \/ WarmStep
  \/ ReapIdle
  \/ \E d \in Drainers : DrainStep(d)
  \/ Environment

Spec == Init /\ [][Next]_vars

(***************************************************************************)
(* Fairness.  Goroutines and timers run and time passes.  A dial that only *)
(* connects ends, since it has a timeout; in transaction mode the          *)
(* authentication is part of it, which reads without a deadline and does   *)
(* not look at the context, so nothing makes that end.  Go's mutex lets a  *)
(* starving goroutine in, hence strong fairness for the steps that must    *)
(* find tp.mu free.  Nothing makes a client call Acquire or end its use of *)
(* a connection.                                                           *)
(***************************************************************************)
Fairness ==
  \A p \in Procs :
    /\ SF_vars(~Authenticated /\ (DialFails(p) \/ DialSucceeds(p)))
    /\ SF_vars(ArmTimer(p))
    /\ SF_vars(WakeUp(p))
    /\ WF_vars(Enlist(p))
    /\ WF_vars(TimerFires(p))
    /\ WF_vars(DeadlinePasses(p))

FairSpec == Spec /\ Fairness

-----------------------------------------------------------------------------
(* Properties *)

Positions ==
  {"out", "dialing", "exhausted", "armed", "waiting", "woken", "using", "closing"}

\* Types of the pool's fields and of the positions of its users.
TypeOK ==
  /\ total \in Int /\ waiting \in Int /\ closed \in BOOLEAN
  /\ idle \in Seq(Conns) /\ active \in SUBSET Conns
  /\ mu \in Procs \cup {Nobody}
  /\ sock \in [Conns -> {"closed", "open", "broken"}]
  /\ aged \in SUBSET Conns
  /\ pc \in [Procs -> Positions]
  /\ held \in [Procs -> Conns \cup {NoConn}]
  /\ expired \in SUBSET Procs /\ timer \in SUBSET Procs /\ shutdown \in BOOLEAN
  /\ warm \in {"check", "dialing", "dialed", "finished"}
  /\ warmConn \in Conns \cup {NoConn} /\ warmed \in Nat
  /\ drain \in [Drainers -> {"ready", "closing", "polling", "done"}]
  /\ swept \in BOOLEAN /\ skew \in Int

\* A connection is used by one goroutine at a time and never while it is idle,
\* and it is in the idle list once: Acquire's pop, Return's append and warm-up's
\* append keep it so whatever Drain, Close and the health checker do meanwhile.
ExclusiveOwnership ==
  /\ \A p, q \in Procs : held[p] = held[q] /\ held[p] # NoConn => p = q
  /\ \A p \in Procs : held[p] \notin IdleSet
  /\ \A i, j \in DOMAIN idle : idle[i] = idle[j] => i = j

\* No socket is lost: one that is not closed is idle, in warm-up's hands, or in
\* use and in tp.active, where a drain that times out finds it.
OpenSocketsTracked ==
  \A c \in Conns : sock[c] # "closed" =>
    \/ c \in IdleSet
    \/ c = warmConn
    \/ c \in active /\ \E p \in Procs : held[p] = c

Dialing ==
  Cardinality({p \in Procs : pc[p] = "dialing"})
    + (IF warm \in {"dialing", "dialed"} THEN 1 ELSE 0)

\* tp.total counts the idle, the active and the reserved connections.  It is off
\* only by the connections returned after a forced drain had forgotten them (one
\* too few each) and by the one warm-up drops on a closed pool (one too many).
TotalAccounts == total = Len(idle) + Cardinality(active) + Dialing + skew

Limit == IF MinConns > MaxConns THEN MinConns ELSE MaxConns

\* The database never sees more connections than the limit allows unless a
\* connection was returned after a forced drain.  The limit is MaxConns, or
\* MinConns where that is larger: warm-up looks at MinConns only.
WithinLimit ==
  /\ total <= Limit
  /\ skew >= 0 => Cardinality({c \in Conns : sock[c] # "closed"}) <= Limit

Waiters == {p \in Procs : pc[p] \in {"exhausted", "armed", "waiting", "woken"}}

\* tp.waiting, exported by Stats, is the number of Acquire calls past the
\* exhausted check that have not come back.
WaitingCounts == waiting = Cardinality(Waiters)

\* Once the pool is closed and drained its idle list stays empty: a Return, a
\* warm-up or an Acquire that was under way puts nothing back.
ClosedStaysEmpty == swept => idle = <<>>

\* The reaper leaves the newest MinConns idle connections where they are.
ReaperKeepsNewest ==
  [][ReapIdle => /\ Len(idle') >= MinConns
                 /\ \A i \in 1 .. MinConns :
                      idle'[Len(idle') + 1 - i] = idle[Len(idle) + 1 - i]]_vars

Acquiring(p) == pc[p] \in {"dialing", "exhausted", "armed", "waiting", "woken"}

\* The timer fired in the window before cond.Wait enlisted the caller.
TimerMisses(p) == pc[p] = "armed" /\ p \notin timer

\* A dial that authenticates, which may take for ever.
Authenticating(p) == Authenticated /\ pc[p] = "dialing"

\* Every Acquire call that has not missed its timer stops waiting, by that timer if nothing
\* else wakes it, unless the timer comes to fire in that window; and then it ends, with or
\* without a dial, except in a dial that authenticates.
AcquireEnds ==
  \A p \in Procs :
    Acquiring(p) /\ (pc[p] = "waiting" => p \in timer)
      ~> ~Acquiring(p) \/ TimerMisses(p) \/ Authenticating(p)

-----------------------------------------------------------------------------
(* What the comments and documents say and the code does not do *)

\* "Ensure Acquire() properly waits and gets woken up when connections are
\* returned": nobody sleeps beside an idle connection without a wake-up on its way.
NoLostWakeup ==
  idle # <<>> /\ (\E p \in Procs : pc[p] = "waiting") => \E q \in Procs : pc[q] = "woken"
=============================================================================
