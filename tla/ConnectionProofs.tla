-------------------------- MODULE ConnectionProofs --------------------------
(***************************************************************************)
(* Proofs about how a connection comes about on either side of the proxy.  *)
(*                                                                         *)
(* ProxyServer, which accepts and counts the clients' connections, for any *)
(* number of clients, any finite number of listeners and any limit.        *)
(*                                                                         *)
(* BackendAuth, which opens a pool's connections to a server, for every    *)
(* set of passwords and whatever a faulty server may say: what the pool    *)
(* hands out is ready and, with SCRAM, proved.                             *)
(***************************************************************************)
EXTENDS ProxyServer, BackendAuth, FiniteSetTheorems, TLAPS

(***************************************************************************)
(* ProxyServer.  The counters are exact only because a handler starts for  *)
(* a connection that its loop, and no other, has accepted (Holding).  The  *)
(* limit holds only together with the loops that are past the check and    *)
(* have not counted yet (Admitting), and the order of the shutdown only    *)
(* from the moment at which the wait group has been seen at zero (Quiet).  *)
(***************************************************************************)

Handlers == {c \in Clients : conn[c] \in Serving}

LoopsLeft == {l \in Listeners : loop[l].pos # "gone"}

Admitting == {l \in Listeners : loop[l].pos = "admit"}

Finite == IsFiniteSet(Live)

\* A loop past Accept holds an accepted connection of its own.
Holding ==
  /\ \A l \in Listeners : loop[l].pos \in {"check", "admit"} =>
       loop[l].client \in Clients /\ conn[loop[l].client] = "accepted"
  /\ \A l, m \in Listeners :
       /\ l # m
       /\ loop[l].pos \in {"check", "admit"} /\ loop[m].pos \in {"check", "admit"}
       => loop[l].client # loop[m].client

\* The limit, counting the loops that have looked at it and are about to exceed it.
LimitWithAdmitting ==
  MaxConns > 0 => active + Cardinality(Admitting) + 1 <= MaxConns + Cardinality(Listeners)

\* Once the wait group was seen at zero nothing comes back to life.
Quiet ==
  /\ main \in {"stopchecker", "waitchecker", "closepools"} => LoopsLeft = {} /\ Live = {}
  /\ main = "closepools" => checker = "stopped"

ServerInv == CountsExact /\ Finite /\ Holding /\ LimitWithAdmitting /\ Quiet

\* The sets that are counted are finite.
LEMMA CountedFinite ==
  /\ IsFiniteSet(Listeners) /\ Cardinality(Listeners) \in Nat
  /\ IsFiniteSet(LoopsLeft) /\ Cardinality(LoopsLeft) \in Nat
  /\ IsFiniteSet(Admitting) /\ Cardinality(Admitting) \in Nat
  /\ Cardinality(Admitting) <= Cardinality(Listeners)
  /\ Finite => /\ IsFiniteSet(Handlers) /\ Cardinality(Handlers) \in Nat
               /\ Cardinality(Live) \in Nat
<1>1. LoopsLeft \subseteq Listeners /\ Admitting \subseteq Listeners
  BY DEF LoopsLeft, Admitting
<1>2. Handlers \subseteq Live
  BY DEF Handlers, Live
<1>3. IsFiniteSet(LoopsLeft) /\ IsFiniteSet(Admitting)
  BY <1>1, ServerAssumption, FS_Subset
<1>4. Cardinality(Admitting) <= Cardinality(Listeners)
  BY <1>1, ServerAssumption, FS_Subset
<1>5. Finite => IsFiniteSet(Handlers)
  BY <1>2, FS_Subset DEF Finite
<1> QED
  BY <1>3, <1>4, <1>5, ServerAssumption, FS_CardinalityType DEF Finite

\* The invariant in the words of the sets.
LEMMA CountsInWords ==
  CountsExact <=> /\ TypeOK /\ active = Cardinality(Handlers)
                  /\ wg = Cardinality(Live) + Cardinality(LoopsLeft)
BY DEF CountsExact, Handlers, LoopsLeft

\* At the start there are the accept loops and nothing else.
LEMMA ServerInitially == Init => ServerInv
<1> SUFFICES ASSUME Init PROVE ServerInv
  OBVIOUS
<1>1. Live = {} /\ Handlers = {} /\ LoopsLeft = Listeners /\ Admitting = {}
  BY DEF Init, Live, Handlers, LoopsLeft, Admitting, Serving
<1>2. IsFiniteSet({}) /\ Cardinality({}) = 0
  BY FS_EmptySet
<1>3. TypeOK
  BY CountedFinite, Zenon DEF Init, TypeOK
<1>4. active = 0 /\ wg = Cardinality(Listeners)
  BY DEF Init
<1>5. CountsExact
  BY <1>1, <1>2, <1>3, <1>4, CountedFinite, CountsInWords
<1>6. Finite /\ Holding /\ Quiet
  BY <1>1, <1>2 DEF Init, Finite, Holding, Quiet
<1>7. LimitWithAdmitting
  BY <1>1, <1>2, <1>4, CountedFinite, ServerAssumption DEF LimitWithAdmitting
<1> QED
  BY <1>5, <1>6, <1>7 DEF ServerInv

\* Primed forms of the facts about the counted sets.
LEMMA CountsInWordsNext ==
  ASSUME TypeOK', active' = Cardinality(Handlers'),
         wg' = Cardinality(Live') + Cardinality(LoopsLeft')
  PROVE  CountsExact'
BY DEF CountsExact, Handlers, LoopsLeft

-----------------------------------------------------------------------------
(* The steps of an accept loop *)

\* Accept, and the check of the limit, change no counter.
LEMMA AcceptKeeps ==
  ASSUME ServerInv, NEW l \in Listeners, Accept(l)
  PROVE  ServerInv'
<1> USE DEF ServerInv
<1>1. PICK c \in Clients :
        /\ conn[c] = "none" /\ loop[l].pos = "accept"
        /\ conn' = [conn EXCEPT ![c] = "accepted"]
        /\ loop' = [loop EXCEPT ![l] = [pos |-> "check", client |-> c]]
        /\ UNCHANGED <<open, active, wg, cancelled, checker, stopCh, main>>
  BY Zenon DEF Accept
<1>2. TypeOK'
  BY <1>1 DEF CountsExact, TypeOK
<1>3. Live' = Live /\ Handlers' = Handlers
  BY <1>1, <1>2 DEF CountsExact, TypeOK, Live, Handlers, Serving
<1>4. LoopsLeft' = LoopsLeft /\ Admitting' = Admitting
  BY <1>1 DEF CountsExact, TypeOK, LoopsLeft, Admitting
<1>5. CountsExact'
  BY <1>1, <1>2, <1>3, <1>4, CountsInWords, CountsInWordsNext
<1>6. Holding'
  BY <1>1, <1>2 DEF CountsExact, TypeOK, Holding
<1> QED
  BY <1>1, <1>3, <1>4, <1>5, <1>6 DEF Finite, LimitWithAdmitting, Quiet

\* A loop that ends leaves the wait group.
LEMMA AcceptFailsKeeps ==
  ASSUME ServerInv, NEW l \in Listeners, AcceptFails(l)
  PROVE  ServerInv'
<1> USE DEF ServerInv
<1>1. /\ loop[l].pos = "accept" /\ loop' = [loop EXCEPT ![l].pos = "gone"] /\ wg' = wg - 1
      /\ UNCHANGED <<open, conn, active, cancelled, checker, stopCh, main>>
  BY DEF AcceptFails
<1>2. l \in LoopsLeft /\ LoopsLeft' = LoopsLeft \ {l} /\ Admitting' = Admitting
  BY <1>1 DEF CountsExact, TypeOK, LoopsLeft, Admitting
<1>3. Live' = Live /\ Handlers' = Handlers
  BY <1>1 DEF Live, Handlers
<1>4. Cardinality(LoopsLeft') = Cardinality(LoopsLeft) - 1 /\ Cardinality(LoopsLeft') \in Nat
  <2>1. IsFiniteSet(LoopsLeft) /\ IsFiniteSet(LoopsLeft')
    BY <1>2, CountedFinite, FS_Subset
  <2> QED
    BY <1>2, <2>1, FS_RemoveElement, FS_CardinalityType
<1>5. wg' = Cardinality(Live') + Cardinality(LoopsLeft') /\ wg' \in Nat
  BY <1>1, <1>3, <1>4, CountedFinite, CountsInWords
<1>6. TypeOK'
  BY <1>1, <1>5 DEF CountsExact, TypeOK
<1>7. CountsExact'
  BY <1>1, <1>3, <1>5, <1>6, CountsInWords, CountsInWordsNext
<1>8. Holding'
  BY <1>1 DEF CountsExact, TypeOK, Holding
<1> QED
  BY <1>1, <1>2, <1>3, <1>7, <1>8 DEF Finite, LimitWithAdmitting, Quiet

\* A loop that passes the check has seen the limit not reached: at that moment all
\* the other loops may have passed it too, and none of them has counted.
LEMMA CheckLimitKeeps ==
  ASSUME ServerInv, NEW l \in Listeners, CheckLimit(l)
  PROVE  ServerInv'
<1> USE DEF ServerInv
<1>1. loop[l].pos = "check" /\ UNCHANGED <<open, active, wg, cancelled, checker, stopCh, main>>
  BY DEF CheckLimit
<1>2. loop[l].client \in Clients /\ conn[loop[l].client] = "accepted"
  BY <1>1 DEF Holding
<1>3. CASE /\ conn' = [conn EXCEPT ![loop[l].client] = "none"]
           /\ loop' = [loop EXCEPT ![l] = [pos |-> "accept", client |-> NoClient]]
  <2>1. TypeOK'
    BY <1>1, <1>3, Zenon DEF CountsExact, TypeOK
  <2>2. Live' = Live /\ Handlers' = Handlers
    BY <1>2, <1>3, <2>1 DEF CountsExact, TypeOK, Live, Handlers, Serving
  <2>3. LoopsLeft' = LoopsLeft /\ Admitting' = Admitting
    BY <1>1, <1>3 DEF CountsExact, TypeOK, LoopsLeft, Admitting
  <2>4. CountsExact'
    BY <1>1, <2>1, <2>2, <2>3, CountsInWords, CountsInWordsNext
  <2>5. Holding'
    BY <1>1, <1>3 DEF CountsExact, TypeOK, Holding
  <2> QED
    BY <1>1, <2>2, <2>3, <2>4, <2>5 DEF Finite, LimitWithAdmitting, Quiet
<1>4. CASE ~AtLimit /\ loop' = [loop EXCEPT ![l].pos = "admit"] /\ conn' = conn
  <2>1. TypeOK'
    BY <1>1, <1>4 DEF CountsExact, TypeOK
  <2>2. Live' = Live /\ Handlers' = Handlers
    BY <1>4 DEF Live, Handlers
  <2>3. LoopsLeft' = LoopsLeft
    BY <1>1, <1>4 DEF CountsExact, TypeOK, LoopsLeft
  <2>4. CountsExact'
    BY <1>1, <2>1, <2>2, <2>3, CountsInWords, CountsInWordsNext
  <2>5. Holding'
    BY <1>1, <1>4 DEF CountsExact, TypeOK, Holding
  <2>6. Cardinality(Admitting') \in Nat /\ Cardinality(Admitting') <= Cardinality(Listeners)
    <3>1. Admitting' \subseteq Listeners
      BY DEF Admitting
    <3> QED
      BY <3>1, ServerAssumption, FS_Subset, FS_CardinalityType
  <2>7. LimitWithAdmitting'
    <3>1. active \in Nat /\ (MaxConns > 0 => active < MaxConns)
      BY <1>4, ServerAssumption DEF AtLimit, CountsExact, TypeOK
    <3> QED
      BY <1>1, <2>6, <3>1, CountedFinite, ServerAssumption DEF LimitWithAdmitting
  <2> QED
    BY <1>1, <2>2, <2>3, <2>4, <2>5, <2>7 DEF Finite, Quiet
<1> QED
  BY <1>3, <1>4 DEF CheckLimit

\* A handler starts for a connection that counts nowhere yet.
LEMMA StartHandlerKeeps ==
  ASSUME ServerInv, NEW l \in Listeners, StartHandler(l)
  PROVE  ServerInv'
<1> USE DEF ServerInv
<1> DEFINE c == loop[l].client
<1>1. /\ loop[l].pos = "admit" /\ active' = active + 1 /\ wg' = wg + 1
      /\ conn' = [conn EXCEPT ![c] = "startup"]
      /\ loop' = [loop EXCEPT ![l] = [pos |-> "accept", client |-> NoClient]]
      /\ UNCHANGED <<open, cancelled, checker, stopCh, main>>
  BY DEF StartHandler
<1>2. c \in Clients /\ conn[c] = "accepted"
  BY <1>1 DEF Holding
<1>3. TypeOK'
  BY <1>1, <1>2 DEF CountsExact, TypeOK, Serving
<1>4. Live' = Live \cup {c} /\ Handlers' = Handlers \cup {c} /\ c \notin Live /\ c \notin Handlers
  BY <1>1, <1>2 DEF CountsExact, TypeOK, Live, Handlers, Serving
<1>5. LoopsLeft' = LoopsLeft /\ Admitting' = Admitting \ {l} /\ l \in Admitting
      /\ l \in LoopsLeft
  BY <1>1 DEF CountsExact, TypeOK, LoopsLeft, Admitting
<1>6. /\ Cardinality(Live') = Cardinality(Live) + 1 /\ IsFiniteSet(Live')
      /\ Cardinality(Handlers') = Cardinality(Handlers) + 1
  BY <1>4, CountedFinite, FS_AddElement, Zenon DEF Finite
<1>7. Cardinality(Admitting') = Cardinality(Admitting) - 1
  BY <1>5, CountedFinite, FS_RemoveElement, Zenon
<1>8. CountsExact'
  BY <1>1, <1>3, <1>5, <1>6, CountsInWords, CountsInWordsNext, CountedFinite
<1>9. Holding'
  BY <1>1, <1>2 DEF CountsExact, TypeOK, Holding
<1>10. LimitWithAdmitting'
  BY <1>1, <1>7, CountedFinite, ServerAssumption DEF LimitWithAdmitting, CountsExact, TypeOK
<1>11. Quiet'
  BY <1>1, <1>5 DEF Quiet
<1> QED
  BY <1>6, <1>8, <1>9, <1>10, <1>11 DEF Finite

-----------------------------------------------------------------------------
(* The steps of a handler *)

\* A handler that goes on, or is about to end, counts as before.
LEMMA HandlerMoves ==
  ASSUME ServerInv, NEW c \in Clients, ClientStep(c) \/ LoopTop(c)
  PROVE  ServerInv'
<1> USE DEF ServerInv
<1>1. PICK p \in Serving : conn[c] \in Serving /\ conn' = [conn EXCEPT ![c] = p]
  BY DEF ClientStep, ClientStarts, SessionCloses, ClientActs, LoopTop, Serving
<1>2. UNCHANGED <<loop, open, active, wg, cancelled, checker, stopCh, main>>
  BY DEF ClientStep, ClientStarts, SessionCloses, ClientActs, LoopTop
<1>3. TypeOK'
  BY <1>1, <1>2 DEF CountsExact, TypeOK
<1>4. Live' = Live /\ Handlers' = Handlers
  BY <1>1 DEF CountsExact, TypeOK, Live, Handlers
<1>5. LoopsLeft' = LoopsLeft /\ Admitting' = Admitting
  BY <1>2 DEF LoopsLeft, Admitting
<1>6. CountsExact'
  BY <1>2, <1>3, <1>4, <1>5, CountsInWords, CountsInWordsNext
<1>7. Holding'
  BY <1>1, <1>2 DEF CountsExact, TypeOK, Holding, Serving
<1> QED
  BY <1>2, <1>4, <1>5, <1>6, <1>7 DEF Finite, LimitWithAdmitting, Quiet

\* The deferred calls: a handler first stops counting as active ...
LEMMA HandlerEndsKeeps ==
  ASSUME ServerInv, NEW c \in Clients, HandlerEnds(c)
  PROVE  ServerInv'
<1> USE DEF ServerInv
<1>1. /\ conn[c] = "ending" /\ active' = active - 1 /\ conn' = [conn EXCEPT ![c] = "leaving"]
      /\ UNCHANGED <<loop, open, wg, cancelled, checker, stopCh, main>>
  BY DEF HandlerEnds
<1>2. Live' = Live /\ Handlers' = Handlers \ {c} /\ c \in Handlers
  BY <1>1 DEF CountsExact, TypeOK, Live, Handlers, Serving
<1>3. LoopsLeft' = LoopsLeft /\ Admitting' = Admitting
  BY <1>1 DEF LoopsLeft, Admitting
<1>4. Cardinality(Handlers') = Cardinality(Handlers) - 1 /\ Cardinality(Handlers') \in Nat
  <2>1. IsFiniteSet(Handlers) /\ IsFiniteSet(Handlers')
    BY <1>2, CountedFinite, FS_Subset
  <2> QED
    BY <1>2, <2>1, FS_RemoveElement, FS_CardinalityType
<1>5. active' = Cardinality(Handlers') /\ active' \in Nat /\ active \in Nat
  BY <1>1, <1>4, CountsInWords DEF TypeOK
<1>6. TypeOK'
  BY <1>1, <1>5 DEF CountsExact, TypeOK
<1>7. CountsExact'
  BY <1>1, <1>2, <1>3, <1>5, <1>6, CountsInWords, CountsInWordsNext
<1>8. Holding'
  BY <1>1 DEF CountsExact, TypeOK, Holding
<1>9. LimitWithAdmitting'
  BY <1>1, <1>3, <1>5, CountedFinite, ServerAssumption DEF LimitWithAdmitting
<1> QED
  BY <1>1, <1>2, <1>3, <1>7, <1>8, <1>9 DEF Finite, Quiet

\* ... and then leaves the wait group.
LEMMA HandlerDoneKeeps ==
  ASSUME ServerInv, NEW c \in Clients, HandlerDone(c)
  PROVE  ServerInv'
<1> USE DEF ServerInv
<1>1. /\ conn[c] = "leaving" /\ wg' = wg - 1 /\ conn' = [conn EXCEPT ![c] = "none"]
      /\ UNCHANGED <<loop, open, active, cancelled, checker, stopCh, main>>
  BY DEF HandlerDone
<1>2. Live' = Live \ {c} /\ c \in Live /\ Handlers' = Handlers
  BY <1>1 DEF CountsExact, TypeOK, Live, Handlers, Serving
<1>3. LoopsLeft' = LoopsLeft /\ Admitting' = Admitting
  BY <1>1 DEF LoopsLeft, Admitting
<1>4. /\ Cardinality(Live') = Cardinality(Live) - 1 /\ Cardinality(Live') \in Nat
      /\ IsFiniteSet(Live')
  <2>1. IsFiniteSet(Live) /\ IsFiniteSet(Live')
    BY <1>2, FS_Subset DEF Finite
  <2> QED
    BY <1>2, <2>1, FS_RemoveElement, FS_CardinalityType
<1>5. wg' = Cardinality(Live') + Cardinality(LoopsLeft') /\ wg' \in Nat
  BY <1>1, <1>3, <1>4, CountedFinite, CountsInWords
<1>6. TypeOK'
  BY <1>1, <1>5 DEF CountsExact, TypeOK
<1>7. CountsExact'
  BY <1>1, <1>2, <1>5, <1>6, CountsInWords, CountsInWordsNext
<1>8. Holding'
  BY <1>1 DEF CountsExact, TypeOK, Holding
<1> QED
  BY <1>1, <1>2, <1>3, <1>4, <1>7, <1>8 DEF Finite, LimitWithAdmitting, Quiet

-----------------------------------------------------------------------------
(* The health checker and the shutdown *)

\* Only ProxyStopped needs the counters: a wait group at zero means that no loop and
\* no handler is left.
LEMMA ShutdownKeeps ==
  ASSUME ServerInv, CheckerStep \/ Signal \/ ShutdownStep \/ ShutdownTimeout
  PROVE  ServerInv'
<1> USE DEF ServerInv
<1>1. UNCHANGED <<loop, conn, active, wg>>
  BY DEF CheckerStep, Signal, ShutdownStep, ShutdownTimeout, StopAPI, Cancel, CloseListener,
         ProxyStopped, StopChecker, CheckerStopped, ClosePools
<1>2. /\ Live' = Live /\ Handlers' = Handlers
      /\ LoopsLeft' = LoopsLeft /\ Admitting' = Admitting
  BY <1>1 DEF Live, Handlers, LoopsLeft, Admitting
<1>3. open' \subseteq Listeners /\ checker' \in {"waiting", "checking", "stopped"}
  BY DEF CountsExact, TypeOK, CheckerStep, Signal, ShutdownStep, ShutdownTimeout, StopAPI,
         Cancel, CloseListener, ProxyStopped, StopChecker, CheckerStopped, ClosePools
<1>4. cancelled' \in BOOLEAN /\ stopCh' \in BOOLEAN
  BY Zenon DEF CountsExact, TypeOK, CheckerStep, Signal, ShutdownStep, ShutdownTimeout, StopAPI,
         Cancel, CloseListener, ProxyStopped, StopChecker, CheckerStopped, ClosePools
<1>5. main' \in {"running", "signalled", "stopping", "cancelled", "waiting", "stopchecker",
                 "waitchecker", "closepools", "exited"}
  BY DEF CountsExact, TypeOK, CheckerStep, Signal, ShutdownStep, ShutdownTimeout, StopAPI,
         Cancel, CloseListener, ProxyStopped, StopChecker, CheckerStopped, ClosePools, Advance
<1>6. TypeOK'
  BY <1>1, <1>3, <1>4, <1>5 DEF CountsExact, TypeOK
<1>7. CountsExact'
  BY <1>1, <1>2, <1>6, CountsInWords, CountsInWordsNext
<1>8. Quiet'
  <2>1. CASE ProxyStopped
    <3>1. Cardinality(Live) = 0 /\ Cardinality(LoopsLeft) = 0
      BY <2>1, CountsInWords, CountedFinite DEF ProxyStopped
    <3>2. Live = {} /\ LoopsLeft = {}
      BY <3>1, CountedFinite, FS_EmptySet DEF Finite
    <3> QED
      BY <2>1, <1>2, <3>2 DEF ProxyStopped, Advance, Quiet
  <2>2. CASE CheckerStep
    BY <2>2, <1>2 DEF CheckerStep, Quiet
  <2>3. CASE Signal \/ StopAPI \/ Cancel \/ StopChecker \/ CheckerStopped \/ ClosePools
    BY <2>3, <1>2 DEF Signal, StopAPI, Cancel, StopChecker, CheckerStopped, ClosePools,
                      Advance, Quiet
  <2>4. ASSUME NEW l \in Listeners, CloseListener(l) PROVE Quiet'
    BY <2>4 DEF CloseListener, Quiet
  <2>5. CASE ShutdownTimeout
    BY <2>5 DEF ShutdownTimeout, Quiet
  <2> QED
    BY <2>1, <2>2, <2>3, <2>4, <2>5 DEF ShutdownStep
<1> QED
  BY <1>1, <1>2, <1>7, <1>8 DEF Finite, Holding, LimitWithAdmitting

\* The invariant holds in every state.
LEMMA ServerInvariant == Spec => []ServerInv
<1>1. ServerInv /\ [Next]_vars => ServerInv'
  <2> SUFFICES ASSUME ServerInv, [Next]_vars PROVE ServerInv'
    OBVIOUS
  <2>1. CASE UNCHANGED vars
    <3>1. /\ Live' = Live /\ LoopsLeft' = LoopsLeft /\ Admitting' = Admitting
          /\ Handlers' = Handlers
      BY <2>1 DEF vars, Live, LoopsLeft, Admitting, Handlers
    <3>2. TypeOK'
      BY <2>1 DEF vars, ServerInv, CountsExact, TypeOK
    <3>3. CountsExact'
      BY <2>1, <3>1, <3>2, CountsInWords, CountsInWordsNext DEF vars, ServerInv
    <3> QED
      BY <2>1, <3>1, <3>3 DEF vars, ServerInv, Finite, Holding, LimitWithAdmitting, Quiet
  <2> QED
    BY <2>1, AcceptKeeps, AcceptFailsKeeps, CheckLimitKeeps, StartHandlerKeeps, HandlerMoves,
       HandlerEndsKeeps, HandlerDoneKeeps, ShutdownKeeps DEF Next, LoopStep, HandlerStep
<1> QED
  BY ServerInitially, <1>1, PTL DEF Spec

\* activeConns and the wait group of the server are exact in every state, for any
\* number of clients: neither leaks, and neither goes below zero.
THEOREM CountersExact == Spec => []CountsExact
<1>1. ServerInv => CountsExact
  BY DEF ServerInv
<1> QED
  BY ServerInvariant, <1>1, PTL

\* With any number of listeners n, acceptLoop exceeds maxConns by n - 1 at most.
THEOREM LimitExceededByLoops == Spec => []LimitNearlyKept
<1>1. ServerInv => LimitNearlyKept
  BY CountedFinite, ServerAssumption
  DEF ServerInv, CountsExact, TypeOK, LimitWithAdmitting, LimitNearlyKept
<1> QED
  BY ServerInvariant, <1>1, PTL

\* main closes the pools only after the last accept loop, handler and health check.
THEOREM PoolsClosedLast == Spec => []QuietBeforePools
<1>1. ServerInv => QuietBeforePools
  BY DEF ServerInv, Quiet, LoopsLeft, QuietBeforePools
<1> QED
  BY ServerInvariant, <1>1, PTL

-----------------------------------------------------------------------------
(* BackendAuth: the inductive invariant *)

AtFields == {"dbType", "caller", "pos", "round", "rd", "nonce", "first", "auth"}

SvFields == {"method", "password", "faulty", "stage", "said", "got", "heard"}

IsStream(q) == \E S : q \in Seq(S)

\* The goroutine has read part of what was said, the server heard part of what was sent.
AuthTypes ==
  /\ DOMAIN at = AtFields /\ DOMAIN sv = SvFields
  /\ IsStream(sv.said) /\ IsStream(sv.got)
  /\ at.rd \in Nat /\ at.rd <= Len(sv.said)
  /\ sv.heard \in Nat /\ sv.heard <= Len(sv.got)
  /\ at.pos = "dial" => at.rd = 0 /\ sv.heard = 0 /\ sv.said = <<>> /\ sv.got = <<>>

\* What a server waits for an answer to.
Asks == {"R3", "R5", "R7", "R10", "R11", "greeting", "switch"}

\* What ends an exchange.
Ends == {"Z", "OK"}

\* An honest server and the goroutine take turns: while something is unread, the server has
\* heard all that was sent, and a question or an end is the last thing it said.
HonestInv ==
  ~sv.faulty =>
    /\ at.rd < Len(sv.said) => sv.heard = Len(sv.got)
    /\ Len(sv.got) <= sv.heard + 1
    /\ \A i \in at.rd + 1 .. Len(sv.said) :
         /\ Kind(sv.said[i]) \in Ends => i = Len(sv.said) /\ sv.stage = "ready"
         /\ Kind(sv.said[i]) \in Asks => i = Len(sv.said)
    /\ at.pos = "startup" => at.rd = Len(sv.said) /\ sv.heard = Len(sv.got)
    /\ at.pos = "given" =>
         sv.stage = "ready" /\ at.rd = Len(sv.said) /\ sv.heard = Len(sv.got)

\* The exchanges that begin with one of the first n messages are complete.
ProvedUpTo(n) == \A i \in 1 .. n : Kind(sv.said[i]) = "R10" => Proved(i)

\* All exchanges are complete but the one that the goroutine is in.
SaslInv ==
  /\ at.pos \notin {"saslContinue", "saslFinal", "closed"} => ProvedUpTo(at.rd)
  /\ at.pos = "saslContinue" =>
       at.rd >= 1 /\ ProvedUpTo(at.rd - 1) /\ at.nonce = Nonce(at.rd)
  /\ at.pos = "saslFinal" =>
       /\ at.rd >= 2 /\ ProvedUpTo(at.rd - 2) /\ at.nonce = Nonce(at.rd - 1)
       /\ Kind(sv.said[at.rd]) = "R11" /\ at.first = Val(sv.said[at.rd])
       /\ IsPrefix(at.nonce, at.first.r)

AuthInv == AuthTypes /\ HonestInv /\ SaslInv

-----------------------------------------------------------------------------
(* The streams *)

\* A stream has a length, and grows at its end.
LEMMA StreamLength == ASSUME NEW q, IsStream(q) PROVE Len(q) \in Nat
<1>1. PICK S : q \in Seq(S)
  BY DEF IsStream
<1> QED
  BY <1>1

LEMMA StreamGrows ==
  ASSUME NEW q, NEW r, IsStream(q), IsStream(r)
  PROVE  /\ IsStream(q \o r) /\ Len(q \o r) = Len(q) + Len(r)
         /\ \A i \in 1 .. Len(q) : (q \o r)[i] = q[i]
         /\ \A i \in Len(q) + 1 .. Len(q) + Len(r) : (q \o r)[i] = r[i - Len(q)]
<1>1. PICK S : q \in Seq(S)
  BY DEF IsStream
<1>2. PICK T : r \in Seq(T)
  BY DEF IsStream
<1>3. q \in Seq(S \cup T) /\ r \in Seq(S \cup T)
  BY <1>1, <1>2
<1>4. q \o r \in Seq(S \cup T)
  BY <1>3
<1> QED
  BY <1>3, <1>4 DEF IsStream

LEMMA StreamAppends ==
  ASSUME NEW q, NEW m, IsStream(q)
  PROVE  IsStream(Append(q, m)) /\ Len(Append(q, m)) = Len(q) + 1
<1>1. PICK S : q \in Seq(S)
  BY DEF IsStream
<1>2. q \in Seq(S \cup {m})
  BY <1>1
<1>3. Append(q, m) \in Seq(S \cup {m})
  BY <1>2
<1> QED
  BY <1>2, <1>3 DEF IsStream

LEMMA ShortStreams ==
  /\ IsStream(<<>>)
  /\ \A m : IsStream(<<m>>)
  /\ IsStream(Greeted) /\ \A m : IsStream(<<m>> \o Greeted)
<1>1. IsStream(<<>>)
  BY <<>> \in Seq({}) DEF IsStream
<1>2. ASSUME NEW m PROVE IsStream(<<m>>)
  BY <<m>> \in Seq({m}), Zenon DEF IsStream
<1>3. IsStream(Greeted)
  <2>1. Greeted \in Seq({Packet("R0", ""), Packet("S", ""), Packet("K", ""), Packet("Z", "I")})
    BY DEF Greeted
  <2> QED
    BY <2>1, Zenon DEF IsStream
<1> QED
  BY <1>1, <1>2, <1>3, StreamGrows

-----------------------------------------------------------------------------
(* What an honest server says *)

\* A question or an end is the last thing it says at a turn, and with an end it is ready.
Orderly(t) ==
  /\ IsStream(t.say)
  /\ \A i \in 1 .. Len(t.say) :
       /\ Kind(t.say[i]) \in Ends => i = Len(t.say) /\ t.next = "ready"
       /\ Kind(t.say[i]) \in Asks => i = Len(t.say)

LEMMA LastIsOrderly ==
  ASSUME NEW q, NEW next, IsStream(q),
         \A i \in 1 .. Len(q) : i # Len(q) => Kind(q[i]) \notin Ends \cup Asks,
         \A i \in 1 .. Len(q) : Kind(q[i]) \in Ends => next = "ready"
  PROVE  Orderly(Turn(q, next))
<1>1. Turn(q, next).say = q /\ Turn(q, next).next = next
  BY DEF Turn
<1> QED
  BY <1>1, Zenon DEF Orderly

LEMMA OneIsOrderly ==
  ASSUME NEW m, NEW next, Kind(m) \in Ends => next = "ready"
  PROVE  Orderly(Turn(<<m>>, next))
<1>1. Len(<<m>>) = 1 /\ <<m>>[1] = m
  OBVIOUS
<1>2. \A i \in 1 .. 1 : i = 1
  OBVIOUS
<1> QED
  BY <1>1, <1>2, ShortStreams, LastIsOrderly, Zenon

LEMMA GreetedIsOrderly ==
  /\ Orderly(Turn(Greeted, "ready"))
  /\ \A val : Orderly(Turn(<<Packet("R12", val)>> \o Greeted, "ready"))
<1>1. Orderly(Turn(Greeted, "ready"))
  <2>1. Len(Greeted) = 4 /\ \A i \in 1 .. 4 : i # 4 => Kind(Greeted[i]) \in {"R0", "S", "K"}
    BY DEF Greeted, Packet, Kind
  <2>2. \A i \in 1 .. Len(Greeted) : i # Len(Greeted) => Kind(Greeted[i]) \notin Ends \cup Asks
    BY <2>1 DEF Ends, Asks
  <2> QED
    BY <2>2, ShortStreams, LastIsOrderly, Zenon
<1>2. ASSUME NEW val PROVE Orderly(Turn(<<Packet("R12", val)>> \o Greeted, "ready"))
  <2> DEFINE h == <<Packet("R12", val)>>
  <2> DEFINE q == h \o Greeted
  <2>1. Len(Greeted) = 4 /\ \A i \in 1 .. 4 : i # 4 => Kind(Greeted[i]) \in {"R0", "S", "K"}
    BY DEF Greeted, Packet, Kind
  <2>2. Len(h) = 1 /\ Kind(h[1]) = "R12"
    BY DEF Packet, Kind
  <2>3. IsStream(h) /\ IsStream(Greeted) /\ IsStream(q)
    BY ShortStreams
  <2> HIDE DEF h
  <2>4. /\ Len(q) = 5 /\ q[1] = h[1]
        /\ \A i \in 2 .. 5 : q[i] = Greeted[i - 1]
    <3>1. /\ Len(q) = Len(h) + Len(Greeted)
          /\ \A i \in 1 .. Len(h) : q[i] = h[i]
          /\ \A i \in Len(h) + 1 .. Len(h) + Len(Greeted) : q[i] = Greeted[i - Len(h)]
      BY <2>3, StreamGrows, Zenon
    <3> HIDE DEF q
    <3> QED
      BY <2>1, <2>2, <3>1
  <2> HIDE DEF q
  <2>5. ASSUME NEW i \in 1 .. 5, i # 5 PROVE Kind(q[i]) \in {"R12", "R0", "S", "K"}
    <3>1. CASE i = 1
      BY <2>2, <2>4, <3>1
    <3>2. CASE i # 1
      BY <2>1, <2>4, <2>5, <3>2, i \in 2 .. 5, i - 1 \in 1 .. 4, i - 1 # 4
    <3> QED
      BY <3>1, <3>2
  <2>6. \A i \in 1 .. Len(q) : i # Len(q) => Kind(q[i]) \notin Ends \cup Asks
    BY <2>4, <2>5 DEF Ends, Asks
  <2>7. Orderly(Turn(q, "ready"))
    BY <2>3, <2>6, LastIsOrderly, Zenon
  <2> QED
    BY <2>7 DEF q, h
<1> QED
  BY <1>1, <1>2

LEMMA RejectIsOrderly == Orderly(Reject)
BY OneIsOrderly, Zenon DEF Reject, Packet, Kind, Ends

\* Whatever an honest PostgreSQL server is told, and in whatever stage.
LEMMA HonestPGIsOrderly == ASSUME NEW m PROVE Orderly(HonestPG(m))
<1>1. \A right \in BOOLEAN : Orderly(Decide(right))
  BY GreetedIsOrderly, RejectIsOrderly DEF Decide
<1>2. CASE sv.stage = "new"
  BY <1>2, GreetedIsOrderly, RejectIsOrderly, OneIsOrderly, Zenon DEF HonestPG, Packet, Kind, Ends
<1>3. CASE sv.stage = "password"
  BY <1>1, <1>3, Zenon DEF HonestPG
<1>4. CASE sv.stage = "sasl"
  BY <1>4, OneIsOrderly DEF HonestPG, Packet, Kind, Ends
<1>5. CASE sv.stage = "saslFinal"
  BY <1>5, GreetedIsOrderly, RejectIsOrderly DEF HonestPG
<1>6. CASE sv.stage \notin {"new", "password", "sasl", "saslFinal"}
  BY <1>6, RejectIsOrderly, Zenon DEF HonestPG
<1> QED
  BY <1>2, <1>3, <1>4, <1>5, <1>6

\* Whatever an honest MySQL server is told, and whichever of its answers it chooses.
LEMMA HonestMySQLIsOrderly == ASSUME NEW m, NEW t \in HonestMySQL(m) PROVE Orderly(t)
<1>1. \/ t = Turn(<<Packet("OK", "")>>, "ready")
      \/ t = Turn(<<Packet("ERR", "")>>, "gone")
      \/ \E plugin : t = Turn(<<Packet("switch", plugin)>>, "switched")
  BY Zenon DEF HonestMySQL
<1> QED
  BY <1>1, OneIsOrderly, Zenon DEF Packet, Kind, Ends

-----------------------------------------------------------------------------
(* The steps that the handlers share *)

\* An error closes the connection.
LEMMA FailKeeps == ASSUME AuthInv, Fail PROVE AuthInv'
<1>1. /\ at'.pos = "closed" /\ at'.rd = at.rd /\ DOMAIN at' = AtFields
      /\ sv' = sv
  BY DEF AuthInv, AuthTypes, AtFields, Fail
<1>2. AuthTypes'
  BY <1>1 DEF AuthInv, AuthTypes
<1>3. HonestInv'
  BY <1>1 DEF AuthInv, HonestInv
<1>4. SaslInv'
  BY <1>1 DEF SaslInv
<1> QED
  BY <1>2, <1>3, <1>4 DEF AuthInv

\* What sending and consuming do to the fields, for a goroutine that goes on as next.
LEMMA SendFields ==
  ASSUME AuthInv, NEW m, NEW n \in Nat, n <= Len(sv.said),
         NEW next, DOMAIN next = AtFields, next.pos # "dial", Send(m, n, next), ~Fail
  PROVE  /\ AuthTypes' /\ at'.rd = n
         /\ at'.pos = next.pos /\ at'.nonce = next.nonce /\ at'.first = next.first
         /\ sv'.said = sv.said /\ sv'.heard = sv.heard /\ sv'.faulty = sv.faulty
         /\ sv'.stage = sv.stage /\ Len(sv'.got) \in {Len(sv.got), Len(sv.got) + 1}
<1>1. /\ at' = [next EXCEPT !.rd = n]
      /\ sv' = sv \/ sv' = [sv EXCEPT !.got = Append(@, m)]
  BY DEF Send
<1>2. /\ DOMAIN at' = AtFields /\ at'.rd = n
      /\ at'.pos = next.pos /\ at'.nonce = next.nonce /\ at'.first = next.first
  BY <1>1 DEF AtFields
<1>3. /\ DOMAIN sv' = SvFields
      /\ sv'.said = sv.said /\ sv'.heard = sv.heard /\ sv'.faulty = sv.faulty
      /\ sv'.stage = sv.stage
      /\ sv'.got = sv.got \/ sv'.got = Append(sv.got, m)
  BY <1>1 DEF AuthInv, AuthTypes, SvFields
<1>4. /\ IsStream(sv'.got) /\ sv.heard <= Len(sv'.got)
      /\ Len(sv'.got) \in {Len(sv.got), Len(sv.got) + 1}
  <2>1. IsStream(sv.got) /\ sv.heard \in Nat /\ sv.heard <= Len(sv.got)
    BY DEF AuthInv, AuthTypes
  <2>2. /\ IsStream(Append(sv.got, m)) /\ Len(Append(sv.got, m)) = Len(sv.got) + 1
        /\ Len(sv.got) \in Nat
    BY <2>1, StreamAppends, StreamLength, Zenon
  <2>3. sv.heard <= Len(sv.got) + 1
    BY <2>1, <2>2
  <2> QED
    BY <1>3, <2>1, <2>2, <2>3, Zenon
<1>5. AuthTypes'
  BY <1>2, <1>3, <1>4 DEF AuthInv, AuthTypes
<1> QED
  BY <1>2, <1>3, <1>4, <1>5

LEMMA ConsumeFields ==
  ASSUME AuthInv, Unread, NEW next, DOMAIN next = AtFields, next.pos # "dial", Consume(next)
  PROVE  /\ AuthTypes' /\ at'.rd = at.rd + 1
         /\ at'.pos = next.pos /\ at'.nonce = next.nonce /\ at'.first = next.first
         /\ sv' = sv
<1>1. at' = [next EXCEPT !.rd = at.rd + 1] /\ sv' = sv
  BY DEF Consume
<1>2. /\ DOMAIN at' = AtFields /\ at'.rd = at.rd + 1
      /\ at'.pos = next.pos /\ at'.nonce = next.nonce /\ at'.first = next.first
  BY <1>1 DEF AtFields
<1>3. at.rd + 1 \in Nat /\ at.rd + 1 <= Len(sv.said)
  BY StreamLength DEF AuthInv, AuthTypes, Unread
<1>4. AuthTypes'
  BY <1>1, <1>2, <1>3 DEF AuthInv, AuthTypes
<1> QED
  BY <1>1, <1>2, <1>4

\* The goroutine answers when the server waits for it: it has read all, and all was heard.
LEMMA HonestSends ==
  ASSUME AuthInv, NEW n \in Nat, at'.rd = n, at'.pos \notin {"startup", "given"},
         ~sv.faulty => n = Len(sv.said) /\ sv.heard = Len(sv.got),
         sv'.said = sv.said, sv'.heard = sv.heard, sv'.faulty = sv.faulty,
         Len(sv'.got) \in {Len(sv.got), Len(sv.got) + 1}
  PROVE  HonestInv'
<1>1. CASE sv.faulty
  BY <1>1, Zenon DEF HonestInv
<1>2. CASE ~sv.faulty
  <2>1. at'.rd = Len(sv'.said) /\ Len(sv'.said) \in Nat /\ sv.heard \in Nat
    BY <1>2, StreamLength DEF AuthInv, AuthTypes
  <2>2. Len(sv'.got) <= sv'.heard + 1
    BY <1>2, <2>1
  <2> QED
    BY <2>1, <2>2 DEF HonestInv
<1> QED
  BY <1>1, <1>2

\* It reads on, and is done when it has read an end.
LEMMA HonestConsumes ==
  ASSUME AuthInv, Unread, at'.rd = at.rd + 1, sv' = sv,
         at'.pos \in {"startup", "given"} => Kind(Incoming) \in Ends
  PROVE  HonestInv'
<1> SUFFICES ASSUME ~sv.faulty PROVE HonestInv'
  BY Zenon DEF HonestInv
<1>1. Len(sv.said) \in Nat /\ at.rd \in Nat /\ at.rd < Len(sv.said)
  BY StreamLength DEF AuthInv, AuthTypes, Unread
<1>2. /\ sv.heard = Len(sv.got)
      /\ \A i \in at.rd + 1 .. Len(sv.said) :
           /\ Kind(sv.said[i]) \in Ends => i = Len(sv.said) /\ sv.stage = "ready"
           /\ Kind(sv.said[i]) \in Asks => i = Len(sv.said)
  BY <1>1, Zenon DEF AuthInv, HonestInv
<1>5. Len(sv.got) <= sv.heard + 1
  BY Zenon DEF AuthInv, HonestInv
<1>3. at'.pos \in {"startup", "given"} => at.rd + 1 = Len(sv.said) /\ sv.stage = "ready"
  BY <1>1, <1>2 DEF Incoming
<1>4. \A i \in at'.rd + 1 .. Len(sv.said) : i \in at.rd + 1 .. Len(sv.said)
  BY <1>1
<1> QED
  BY <1>2, <1>5, <1>3, <1>4 DEF HonestInv

\* What the server asks is the last thing it said.
LEMMA AskedLast ==
  ASSUME AuthInv, Unread, Kind(Incoming) \in Asks
  PROVE  /\ at.rd + 1 \in Nat /\ at.rd + 1 <= Len(sv.said)
         /\ ~sv.faulty => at.rd + 1 = Len(sv.said) /\ sv.heard = Len(sv.got)
<1>1. Len(sv.said) \in Nat /\ at.rd \in Nat /\ at.rd < Len(sv.said)
  BY StreamLength DEF AuthInv, AuthTypes, Unread
<1>2. at.rd + 1 \in at.rd + 1 .. Len(sv.said)
  BY <1>1
<1> QED
  BY <1>1, <1>2 DEF AuthInv, HonestInv, Incoming

\* Reading on leaves the exchanges that are complete complete.
LEMMA ProvedStays ==
  ASSUME AuthInv, sv'.said = sv.said, at'.rd \in Nat, at.rd <= at'.rd,
         NEW n, ProvedUpTo(n)
  PROVE  \A i \in 1 .. n : Kind(sv'.said[i]) = "R10" => Proved(i)'
BY DEF AuthInv, AuthTypes, ProvedUpTo, Proved

\* A message that offers no SCRAM exchange is read outside of one.
LEMMA SaslReads ==
  ASSUME AuthInv, Unread, Kind(Incoming) # "R10", sv'.said = sv.said, at'.rd = at.rd + 1,
         at.pos \notin {"saslContinue", "saslFinal", "closed"},
         at'.pos \notin {"saslContinue", "saslFinal"}
  PROVE  SaslInv'
<1>1. ProvedUpTo(at.rd) /\ at.rd \in Nat
  BY DEF AuthInv, AuthTypes, SaslInv
<1>2. \A i \in 1 .. at.rd : Kind(sv'.said[i]) = "R10" => Proved(i)'
  BY <1>1, ProvedStays
<1>3. \A i \in 1 .. at.rd + 1 : i \in 1 .. at.rd \/ i = at.rd + 1
  BY <1>1
<1>4. ProvedUpTo(at.rd)'
  BY <1>1, <1>2, <1>3 DEF ProvedUpTo, Incoming
<1> QED
  BY <1>4 DEF SaslInv

-----------------------------------------------------------------------------
(* The server *)

LEMMA AnswerKeeps ==
  ASSUME AuthInv, sv.heard < Len(sv.got), NEW t, IsStream(t.say), ~sv.faulty => Orderly(t),
         Answer(t), at' = at
  PROVE  AuthInv'
<1>1. /\ DOMAIN sv' = SvFields /\ sv'.said = sv.said \o t.say /\ sv'.heard = sv.heard + 1
      /\ sv'.stage = t.next /\ sv'.got = sv.got /\ sv'.faulty = sv.faulty
  BY DEF AuthInv, AuthTypes, SvFields, Answer
<1> DEFINE L == Len(sv.said)
<1> DEFINE K == Len(t.say)
<1> DEFINE G == Len(sv.got)
<1>2. /\ L \in Nat /\ K \in Nat /\ G \in Nat /\ at.rd \in Nat /\ at.rd <= L
      /\ sv.heard \in Nat /\ sv.heard < G
  BY StreamLength DEF AuthInv, AuthTypes
<1>3. /\ IsStream(sv'.said) /\ Len(sv'.said) = L + K
      /\ \A i \in 1 .. L : sv'.said[i] = sv.said[i]
      /\ \A i \in L + 1 .. L + K : sv'.said[i] = t.say[i - L]
  <2>1. IsStream(sv.said)
    BY DEF AuthInv, AuthTypes
  <2> DEFINE q == sv.said \o t.say
  <2>2. /\ IsStream(q) /\ Len(q) = L + K
        /\ \A i \in 1 .. L : q[i] = sv.said[i]
        /\ \A i \in L + 1 .. L + K : q[i] = t.say[i - L]
    BY <2>1, StreamGrows, Zenon
  <2>3. sv'.said = q
    BY <1>1
  <2> HIDE DEF q, L, K
  <2> QED
    BY <2>2, <2>3
<1>4. at.pos # "dial"
  BY <1>2, Len(<<>>) = 0 DEF AuthInv, AuthTypes
<1>5. AuthTypes'
  <2>1. at.rd <= L + K /\ sv.heard + 1 \in Nat /\ sv.heard + 1 <= G
    <3> HIDE DEF L, K, G
    <3> QED
      BY <1>2
  <2> QED
    BY <1>1, <1>2, <1>3, <1>4, <2>1, Zenon DEF AuthInv, AuthTypes
<1>6. HonestInv'
  <2> SUFFICES ASSUME ~sv.faulty PROVE HonestInv'
    BY <1>1, Zenon DEF HonestInv
  <2>1. at.rd = L /\ at.pos \notin {"startup", "given"} /\ sv.heard + 1 = G
    BY <1>2 DEF AuthInv, AuthTypes, HonestInv
  <2>2. ASSUME NEW i \in L + 1 .. L + K
        PROVE  /\ Kind(sv'.said[i]) \in Ends => i = L + K /\ sv'.stage = "ready"
               /\ Kind(sv'.said[i]) \in Asks => i = L + K
    <3>1. i - L \in 1 .. K /\ (i - L = K => i = L + K)
      <4> HIDE DEF L, K
      <4> QED
        BY <1>2
    <3>2. sv'.said[i] = t.say[i - L]
      BY <1>3, Zenon
    <3>3. /\ Kind(t.say[i - L]) \in Ends => i - L = K /\ t.next = "ready"
          /\ Kind(t.say[i - L]) \in Asks => i - L = K
      BY <3>1, Zenon DEF Orderly
    <3> QED
      BY <1>1, <3>1, <3>2, <3>3, Zenon
  <2>3. sv'.heard = Len(sv'.got) /\ Len(sv'.got) <= sv'.heard + 1
    BY <1>1, <1>2, <2>1
  <2> QED
    BY <1>3, <2>1, <2>2, <2>3, Zenon DEF HonestInv
<1>7. SaslInv'
  <2>1. \A i \in 1 .. at.rd : sv'.said[i] = sv.said[i]
    BY <1>2, <1>3
  <2>2. ASSUME NEW n \in Int, n <= at.rd, ProvedUpTo(n) PROVE ProvedUpTo(n)'
    <3> SUFFICES ASSUME NEW i \in 1 .. n, Kind(sv'.said[i]) = "R10" PROVE Proved(i)'
      BY DEF ProvedUpTo
    <3>1. i \in 1 .. at.rd
      BY <1>2, <2>2
    <3>2. Proved(i)
      BY <2>1, <2>2, <3>1 DEF ProvedUpTo
    <3>3. i + 2 <= at.rd /\ i + 1 \in 1 .. at.rd /\ i + 2 \in 1 .. at.rd
      BY <1>2, <3>1, <3>2 DEF Proved
    <3> QED
      BY <2>1, <3>2, <3>3 DEF Proved
  <2>3. at.rd \in Int /\ at.rd - 1 \in Int /\ at.rd - 2 \in Int
    BY <1>2
  <2>4. at.pos = "saslFinal" => at.rd \in 1 .. at.rd
    BY <1>2 DEF AuthInv, SaslInv
  <2> QED
    BY <1>2, <2>1, <2>2, <2>3, <2>4 DEF AuthInv, SaslInv
<1> QED
  BY <1>5, <1>6, <1>7 DEF AuthInv

LEMMA ServerTurnKeeps == ASSUME AuthInv, ServerTurn PROVE AuthInv'
<1> DEFINE m == sv.got[sv.heard + 1]
<1>1. sv.heard < Len(sv.got) /\ at' = at
  BY DEF ServerTurn
<1>2. \/ Answer(HonestPG(m))
      \/ \E t \in HonestMySQL(m) : Answer(t)
      \/ sv.faulty /\ \E say \in Sayings, next \in {"lost", "gone"} : Answer(Turn(say, next))
  BY Zenon DEF ServerTurn
<1>3. CASE Answer(HonestPG(m))
  BY <1>1, <1>3, HonestPGIsOrderly, AnswerKeeps, Zenon DEF Orderly
<1>4. ASSUME NEW t \in HonestMySQL(m), Answer(t) PROVE AuthInv'
  BY <1>1, <1>4, HonestMySQLIsOrderly, AnswerKeeps, Zenon DEF Orderly
<1>5. ASSUME sv.faulty, NEW say \in Sayings, NEW next, Answer(Turn(say, next)) PROVE AuthInv'
  <2>1. IsStream(say)
    BY AuthAssumption DEF IsStream
  <2>2. IsStream(Turn(say, next).say)
    BY <2>1 DEF Turn
  <2> QED
    BY <1>1, <1>5, <2>2, AnswerKeeps, Zenon
<1> QED
  BY <1>2, <1>3, <1>4, <1>5, Zenon

LEMMA ServerClosesKeeps == ASSUME AuthInv, ServerCloses PROVE AuthInv'
<1>1. /\ DOMAIN sv' = SvFields /\ sv'.said = sv.said /\ sv'.got = sv.got /\ sv'.heard = sv.heard
      /\ sv'.faulty = sv.faulty /\ sv.faulty /\ at' = at
  BY Zenon DEF AuthInv, AuthTypes, SvFields, ServerCloses
<1>2. AuthTypes'
  BY <1>1, Zenon DEF AuthInv, AuthTypes
<1>3. HonestInv'
  BY <1>1, Zenon DEF HonestInv
<1>4. SaslInv'
  BY <1>1, Zenon DEF AuthInv, SaslInv, ProvedUpTo, Proved
<1> QED
  BY <1>2, <1>3, <1>4 DEF AuthInv

-----------------------------------------------------------------------------
(* The goroutine *)

LEMMA DialKeeps == ASSUME AuthInv, dial PROVE AuthInv'
<1>1. /\ at.rd = 0 /\ sv.heard = 0 /\ sv.said = <<>> /\ sv.got = <<>>
      /\ DOMAIN at = AtFields /\ DOMAIN sv = SvFields
  BY Zenon DEF AuthInv, AuthTypes, dial
<1>2. SUFFICES ASSUME ~Fail PROVE AuthInv'
  BY FailKeeps
<1>3. /\ DOMAIN at' = AtFields /\ at'.rd = 0 /\ at'.pos \in {"startup", "greeting"}
      /\ DOMAIN sv' = SvFields /\ sv'.got = <<>> /\ sv'.heard = 0 /\ sv'.faulty = sv.faulty
  BY <1>1, <1>2, Zenon DEF dial, AtFields, SvFields
<1>4. \/ sv'.said = <<>>
      \/ sv'.said = <<Packet("greeting", sv.method)>> /\ at'.pos = "greeting"
      \/ sv.faulty /\ sv'.said \in Sayings
  BY <1>1, <1>2, Zenon DEF dial, AtFields, SvFields
<1>5. IsStream(sv'.said) /\ IsStream(sv'.got)
  BY <1>3, <1>4, ShortStreams, AuthAssumption, Zenon DEF IsStream
<1>6. Len(sv'.said) \in Nat /\ Len(sv'.got) = 0
  BY <1>3, <1>5, StreamLength
<1>7. AuthTypes'
  BY <1>3, <1>5, <1>6 DEF AuthTypes
<1>8. HonestInv'
  <2> SUFFICES ASSUME ~sv.faulty PROVE HonestInv'
    BY <1>3, Zenon DEF HonestInv
  <2>1. CASE sv'.said = <<>>
    BY <1>3, <1>6, <2>1 DEF HonestInv
  <2>2. CASE sv'.said = <<Packet("greeting", sv.method)>> /\ at'.pos = "greeting"
    <3>1. Len(sv'.said) = 1 /\ Kind(sv'.said[1]) = "greeting"
      BY <2>2 DEF Packet, Kind
    <3> QED
      BY <1>3, <1>6, <2>2, <3>1 DEF HonestInv, Ends, Asks
  <2> QED
    BY <1>4, <2>1, <2>2
<1>9. SaslInv'
  BY <1>3 DEF SaslInv, ProvedUpTo
<1> QED
  BY <1>7, <1>8, <1>9 DEF AuthInv

LEMMA SendStartupKeeps == ASSUME AuthInv, SendStartup PROVE AuthInv'
<1> SUFFICES ASSUME ~Fail PROVE AuthInv'
  BY FailKeeps
<1> DEFINE next == [at EXCEPT !.pos = "read"]
<1>1. DOMAIN next = AtFields /\ next.pos = "read" /\ at.pos = "startup"
  BY Zenon DEF AuthInv, AuthTypes, AtFields, SendStartup
<1>2. at.rd \in Nat /\ at.rd <= Len(sv.said)
  BY DEF AuthInv, AuthTypes
<1>3. Send(Packet("startup", ""), at.rd, next)
  BY Zenon DEF SendStartup
<1> HIDE DEF next
<1>4. /\ AuthTypes' /\ at'.rd = at.rd /\ at'.pos = "read"
      /\ sv'.said = sv.said /\ sv'.heard = sv.heard /\ sv'.faulty = sv.faulty
      /\ sv'.stage = sv.stage /\ Len(sv'.got) \in {Len(sv.got), Len(sv.got) + 1}
  BY <1>1, <1>2, <1>3, SendFields, "read" # "dial", Zenon
<1>5. HonestInv'
  <2>1. ~sv.faulty => at.rd = Len(sv.said) /\ sv.heard = Len(sv.got)
    BY <1>1 DEF AuthInv, HonestInv
  <2> QED
    BY <1>2, <1>4, <2>1, HonestSends
<1>6. SaslInv'
  BY <1>1, <1>4 DEF AuthInv, SaslInv, ProvedUpTo, Proved
<1> QED
  BY <1>4, <1>5, <1>6 DEF AuthInv

Outside == {"read", "greeting", "result", "switchResult"}

\* The goroutine reads a question outside of a SCRAM exchange and answers it.
LEMMA RepliesKeeps ==
  ASSUME AuthInv, Unread, Kind(Incoming) \in Asks \ {"R10"}, at.pos \in Outside,
         NEW m, NEW next, DOMAIN next = AtFields, next.pos \in Outside,
         Send(m, at.rd + 1, next)
  PROVE  AuthInv'
<1> SUFFICES ASSUME ~Fail PROVE AuthInv'
  BY FailKeeps
<1>1. /\ at.rd + 1 \in Nat /\ at.rd + 1 <= Len(sv.said)
      /\ ~sv.faulty => at.rd + 1 = Len(sv.said) /\ sv.heard = Len(sv.got)
  BY AskedLast
<1>2. next.pos # "dial"
  BY DEF Outside
<1>3. /\ AuthTypes' /\ at'.rd = at.rd + 1 /\ at'.pos = next.pos
      /\ sv'.said = sv.said /\ sv'.heard = sv.heard /\ sv'.faulty = sv.faulty
      /\ sv'.stage = sv.stage /\ Len(sv'.got) \in {Len(sv.got), Len(sv.got) + 1}
  BY <1>1, <1>2, SendFields, Zenon
<1>4. HonestInv'
  <2>1. at'.pos \notin {"startup", "given"}
    BY <1>3 DEF Outside
  <2> QED
    BY <1>1, <1>3, <2>1, HonestSends, Zenon
<1>5. SaslInv'
  <2>1. /\ at.pos \notin {"saslContinue", "saslFinal", "closed"}
        /\ at'.pos \notin {"saslContinue", "saslFinal"}
    BY <1>3 DEF Outside
  <2> QED
    BY <1>3, <2>1, SaslReads, Zenon DEF Asks
<1> QED
  BY <1>3, <1>4, <1>5, Zenon DEF AuthInv

\* It reads something outside of a SCRAM exchange and goes on, or is done if that is an end.
LEMMA PassesKeeps ==
  ASSUME AuthInv, Unread, Kind(Incoming) # "R10", at.pos \in Outside,
         NEW next, DOMAIN next = AtFields,
         next.pos \in Outside \/ (next.pos \in {"startup", "given"} /\ Kind(Incoming) \in Ends),
         Consume(next)
  PROVE  AuthInv'
<1>1. next.pos \notin {"dial", "saslContinue", "saslFinal"}
  BY DEF Outside
<1>2. AuthTypes' /\ at'.rd = at.rd + 1 /\ at'.pos = next.pos /\ sv' = sv
  BY <1>1, ConsumeFields
<1>3. HonestInv'
  <2>1. at'.pos \in {"startup", "given"} => Kind(Incoming) \in Ends
    BY <1>2 DEF Outside
  <2> QED
    BY <1>2, <2>1, HonestConsumes, Zenon
<1>4. SaslInv'
  <2>1. /\ at.pos \notin {"saslContinue", "saslFinal", "closed"}
        /\ at'.pos \notin {"saslContinue", "saslFinal"}
        /\ sv'.said = sv.said
    BY <1>1, <1>2 DEF Outside
  <2> QED
    BY <1>2, <2>1, SaslReads, Zenon
<1> QED
  BY <1>2, <1>3, <1>4, Zenon DEF AuthInv

LEMMA AuthenticatedFields ==
  ASSUME AuthInv
  PROVE  DOMAIN Authenticated = AtFields /\ Authenticated.pos \in {"startup", "given"}
BY DEF AuthInv, AuthTypes, AtFields, Authenticated

\* A SCRAM exchange begins.
LEMMA ScramBegins ==
  ASSUME AuthInv, Unread, Kind(Incoming) = "R10", at.pos = "read",
         NEW mechanisms, scramSHA256Auth(mechanisms)
  PROVE  AuthInv'
<1> SUFFICES ASSUME ~Fail PROVE AuthInv'
  BY FailKeeps
<1> DEFINE next == [at EXCEPT !.pos = "saslContinue", !.nonce = Nonce(at.rd + 1)]
<1>1. DOMAIN next = AtFields /\ next.pos = "saslContinue" /\ next.nonce = Nonce(at.rd + 1)
  BY DEF AuthInv, AuthTypes, AtFields
<1>2. Send(Packet("p", Nonce(at.rd + 1)), at.rd + 1, next)
  BY DEF scramSHA256Auth
<1> HIDE DEF next
<1>3. /\ at.rd + 1 \in Nat /\ at.rd + 1 <= Len(sv.said)
      /\ ~sv.faulty => at.rd + 1 = Len(sv.said) /\ sv.heard = Len(sv.got)
  BY AskedLast DEF Asks
<1>4. /\ AuthTypes' /\ at'.rd = at.rd + 1 /\ at'.pos = "saslContinue"
      /\ at'.nonce = Nonce(at.rd + 1)
      /\ sv'.said = sv.said /\ sv'.heard = sv.heard /\ sv'.faulty = sv.faulty
      /\ sv'.stage = sv.stage /\ Len(sv'.got) \in {Len(sv.got), Len(sv.got) + 1}
  BY <1>1, <1>2, <1>3, SendFields, "saslContinue" # "dial", Zenon
<1>5. HonestInv'
  BY <1>3, <1>4, HonestSends
<1>6. SaslInv'
  <2>1. ProvedUpTo(at.rd) /\ at.rd \in Nat
    BY DEF AuthInv, AuthTypes, SaslInv
  <2>2. at.rd + 1 - 1 = at.rd /\ at.rd + 1 >= 1 /\ at.rd <= at.rd + 1
    BY <2>1
  <2>3. \A i \in 1 .. at.rd : Kind(sv'.said[i]) = "R10" => Proved(i)'
    BY <1>3, <1>4, <2>1, <2>2, ProvedStays
  <2>4. ProvedUpTo(at.rd - 1)'
    <3>1. at'.rd = at.rd + 1
      BY <1>4, Zenon
    <3>2. at'.rd - 1 = at.rd
      BY <2>1, <3>1
    <3> QED
      BY <2>3, <3>2, Zenon DEF ProvedUpTo
  <2> QED
    BY <1>4, <2>2, <2>4 DEF SaslInv
<1> QED
  BY <1>4, <1>5, <1>6, Zenon DEF AuthInv

LEMMA ReadMessageKeeps == ASSUME AuthInv, ReadMessage PROVE AuthInv'
<1> SUFFICES ASSUME ~Fail PROVE AuthInv'
  BY FailKeeps
<1> DEFINE k == Kind(Incoming)
<1>1. at.pos = "read" /\ Unread /\ DOMAIN at = AtFields /\ at.pos \in Outside
  BY DEF AuthInv, AuthTypes, ReadMessage, Outside
<1>2. \/ k \notin {"R3", "R5", "R7", "R10", "R11", "R12", "Z", "E"} /\ Consume(at)
      \/ k \in {"R3", "R5"} /\ \E val : Send(Packet("p", val), at.rd + 1, at)
      \/ k = "R10" /\ scramSHA256Auth(Val(Incoming))
      \/ k = "Z" /\ Consume(Authenticated)
  BY DEF ReadMessage
<1>3. CASE k \notin {"R3", "R5", "R7", "R10", "R11", "R12", "Z", "E"} /\ Consume(at)
  BY <1>1, <1>3, PassesKeeps
<1>4. ASSUME k \in {"R3", "R5"}, NEW val, Send(Packet("p", val), at.rd + 1, at) PROVE AuthInv'
  <2>1. k \in Asks \ {"R10"}
    BY <1>4 DEF Asks
  <2> QED
    BY <1>1, <1>4, <2>1, RepliesKeeps, Zenon
<1>5. CASE k = "R10" /\ scramSHA256Auth(Val(Incoming))
  BY <1>1, <1>5, ScramBegins, Zenon
<1>6. CASE k = "Z" /\ Consume(Authenticated)
  <2>1. k # "R10" /\ k \in Ends
    BY <1>6 DEF Ends
  <2> QED
    BY <1>1, <1>6, <2>1, AuthenticatedFields, PassesKeeps, Zenon
<1> QED
  BY <1>2, <1>3, <1>4, <1>5, <1>6, Zenon

LEMMA SaslContinueKeeps == ASSUME AuthInv, SaslContinue PROVE AuthInv'
<1> SUFFICES ASSUME ~Fail PROVE AuthInv'
  BY FailKeeps
<1> DEFINE next == [at EXCEPT !.pos = "saslFinal", !.first = Val(Incoming)]
<1>1. /\ DOMAIN next = AtFields /\ next.pos = "saslFinal" /\ next.first = Val(Incoming)
      /\ next.nonce = at.nonce /\ at.pos = "saslContinue"
  BY DEF AuthInv, AuthTypes, AtFields, SaslContinue
<1>2. \E m : Send(m, at.rd + 1, next)
  BY DEF SaslContinue
<1>3. Unread /\ Kind(Incoming) = "R11" /\ IsPrefix(at.nonce, Val(Incoming).r)
  BY DEF SaslContinue, ServerFirst, readAuthMessage
<1> HIDE DEF next
<1>4. /\ at.rd + 1 \in Nat /\ at.rd + 1 <= Len(sv.said)
      /\ ~sv.faulty => at.rd + 1 = Len(sv.said) /\ sv.heard = Len(sv.got)
  BY <1>3, AskedLast DEF Asks
<1>5. /\ AuthTypes' /\ at'.rd = at.rd + 1 /\ at'.pos = "saslFinal"
      /\ at'.nonce = at.nonce /\ at'.first = Val(Incoming)
      /\ sv'.said = sv.said /\ sv'.heard = sv.heard /\ sv'.faulty = sv.faulty
      /\ sv'.stage = sv.stage /\ Len(sv'.got) \in {Len(sv.got), Len(sv.got) + 1}
  BY <1>1, <1>2, <1>4, SendFields, "saslFinal" # "dial", Zenon
<1>6. HonestInv'
  BY <1>4, <1>5, HonestSends
<1>7. SaslInv'
  <2>1. at.rd \in Nat /\ at.rd >= 1 /\ ProvedUpTo(at.rd - 1) /\ at.nonce = Nonce(at.rd)
    BY <1>1 DEF AuthInv, AuthTypes, SaslInv
  <2>2. at.rd + 1 - 2 = at.rd - 1 /\ at.rd + 1 - 1 = at.rd /\ at.rd + 1 >= 2 /\ at.rd <= at.rd + 1
    BY <2>1
  <2>3. \A i \in 1 .. at.rd - 1 : Kind(sv'.said[i]) = "R10" => Proved(i)'
    BY <1>4, <1>5, <2>1, <2>2, ProvedStays
  <2> QED
    BY <1>3, <1>5, <2>1, <2>2, <2>3 DEF SaslInv, ProvedUpTo, Incoming
<1> QED
  BY <1>5, <1>6, <1>7, Zenon DEF AuthInv

\* The exchange is complete: the signature is the one that the password gives for it.
LEMMA SaslFinalKeeps == ASSUME AuthInv, SaslFinal PROVE AuthInv'
<1> SUFFICES ASSUME ~Fail PROVE AuthInv'
  BY FailKeeps
<1> DEFINE next == [at EXCEPT !.pos = "read"]
<1>1. DOMAIN next = AtFields /\ next.pos = "read" /\ at.pos = "saslFinal"
  BY DEF AuthInv, AuthTypes, AtFields, SaslFinal
<1>2. /\ Unread /\ Kind(Incoming) = "R12" /\ Consume(next)
      /\ Val(Incoming) = ServerSignature(Password, <<at.nonce, at.first>>)
  BY DEF SaslFinal, readAuthMessage
<1> HIDE DEF next
<1>3. AuthTypes' /\ at'.rd = at.rd + 1 /\ at'.pos = "read" /\ sv' = sv
  BY <1>1, <1>2, ConsumeFields, "read" # "dial", Zenon
<1>4. HonestInv'
  BY <1>2, <1>3, HonestConsumes
<1>5. SaslInv'
  <2>1. /\ at.rd \in Nat /\ at.rd >= 2 /\ ProvedUpTo(at.rd - 2) /\ at.nonce = Nonce(at.rd - 1)
        /\ Kind(sv.said[at.rd]) = "R11" /\ at.first = Val(sv.said[at.rd])
        /\ IsPrefix(at.nonce, at.first.r)
    BY <1>1 DEF AuthInv, AuthTypes, SaslInv
  <2>2. \A i \in 1 .. at.rd - 2 : Kind(sv'.said[i]) = "R10" => Proved(i)'
    BY <1>3, <2>1, ProvedStays
  <2>3. ASSUME NEW i, i = at.rd - 1 PROVE Proved(i)'
    <3>1. i + 1 = at.rd /\ i + 2 = at.rd + 1 /\ i + 2 <= at.rd + 1
      BY <2>1, <2>3
    <3>2. /\ Kind(sv.said[i + 2]) = "R12"
          /\ Val(sv.said[i + 2]) = ServerSignature(Password, <<at.nonce, at.first>>)
      BY <1>2, <3>1 DEF Incoming
    <3>3. at.nonce = Nonce(i)
      BY <2>1, <2>3
    <3> QED
      BY <1>3, <2>1, <3>1, <3>2, <3>3 DEF Proved
  <2>4. \A i \in 1 .. at.rd + 1 : i \in 1 .. at.rd - 2 \/ i \in {at.rd - 1, at.rd, at.rd + 1}
    BY <2>1
  <2>5. Kind(sv.said[at.rd]) # "R10" /\ Kind(sv.said[at.rd + 1]) # "R10"
    BY <1>2, <2>1 DEF Incoming
  <2>6. ProvedUpTo(at.rd)'
    BY <1>3, <2>2, <2>3, <2>4, <2>5 DEF ProvedUpTo
  <2> QED
    BY <1>3, <2>6 DEF SaslInv
<1> QED
  BY <1>3, <1>4, <1>5, Zenon DEF AuthInv

LEMMA HandshakeKeeps == ASSUME AuthInv, ReadServerHandshake PROVE AuthInv'
<1> SUFFICES ASSUME ~Fail PROVE AuthInv'
  BY FailKeeps
<1> DEFINE next == [at EXCEPT !.pos = "result"]
<1>1. DOMAIN next = AtFields /\ next.pos \in Outside /\ at.pos \in Outside
  BY DEF AuthInv, AuthTypes, AtFields, ReadServerHandshake, Outside
<1>2. Unread /\ Kind(Incoming) \in Asks \ {"R10"} /\ \E m : Send(m, at.rd + 1, next)
  BY DEF ReadServerHandshake, Asks
<1> HIDE DEF next
<1> QED
  BY <1>1, <1>2, RepliesKeeps, Zenon

LEMMA ResultKeeps == ASSUME AuthInv, ReadResult PROVE AuthInv'
<1> SUFFICES ASSUME ~Fail PROVE AuthInv'
  BY FailKeeps
<1> DEFINE next == [at EXCEPT !.pos = "switchResult"]
<1>1. DOMAIN next = AtFields /\ next.pos \in Outside /\ at.pos \in Outside /\ Unread
  BY DEF AuthInv, AuthTypes, AtFields, ReadResult, Outside
<1>2. CASE Kind(Incoming) = "OK" /\ Consume(Authenticated)
  <2>1. Kind(Incoming) # "R10" /\ Kind(Incoming) \in Ends
    BY <1>2 DEF Ends
  <2> QED
    BY <1>1, <1>2, <2>1, AuthenticatedFields, PassesKeeps, Zenon
<1>3. CASE Kind(Incoming) = "switch" /\ \E m : Send(m, at.rd + 1, next)
  <2>1. Kind(Incoming) \in Asks \ {"R10"}
    BY <1>3 DEF Asks
  <2> HIDE DEF next
  <2> QED
    BY <1>1, <1>3, <2>1, RepliesKeeps, Zenon
<1> QED
  BY <1>2, <1>3 DEF ReadResult

LEMMA SwitchResultKeeps == ASSUME AuthInv, ReadSwitchResult PROVE AuthInv'
<1> SUFFICES ASSUME ~Fail PROVE AuthInv'
  BY FailKeeps
<1>1. /\ at.pos \in Outside /\ Unread /\ Kind(Incoming) # "R10" /\ Kind(Incoming) \in Ends
      /\ Consume(Authenticated)
  BY DEF ReadSwitchResult, Outside, Ends
<1> QED
  BY <1>1, AuthenticatedFields, PassesKeeps, Zenon

-----------------------------------------------------------------------------

LEMMA AuthInitInv == AuthInit => AuthInv
<1> SUFFICES ASSUME AuthInit PROVE AuthInv
  OBVIOUS
<1>1. /\ DOMAIN at = AtFields /\ at.pos = "dial" /\ at.rd = 0
      /\ DOMAIN sv = SvFields /\ sv.said = <<>> /\ sv.got = <<>> /\ sv.heard = 0
  BY DEF AuthInit, AtFields, SvFields
<1>2. AuthTypes
  BY <1>1, ShortStreams DEF AuthTypes
<1>3. HonestInv
  BY <1>1 DEF HonestInv
<1>4. SaslInv
  BY <1>1 DEF SaslInv, ProvedUpTo
<1> QED
  BY <1>2, <1>3, <1>4 DEF AuthInv

\* Every step of the goroutine and of either kind of server keeps the invariant.
LEMMA AuthStepInv == AuthInv /\ [AuthNext]_authVars => AuthInv'
<1> SUFFICES ASSUME AuthInv, [AuthNext]_authVars PROVE AuthInv'
  OBVIOUS
<1>1. CASE AuthStep
  BY <1>1, DialKeeps, SendStartupKeeps, ReadMessageKeeps, SaslContinueKeeps, SaslFinalKeeps,
     HandshakeKeeps, ResultKeeps, SwitchResultKeeps, Zenon DEF AuthStep
<1>2. CASE UNCHANGED authVars
  <2>1. at' = at /\ sv' = sv
    BY <1>2 DEF authVars
  <2> QED
    BY <2>1, Zenon DEF AuthInv, AuthTypes, HonestInv, SaslInv, ProvedUpTo, Proved
<1> QED
  BY <1>1, <1>2, ServerTurnKeeps, ServerClosesKeeps, Zenon DEF AuthNext

THEOREM AuthInvariant == AuthSpec => []AuthInv
BY AuthInitInv, AuthStepInv, PTL DEF AuthSpec

\* For every password and whatever else servers may say: the pool hands out a connection to
\* an honest server only when that server is ready and nothing of its startup is unread.
THEOREM GivenReady == AuthSpec => []GivenIsReady
<1>1. AuthInv => GivenIsReady
  BY DEF AuthInv, HonestInv, GivenIsReady
<1> QED
  BY <1>1, AuthInvariant, PTL

\* For every password, every set of things a faulty server may say, in any order, and every
\* bound on its turns: the pool hands out a connection only if each SCRAM exchange on it ended
\* with the server's signature over that exchange, with a nonce that continues its own.
THEOREM GivenProved == AuthSpec => []GivenIsProved
<1>1. AuthInv => GivenIsProved
  BY DEF AuthInv, SaslInv, ProvedUpTo, GivenIsProved
<1> QED
  BY <1>1, AuthInvariant, PTL

=============================================================================
