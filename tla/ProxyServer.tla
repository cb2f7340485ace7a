----------------------------- MODULE ProxyServer -----------------------------
(***************************************************************************)
(* The TCP server (internal/proxy/server.go): two accept loops, one        *)
(* goroutine per client, the limit on their number, and the shutdown that  *)
(* main.go runs: the API, the proxy, the health checker and the pools are  *)
(* stopped one after the other, against a timeout.                         *)
(***************************************************************************)
EXTENDS Naturals, FiniteSets

CONSTANTS
  Listeners,  \* the PostgreSQL and the MySQL listener
  Clients,    \* client connections, reused after they end
  MaxConns,   \* Server.maxConns; 0 means no limit
  NoClient

ASSUME ServerAssumption ==
  MaxConns \in Nat /\ NoClient \notin Clients /\ IsFiniteSet(Listeners)

VARIABLES
  loop,       \* each acceptLoop: where it is and the connection it holds
  open,       \* listeners that are open
  conn,       \* where the handler of each client is
  active,     \* Server.activeConns
  wg,         \* Server.wg
  cancelled,  \* Server.ctx is done
  checker,    \* the health checker's goroutine
  stopCh,     \* Checker.stopCh is closed
  main        \* how far main has come

vars == <<loop, open, conn, active, wg, cancelled, checker, stopCh, main>>

Running == main # "exited"

\* Handlers that count in activeConns, and those that hold the wait group.
Serving == {"startup", "session", "reading", "busy", "command", "ending"}
Live == {c \in Clients : conn[c] \in Serving \cup {"leaving"}}

-----------------------------------------------------------------------------
(* acceptLoop *)

\* Until its listener is closed, a loop accepts clients, cancelled or not.
Accept(l) ==
  /\ loop[l].pos = "accept" /\ l \in open
  /\ \E c \in Clients :
       /\ conn[c] = "none"
       /\ conn' = [conn EXCEPT ![c] = "accepted"]
       /\ loop' = [loop EXCEPT ![l] = [pos |-> "check", client |-> c]]
  /\ UNCHANGED <<open, active, wg, cancelled, checker, stopCh, main>>

\* An error of Accept ends the loop when the context is done; otherwise the loop
\* goes on.
AcceptFails(l) ==
  /\ loop[l].pos = "accept" /\ l \notin open
  /\ cancelled
  /\ loop' = [loop EXCEPT ![l].pos = "gone"]
  /\ wg' = wg - 1
  /\ UNCHANGED <<open, conn, active, cancelled, checker, stopCh, main>>

\* Variant: the limit itself is let through.
AtLimitOffByOne == MaxConns > 0 /\ active > MaxConns

AtLimit == MaxConns > 0 /\ active >= MaxConns

CheckLimit(l) ==
  /\ loop[l].pos = "check"
  /\ \/ /\ AtLimit  \* sendConnectionLimitError, Close
        /\ conn' = [conn EXCEPT ![loop[l].client] = "none"]
        /\ loop' = [loop EXCEPT ![l] = [pos |-> "accept", client |-> NoClient]]
     \/ /\ ~AtLimit
        /\ loop' = [loop EXCEPT ![l].pos = "admit"]
        /\ conn' = conn
  /\ UNCHANGED <<open, active, wg, cancelled, checker, stopCh, main>>

\* Variant: the handler is not in the wait group.
StartHandlerUnwaited(l) ==
  /\ loop[l].pos = "admit"
  /\ active' = active + 1
  /\ conn' = [conn EXCEPT ![loop[l].client] = "startup"]
  /\ loop' = [loop EXCEPT ![l] = [pos |-> "accept", client |-> NoClient]]
  /\ UNCHANGED <<open, wg, cancelled, checker, stopCh, main>>

StartHandler(l) ==
  /\ loop[l].pos = "admit"
  /\ active' = active + 1
  /\ wg' = wg + 1
  /\ conn' = [conn EXCEPT ![loop[l].client] = "startup"]
  /\ loop' = [loop EXCEPT ![l] = [pos |-> "accept", client |-> NoClient]]
  /\ UNCHANGED <<open, cancelled, checker, stopCh, main>>

-----------------------------------------------------------------------------
(* handleConnection: only what makes a handler wait or end *)

\* The startup message is read without a deadline; then the session is refused or
\* relayed in its pool mode.
ClientStarts(c) ==
  /\ conn[c] = "startup"
  /\ \E p \in {"ending", "session", "busy", "command"} : conn' = [conn EXCEPT ![c] = p]
  /\ UNCHANGED <<loop, open, active, wg, cancelled, checker, stopCh, main>>

\* relay ends when either side closes or the context is done.
SessionCloses(c) ==
  /\ conn[c] = "session"
  /\ conn' = [conn EXCEPT ![c] = "ending"]
  /\ UNCHANGED <<loop, open, active, wg, cancelled, checker, stopCh, main>>

\* PostgreSQL's transaction relay looks at the context only at the top of its loop,
\* and then reads the next message without a deadline.
LoopTop(c) ==
  /\ conn[c] = "busy"
  /\ conn' = [conn EXCEPT ![c] = IF cancelled THEN "ending" ELSE "reading"]
  /\ UNCHANGED <<loop, open, active, wg, cancelled, checker, stopCh, main>>

\* The client sends a message or hangs up.  MySQL's transaction relay ("command")
\* never looks at the context: only a client that quits or hangs up, or whose next
\* command fails (Acquire refuses one when the context is done), ends it.
ClientActs(c) ==
  /\ \/ conn[c] = "reading" /\ \E p \in {"busy", "ending"} : conn' = [conn EXCEPT ![c] = p]
     \/ conn[c] = "command" /\ conn' = [conn EXCEPT ![c] = "ending"]
  /\ UNCHANGED <<loop, open, active, wg, cancelled, checker, stopCh, main>>

\* The deferred calls: activeConns first, then the wait group.
HandlerEnds(c) ==
  /\ conn[c] = "ending"
  /\ active' = active - 1
  /\ conn' = [conn EXCEPT ![c] = "leaving"]
  /\ UNCHANGED <<loop, open, wg, cancelled, checker, stopCh, main>>

HandlerDone(c) ==
  /\ conn[c] = "leaving"
  /\ wg' = wg - 1
  /\ conn' = [conn EXCEPT ![c] = "none"]
  /\ UNCHANGED <<loop, open, active, cancelled, checker, stopCh, main>>

-----------------------------------------------------------------------------
(* Checker.run: rounds of checks until stopCh is closed *)

CheckerStep ==
  /\ \/ checker = "waiting" /\ checker' = "checking"
     \/ checker = "checking" /\ checker' = "waiting"
     \/ checker = "waiting" /\ stopCh /\ checker' = "stopped"
  /\ UNCHANGED <<loop, open, conn, active, wg, cancelled, stopCh, main>>

-----------------------------------------------------------------------------
(* main and its shutdown goroutine *)

Advance(from, to) == main = from /\ main' = to

Signal ==
  /\ Advance("running", "signalled")
  /\ UNCHANGED <<loop, open, conn, active, wg, cancelled, checker, stopCh>>

\* configWatcher.Stop and apiServer.Stop, which waits ten seconds at most.
StopAPI ==
  /\ Advance("signalled", "stopping")
  /\ UNCHANGED <<loop, open, conn, active, wg, cancelled, checker, stopCh>>

Cancel ==
  /\ Advance("stopping", "cancelled")
  /\ cancelled' = TRUE
  /\ UNCHANGED <<loop, open, conn, active, wg, checker, stopCh>>

CloseListener(l) ==
  /\ main = "cancelled" /\ l \in open
  /\ open' = open \ {l}
  /\ main' = IF open = {l} THEN "waiting" ELSE main
  /\ UNCHANGED <<loop, conn, active, wg, cancelled, checker, stopCh>>

ProxyStopped ==
  /\ wg = 0 /\ Advance("waiting", "stopchecker")
  /\ UNCHANGED <<loop, open, conn, active, wg, cancelled, checker, stopCh>>

StopChecker ==
  /\ Advance("stopchecker", "waitchecker")
  /\ stopCh' = TRUE
  /\ UNCHANGED <<loop, open, conn, active, wg, cancelled, checker>>

\* Variant: the checker's goroutine is not waited for.
CheckerNotAwaited ==
  /\ Advance("waitchecker", "closepools")
  /\ UNCHANGED <<loop, open, conn, active, wg, cancelled, checker, stopCh>>

CheckerStopped ==
  /\ checker = "stopped" /\ Advance("waitchecker", "closepools")
  /\ UNCHANGED <<loop, open, conn, active, wg, cancelled, checker, stopCh>>

\* Manager.Close, with its drains, and the end of main.
ClosePools ==
  /\ Advance("closepools", "exited")
  /\ UNCHANGED <<loop, open, conn, active, wg, cancelled, checker, stopCh>>

\* Variant: the timeout runs only while the pools are drained.
TimeoutForDrainOnly ==
  /\ main = "closepools"
  /\ main' = "exited"
  /\ UNCHANGED <<loop, open, conn, active, wg, cancelled, checker, stopCh>>

\* shutdownTimeout: os.Exit wherever the shutdown is.
ShutdownTimeout ==
  /\ main \notin {"running", "exited"}
  /\ main' = "exited"
  /\ UNCHANGED <<loop, open, conn, active, wg, cancelled, checker, stopCh>>

-----------------------------------------------------------------------------
Init ==
  /\ loop = [l \in Listeners |-> [pos |-> "accept", client |-> NoClient]]
  /\ open = Listeners
  /\ conn = [c \in Clients |-> "none"]
  /\ active = 0 /\ wg = Cardinality(Listeners)
  /\ cancelled = FALSE /\ checker = "checking" /\ stopCh = FALSE
  /\ main = "running"

LoopStep(l) == Accept(l) \/ AcceptFails(l) \/ CheckLimit(l) \/ StartHandler(l)

HandlerStep(c) == LoopTop(c) \/ HandlerEnds(c) \/ HandlerDone(c)

ClientStep(c) == ClientStarts(c) \/ SessionCloses(c) \/ ClientActs(c)

\* What main's shutdown goroutine does without the timeout.
ShutdownStep ==
  \/ StopAPI \/ Cancel \/ (\E l \in Listeners : CloseListener(l)) \/ ProxyStopped
  \/ StopChecker \/ CheckerStopped \/ ClosePools

Next ==
  /\ Running
  /\ \/ \E l \in Listeners : LoopStep(l)
     \/ \E c \in Clients : HandlerStep(c) \/ ClientStep(c)
     \/ CheckerStep
     \/ Signal \/ ShutdownStep \/ ShutdownTimeout

Spec == Init /\ [][Next]_vars

\* The scheduler runs every goroutine that can go on, a relay notices that the
\* context is done, and the shutdown timer fires.  Clients need never act.
Fairness ==
  /\ \A l \in Listeners : WF_vars(Running /\ LoopStep(l))
  /\ \A c \in Clients : /\ WF_vars(Running /\ HandlerStep(c))
                        /\ WF_vars(Running /\ cancelled /\ SessionCloses(c))
  /\ SF_vars(Running /\ CheckerStep /\ checker' = "stopped")
  /\ WF_vars(Running /\ CheckerStep)
  /\ WF_vars(Running /\ ShutdownStep)
  /\ WF_vars(Running /\ ShutdownTimeout)

FairSpec == Spec /\ Fairness

-----------------------------------------------------------------------------
(* Properties *)

\* Types of the server's state; neither counter of acceptLoop goes below zero.  Part of
\* CountsExact.
TypeOK ==
  /\ loop \in [Listeners -> [pos : {"accept", "check", "admit", "gone"},
                             client : Clients \cup {NoClient}]]
  /\ open \subseteq Listeners
  /\ conn \in [Clients -> Serving \cup {"none", "accepted", "leaving"}]
  /\ active \in Nat /\ wg \in Nat
  /\ cancelled \in BOOLEAN /\ stopCh \in BOOLEAN
  /\ checker \in {"waiting", "checking", "stopped"}
  /\ main \in {"running", "signalled", "stopping", "cancelled", "waiting", "stopchecker",
               "waitchecker", "closepools", "exited"}

\* Both counters of acceptLoop are exact at every step: activeConns is the number of handlers
\* that have not begun to leave, and the wait group counts them, those that are
\* leaving and the accept loops, so that it cannot reach zero too early.
CountsExact ==
  /\ TypeOK
  /\ active = Cardinality({c \in Clients : conn[c] \in Serving})
  /\ wg = Cardinality(Live) + Cardinality({l \in Listeners : loop[l].pos # "gone"})

\* The limit on connections is exceeded by one at most: the loops check before
\* they count, and each loop holds one connection at a time.
LimitNearlyKept ==
  MaxConns > 0 => active + 1 <= MaxConns + Cardinality(Listeners)

\* The pools are closed only when no accept loop, no handler and no health check is
\* running any more.
QuietBeforePools ==
  main = "closepools" =>
    /\ \A l \in Listeners : loop[l].pos = "gone"
    /\ Live = {}
    /\ checker = "stopped"

\* After a signal the process ends, whatever the clients do.
ShutdownEnds == main = "signalled" ~> main = "exited"
=============================================================================
