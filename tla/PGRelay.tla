------------------------------- MODULE PGRelay -------------------------------
(***************************************************************************)
(* Transaction-level pooling for PostgreSQL (internal/proxy/pg_relay.go):  *)
(* relayPGTransactionMode with resetAndReturn and cleanupBackend, for      *)
(* several client sessions that share the pool's backends with the health  *)
(* check of the tenant (pingPostgresViaPool in internal/health/checker.go, *)
(* one at a time, since checkAll waits for its checks).                    *)
(*                                                                         *)
(* External: the PostgreSQL backend (it executes messages in order and     *)
(* answers each simple query with a completion or an error and then a      *)
(* ReadyForQuery) and the pool, reduced to which backends are idle         *)
(* (TenantPool has its details).  A frontend message is abstracted to what *)
(* the relay and the backend tell apart: its Kind.                         *)
(***************************************************************************)
EXTENDS Naturals, FiniteSets, SequencesExt

CONSTANTS
  Clients, Backends,
  Kinds,        \* the kinds of messages the clients send
  MaxRequests,  \* bound: messages the clients send together
  MaxChecks,    \* bound: health checks
  None

\* "set" leaves session state behind; "fail" is answered by an error; "parse" and
\* "prepare" are extended-protocol messages, "prepare" with a statement name.
AllKinds == {"query", "begin", "commit", "fail", "set", "listen", "parse", "prepare"}

ASSUME RelayAssumption ==
  /\ Kinds \subseteq AllKinds /\ MaxRequests \in Nat /\ MaxChecks \in Nat
  /\ None \notin Clients \cup Backends

VARIABLES
  srv,       \* each backend connection: the server's side and the two streams
  ses,       \* each client's session in the relay
  sent,      \* messages each client has sent
  hc,        \* the health check
  shutdown   \* the proxy's context is cancelled

vars == <<srv, ses, sent, hc, shutdown>>

Extended == {"parse", "prepare"}

detectSessionPin(kind) == kind \in {"listen", "prepare"}

\* deadline: the one a health check sets and nothing clears; shut: our end of the
\* connection is closed; cut (history): a user gave up in the middle of an answer.
Unused == [where |-> "none", broken |-> FALSE, txn |-> "I", residue |-> {},
           inq |-> <<>>, outq |-> <<>>, deadline |-> "none", shut |-> FALSE, cut |-> FALSE]

Away == [pos |-> "away", then |-> "away", be |-> None, pinned |-> FALSE,
         kind |-> "query", gone |-> FALSE, told |-> "I"]

-----------------------------------------------------------------------------
(* The PostgreSQL backend *)

Fails(b, op) ==
  \/ op = "fail"
  \/ srv[b].txn = "E" /\ op \notin {"commit", "ROLLBACK"}
  \/ srv[b].txn # "I" /\ op = "DISCARD ALL"

TxnAfter(b, op) ==
  IF Fails(b, op) THEN IF srv[b].txn = "I" THEN "I" ELSE "E"
  ELSE CASE op = "begin" -> "T"
         [] op \in {"commit", "ROLLBACK"} -> "I"
         [] OTHER -> srv[b].txn

ResidueAfter(b, m) ==
  IF Fails(b, m.op) THEN srv[b].residue
  ELSE CASE m.op = "DISCARD ALL" -> {}
         [] m.op \in {"set", "listen", "prepare"} -> srv[b].residue \cup {m.by}
         [] OTHER -> srv[b].residue

\* An extended-protocol message is answered only once a Sync or Flush follows.
Answer(b, m) ==
  IF m.op \in Extended THEN <<>>
  ELSE << [type |-> IF Fails(b, m.op) THEN "E" ELSE "C", by |-> m.by, n |-> m.n, status |-> "-"],
          [type |-> "Z", by |-> m.by, n |-> m.n, status |-> TxnAfter(b, m.op)] >>

Execute(b) ==
  /\ srv[b].inq # <<>>
  /\ LET m == Head(srv[b].inq) IN
       srv' = [srv EXCEPT ![b].inq = Tail(@),
                          ![b].outq = @ \o Answer(b, m),
                          ![b].txn = TxnAfter(b, m.op),
                          ![b].residue = ResidueAfter(b, m)]
  /\ UNCHANGED <<ses, sent, hc, shutdown>>

\* The backend goes away; what it has sent can still be read.
BackendLost(b) ==
  /\ srv[b].where # "none" /\ ~srv[b].broken
  /\ srv' = [srv EXCEPT ![b].broken = TRUE, ![b].inq = <<>>]
  /\ UNCHANGED <<ses, sent, hc, shutdown>>

-----------------------------------------------------------------------------
(* What the relay does with a backend *)

\* Every read and write fails at once.
IOFails(b) == srv[b].shut \/ srv[b].deadline = "past"

\* A write to the backend; one to a broken backend may still succeed.
Write(b, op, by, n) ==
  /\ ~IOFails(b)
  /\ srv' = [srv EXCEPT ![b].inq =
            IF srv[b].broken THEN @ ELSE Append(@, [op |-> op, by |-> by, n |-> n])]

Skip(b) == srv' = [srv EXCEPT ![b].outq = Tail(@)]

Goto(c, p) == ses' = [ses EXCEPT ![c].pos = p]

End(c) == ses' = [ses EXCEPT ![c] = Away]

\* The relay holds no backend any more and goes on with its loop, or returns.
LetGo(c) ==
  IF ses[c].then = "top" THEN ses' = [ses EXCEPT ![c].pos = "top", ![c].be = None] ELSE End(c)

\* PooledConn.Close.
Close(b) == srv' = [srv EXCEPT ![b] = Unused]

MayFail(b) == srv[b].broken \/ IOFails(b)

Readable(b) == srv[b].outq # <<>> /\ ~IOFails(b)

Unreadable(b) == MayFail(b) /\ ~Readable(b)

Broken(c) == MayFail(ses[c].be)

Arrived(c) == Readable(ses[c].be)

Incoming(c) == Head(srv[ses[c].be].outq)

ReadFails(c) == Unreadable(ses[c].be)

\* cleanupBackend up to its first read.
cleanupBackend(c) ==
  /\ ses[c].pos = "cleanup"
  /\ \/ Broken(c) /\ Close(ses[c].be) /\ End(c)
     \/ Write(ses[c].be, "ROLLBACK", None, 0) /\ Goto(c, "draining")
  /\ UNCHANGED <<sent, hc, shutdown>>

\* Its loop: read up to a ReadyForQuery, then resetAndReturn.
DrainRollback(c) ==
  /\ ses[c].pos = "draining"
  /\ \/ ReadFails(c) /\ Close(ses[c].be) /\ End(c)
     \/ Arrived(c) /\ Incoming(c).type # "Z" /\ Skip(ses[c].be) /\ UNCHANGED ses
     \/ /\ Arrived(c) /\ Incoming(c).type = "Z"
        /\ Skip(ses[c].be)
        /\ ses' = [ses EXCEPT ![c].pos = "reset", ![c].then = "away"]
  /\ UNCHANGED <<sent, hc, shutdown>>

\* Variant: the backend is returned without DISCARD ALL.
ReturnUnreset(c) ==
  /\ ses[c].pos = "reset"
  /\ srv' = [srv EXCEPT ![ses[c].be].where = "idle"]
  /\ LetGo(c)
  /\ UNCHANGED <<sent, hc, shutdown>>

\* Variant: the answer to a DISCARD ALL that was not sent is awaited.
AwaitUnsentReset(c) ==
  /\ ses[c].pos = "reset"
  /\ Goto(c, "resetting")
  /\ UNCHANGED <<srv, sent, hc, shutdown>>

\* resetAndReturn up to its first read.
resetAndReturn(c) ==
  /\ ses[c].pos = "reset"
  /\ \/ Broken(c) /\ Close(ses[c].be) /\ LetGo(c)
     \/ Write(ses[c].be, "DISCARD ALL", None, 0) /\ Goto(c, "resetting")
  /\ UNCHANGED <<sent, hc, shutdown>>

\* Its loop: an idle ReadyForQuery returns the backend to the pool; an error, or
\* any other status, closes it.
ReadReset(c) ==
  /\ ses[c].pos = "resetting"
  /\ \/ /\ \/ ReadFails(c)
           \/ Arrived(c) /\ Incoming(c).type = "E"
           \/ Arrived(c) /\ Incoming(c).type = "Z" /\ Incoming(c).status # "I"
        /\ Close(ses[c].be)
        /\ LetGo(c)
     \/ Arrived(c) /\ Incoming(c).type = "C" /\ Skip(ses[c].be) /\ UNCHANGED ses
     \/ /\ Arrived(c) /\ Incoming(c).type = "Z" /\ Incoming(c).status = "I"
        /\ srv' = [srv EXCEPT ![ses[c].be].outq = Tail(@), ![ses[c].be].where = "idle"]
        /\ LetGo(c)
  /\ UNCHANGED <<sent, hc, shutdown>>

-----------------------------------------------------------------------------
(* relayPGTransactionMode *)

\* The initial Acquire (its failure ends the session before it begins).
Connect(c) ==
  /\ ses[c].pos = "away"
  /\ \E b \in Backends :
       /\ srv[b].where # "used"
       /\ srv' = [srv EXCEPT ![b].where = "used"]
       /\ ses' = [ses EXCEPT ![c].pos = "greeting", ![c].be = b]
  /\ UNCHANGED <<sent, hc, shutdown>>

\* sendSyntheticAuthOK, then the backend goes back unused.
Greet(c) ==
  /\ ses[c].pos = "greeting"
  /\ \/ ses[c].gone /\ Close(ses[c].be) /\ End(c)
     \/ /\ srv' = [srv EXCEPT ![ses[c].be].where = "idle"]
        /\ ses' = [ses EXCEPT ![c].pos = "top", ![c].be = None]
  /\ UNCHANGED <<sent, hc, shutdown>>

\* The loop's select on ctx.Done().
LoopTop(c) ==
  /\ ses[c].pos = "top"
  /\ \/ ~shutdown /\ Goto(c, "ready")
     \/ shutdown /\ ses[c].be # None /\ Goto(c, "cleanup")
     \/ shutdown /\ ses[c].be = None /\ End(c)
  /\ UNCHANGED <<srv, sent, hc, shutdown>>

ReadMessage(c) ==
  /\ ses[c].pos = "ready" /\ ~ses[c].gone
  /\ SumFunction(sent) < MaxRequests
  /\ sent' = [sent EXCEPT ![c] = @ + 1]
  /\ \E k \in Kinds :
       ses' = [ses EXCEPT ![c].kind = k,
                          ![c].pos = IF ses[c].be = None THEN "acquire" ELSE "forward"]
  /\ UNCHANGED <<srv, hc, shutdown>>

Terminate(c) ==
  /\ ses[c].pos = "ready" /\ ~ses[c].gone
  /\ \/ ses[c].be # None /\ ses' = [ses EXCEPT ![c].pos = "reset", ![c].then = "away"]
     \/ ses[c].be = None /\ End(c)
  /\ UNCHANGED <<srv, sent, hc, shutdown>>

\* The read from the client fails.
Disconnected(c) ==
  /\ ses[c].pos = "ready" /\ ses[c].gone
  /\ \/ ses[c].be # None /\ Goto(c, "cleanup")
     \/ ses[c].be = None /\ End(c)
  /\ UNCHANGED <<srv, sent, hc, shutdown>>

\* The Acquire of a session that holds no backend: one, or an error to the client.
Reacquire(c) ==
  /\ ses[c].pos = "acquire"
  /\ \/ \E b \in Backends :
          /\ srv[b].where # "used"
          /\ srv' = [srv EXCEPT ![b].where = "used"]
          /\ ses' = [ses EXCEPT ![c].pos = "forward", ![c].be = b]
     \/ End(c) /\ UNCHANGED srv
  /\ UNCHANGED <<sent, hc, shutdown>>

Forward(c) ==
  /\ ses[c].pos = "forward"
  /\ \/ Broken(c) /\ Close(ses[c].be) /\ End(c)
     \/ /\ Write(ses[c].be, ses[c].kind, c, sent[c])
        /\ ses' = [ses EXCEPT ![c].pos = "reading",
                              ![c].pinned = @ \/ detectSessionPin(ses[c].kind)]
  /\ UNCHANGED <<sent, hc, shutdown>>

\* Variant: any message ends the answer.
AnyEndsAnswer(c) == TRUE

EndsAnswer(c) == Incoming(c).type = "Z"

\* Variant: the pin is not looked at.
ReleasePinned(c) == IF Incoming(c).status = "I" THEN "reset" ELSE "top"

\* After a ReadyForQuery the backend is released if its transaction is over and
\* the session not pinned.
AfterReady(c) == IF Incoming(c).status = "I" /\ ~ses[c].pinned THEN "reset" ELSE "top"

\* One message of the answer, passed on to the client.
ReadAnswer(c) ==
  /\ ses[c].pos = "reading"
  /\ \/ ReadFails(c) /\ Close(ses[c].be) /\ End(c)
     \/ /\ Arrived(c) /\ ses[c].gone  \* the write to the client fails
        /\ srv' = [srv EXCEPT ![ses[c].be].outq = Tail(@),
                              ![ses[c].be].cut = @ \/ Incoming(c).type # "Z"]
        /\ Goto(c, "cleanup")
     \/ Arrived(c) /\ ~EndsAnswer(c) /\ Skip(ses[c].be) /\ UNCHANGED ses
     \/ /\ Arrived(c) /\ EndsAnswer(c)
        /\ Skip(ses[c].be)
        /\ ses' = [ses EXCEPT ![c].told = Incoming(c).status, ![c].then = "top",
                              ![c].pos = AfterReady(c)]
  /\ UNCHANGED <<sent, hc, shutdown>>

-----------------------------------------------------------------------------
(* pingPostgresViaPool; its verdict is a report in TenantLifecycle *)

\* Acquire and SetDeadline.  Without a backend the check fails and ends.
BeginCheck ==
  /\ hc.pos = "rest" /\ hc.n < MaxChecks
  /\ \E b \in Backends :
       /\ srv[b].where # "used"
       /\ srv' = [srv EXCEPT ![b].where = "used", ![b].deadline = "set"]
       /\ hc' = [pos |-> "send", be |-> b, n |-> hc.n + 1]
  /\ UNCHANGED <<ses, sent, shutdown>>

EndCheck == hc' = [hc EXCEPT !.pos = "rest", !.be = None]

\* The deferred Return after a Close: a closed connection goes into the pool.
ReturnClosed == srv' = [srv EXCEPT ![hc.be] = [Unused EXCEPT !.where = "idle", !.shut = TRUE]]

\* The deferred Return after the message that ends the check.
ReturnChecked(cut) ==
  srv' = [srv EXCEPT ![hc.be].where = "idle", ![hc.be].outq = Tail(@),
                     ![hc.be].cut = @ \/ cut]

\* The server may refuse SELECT 1 as it may any query.
SendCheck ==
  /\ hc.pos = "send"
  /\ \/ MayFail(hc.be) /\ ReturnClosed /\ EndCheck
     \/ /\ \E op \in {"query", "fail"} : Write(hc.be, op, None, hc.n)
        /\ hc' = [hc EXCEPT !.pos = "reading"]
  /\ UNCHANGED <<ses, sent, shutdown>>

\* Variant: the check is content with the first message of the answer.
ReadCheckOnce ==
  /\ hc.pos = "reading"
  /\ \/ Unreadable(hc.be) /\ ReturnClosed /\ EndCheck
     \/ Readable(hc.be) /\ ReturnChecked(FALSE) /\ EndCheck
  /\ UNCHANGED <<ses, sent, shutdown>>

\* An error ends the check too, and the ReadyForQuery after it stays unread.
ReadCheck ==
  /\ hc.pos = "reading"
  /\ \/ Unreadable(hc.be) /\ ReturnClosed /\ EndCheck
     \/ /\ Readable(hc.be)
        /\ LET type == Head(srv[hc.be].outq).type IN
             \/ type = "C" /\ Skip(hc.be) /\ UNCHANGED hc
             \/ type \in {"E", "Z"} /\ ReturnChecked(type = "E") /\ EndCheck
  /\ UNCHANGED <<ses, sent, shutdown>>

DeadlinePasses(b) ==
  /\ srv[b].deadline = "set"
  /\ srv' = [srv EXCEPT ![b].deadline = "past"]
  /\ UNCHANGED <<ses, sent, hc, shutdown>>

-----------------------------------------------------------------------------
(* The environment *)

ClientGone(c) ==
  /\ ses[c].pos # "away" /\ ~ses[c].gone
  /\ ses' = [ses EXCEPT ![c].gone = TRUE]
  /\ UNCHANGED <<srv, sent, hc, shutdown>>

StopProxy ==
  /\ ~shutdown
  /\ shutdown' = TRUE
  /\ UNCHANGED <<srv, ses, sent, hc>>

Init ==
  /\ srv = [b \in Backends |-> Unused]
  /\ ses = [c \in Clients |-> Away]
  /\ sent = [c \in Clients |-> 0]
  /\ hc = [pos |-> "rest", be |-> None, n |-> 0]
  /\ shutdown = FALSE

\* The relay's own steps, in the order of the code.
RelayStep(c) ==
  \/ Greet(c) \/ LoopTop(c) \/ Disconnected(c) \/ Reacquire(c) \/ Forward(c)
  \/ ReadAnswer(c) \/ cleanupBackend(c) \/ DrainRollback(c) \/ resetAndReturn(c) \/ ReadReset(c)

ClientStep(c) == Connect(c) \/ ReadMessage(c) \/ Terminate(c) \/ ClientGone(c)

CheckStep == BeginCheck \/ SendCheck \/ ReadCheck

Next ==
  \/ \E c \in Clients : RelayStep(c) \/ ClientStep(c)
  \/ CheckStep
  \/ \E b \in Backends : Execute(b) \/ BackendLost(b) \/ DeadlinePasses(b)
  \/ StopProxy

Spec == Init /\ [][Next]_vars

(***************************************************************************)
(* Fairness: backends execute what they receive and the goroutines of the  *)
(* relay and of the health check run.  Nothing makes a client send, or a backend or client fail.         *)
(***************************************************************************)
FairSpec ==
  /\ Spec
  /\ \A c \in Clients : WF_vars(RelayStep(c))
  /\ WF_vars(CheckStep)
  /\ \A b \in Backends : WF_vars(Execute(b))

-----------------------------------------------------------------------------
(* Properties *)

Positions ==
  {"away", "greeting", "top", "ready", "acquire", "forward", "reading", "cleanup",
   "draining", "reset", "resetting"}

Requests == [op : AllKinds \cup {"ROLLBACK", "DISCARD ALL"}, by : Clients \cup {None}, n : Nat]

Replies == [type : {"C", "E", "Z"}, by : Clients \cup {None}, n : Nat,
            status : {"-", "I", "T", "E"}]

\* Types of the backends' streams, of the sessions and of the health check; a
\* backend in use is used by exactly one of them.
TypeOK ==
  /\ srv \in [Backends -> [where : {"none", "idle", "used"}, broken : BOOLEAN,
                           txn : {"I", "T", "E"}, residue : SUBSET Clients,
                           inq : Seq(Requests), outq : Seq(Replies), deadline : {"none", "set", "past"},
                           shut : BOOLEAN, cut : BOOLEAN]]
  /\ ses \in [Clients -> [pos : Positions, then : {"top", "away"}, be : Backends \cup {None},
                          pinned : BOOLEAN, kind : AllKinds, gone : BOOLEAN,
                          told : {"I", "T", "E"}]]
  /\ sent \in [Clients -> Nat]
  /\ hc \in [pos : {"rest", "send", "reading"}, be : Backends \cup {None}, n : Nat]
  /\ shutdown \in BOOLEAN
  /\ \A b \in Backends :
       Cardinality({c \in Clients : ses[c].be = b}) + (IF hc.be = b THEN 1 ELSE 0) =
         IF srv[b].where = "used" THEN 1 ELSE 0

Clean(b) ==
  srv[b].txn = "I" /\ srv[b].residue = {} /\ srv[b].inq = <<>> /\ srv[b].outq = <<>>

\* A backend in the pool is in no transaction, keeps no session's state and has
\* no unread answer, unless its last user gave up in the middle of one.
IdleIsClean ==
  \A b \in Backends : srv[b].where = "idle" /\ ~srv[b].cut => Clean(b)

\* What a client is about to be sent answers the request it is waiting for, and
\* what a health check reads answers its own SELECT 1, with the same exception.
AnswersMatch ==
  /\ hc.pos = "reading" /\ Readable(hc.be) /\ ~srv[hc.be].cut =>
       Head(srv[hc.be].outq).by = None /\ Head(srv[hc.be].outq).n = hc.n
  /\ \A c \in Clients :
       ses[c].pos = "reading" /\ Arrived(c) /\ ~srv[ses[c].be].cut =>
         Incoming(c).by = c /\ Incoming(c).n = sent[c]

\* A session that is pinned, or was told that it is in a transaction, keeps its
\* backend until it ends, and the backend is in the state the client was told,
\* through all that other sessions, health checks and lost backends do.
HeldBackendStays ==
  [][\A c \in Clients :
       LET idle == ses[c].pos \in {"top", "ready", "forward"} IN
       ses[c].pinned \/ (idle /\ ses[c].told # "I") =>
         /\ ses[c].be # None
         /\ idle /\ ~srv[ses[c].be].cut => srv[ses[c].be].txn = ses[c].told
         /\ ses'[c].pos # "away" => ses'[c].be = ses[c].be]_vars

Busy(c) == ses[c].pos \notin {"away", "top", "ready"}

\* The relay gets back to reading from its client, or ends, unless it waits for
\* the answer to an extended-protocol message.
RequestsEnd ==
  \A c \in Clients :
    Busy(c) ~> (~Busy(c) \/ (ses[c].pos = "reading" /\ ses[c].kind \in Extended))

-----------------------------------------------------------------------------
(* What the documents say and the code does not do *)

\* "If a client disconnects mid-transaction, DBBouncer sends ROLLBACK followed by
\* DISCARD ALL to clean up the backend before returning it to the pool."
PooledIsClean == \A b \in Backends : srv[b].where = "idle" => Clean(b)
=============================================================================
