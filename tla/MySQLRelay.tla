----------------------------- MODULE MySQLRelay -----------------------------
(***************************************************************************)
(* Transaction-level pooling for MySQL (internal/proxy/mysql_relay.go):    *)
(* relayMySQLTransactionMode, drainMySQLResponse and drainMySQLUntilOK,    *)
(* for several client sessions that share the pool's backends.             *)
(*                                                                         *)
(* External: the MySQL server, which answers commands in order (without    *)
(* CLIENT_DEPRECATE_EOF and CLIENT_MULTI_RESULTS, which the pool does not  *)
(* claim), and the pool, reduced to which backends are idle.  A command is *)
(* abstracted to its Kind, a packet to what the relay tells apart.         *)
(***************************************************************************)
EXTENDS Naturals, FiniteSets, SequencesExt

CONSTANTS
  Clients, Backends,
  Kinds,        \* the kinds of commands the clients send
  MaxCommands,  \* bound: commands the clients send together
  None

\* "select" is answered by a result set, "fail" by an error and "stmtclose"
\* (COM_STMT_CLOSE) by nothing; "set" leaves session state behind; "start" is
\* START TRANSACTION and "begin" is BEGIN.
AllKinds == {"query", "select", "begin", "start", "commit", "fail", "set", "prepare", "stmtclose"}

ASSUME RelayAssumption ==
  Kinds \subseteq AllKinds /\ MaxCommands \in Nat /\ None \notin Clients \cup Backends

VARIABLES
  srv,   \* each backend connection: the server's side and the two streams
  ses,   \* each client's session in the relay
  sent   \* commands each client has sent

vars == <<srv, ses, sent>>

\* torn (history): the relay stopped reading an answer before its end.
Unused == [where |-> "none", broken |-> FALSE, txn |-> FALSE, residue |-> {},
           inq |-> <<>>, outq |-> <<>>, torn |-> FALSE]

\* timed: txnStart is set; told, failed (history): what the last answer told the
\* client of its transaction, and whether it was an error.
Away == [pos |-> "away", then |-> "away", be |-> None, pinned |-> FALSE, timed |-> FALSE,
         kind |-> "query", gone |-> FALSE, told |-> FALSE, failed |-> FALSE]

\* COM_STMT_PREPARE, and the query texts that pin.
Pins(kind) == kind \in {"prepare", "start"}

-----------------------------------------------------------------------------
(* The MySQL server *)

TxnAfter(b, op) ==
  CASE op \in {"begin", "start"} -> TRUE
    [] op \in {"commit", "ROLLBACK", "RESET"} -> FALSE
    [] OTHER -> srv[b].txn

ResidueAfter(b, m) ==
  CASE m.op = "RESET" -> {}
    [] m.op \in {"set", "prepare"} -> srv[b].residue \cup {m.by}
    [] OTHER -> srv[b].residue

\* A failed statement leaves its transaction open.  A result set is its columns,
\* an EOF, its rows and a second EOF; a prepared statement has columns too.
Answer(b, m) ==
  LET Pkt(type, last) == [type |-> type, last |-> last, trans |-> TxnAfter(b, m.op),
                          by |-> m.by, n |-> m.n]
  IN  CASE m.op = "stmtclose" -> <<>>
        [] m.op = "fail" -> <<Pkt("err", TRUE)>>
        [] m.op = "select" -> <<Pkt("data", FALSE), Pkt("eof", FALSE),
                                Pkt("data", FALSE), Pkt("eof", TRUE)>>
        [] m.op = "prepare" -> <<Pkt("ok", FALSE), Pkt("data", FALSE), Pkt("eof", TRUE)>>
        [] OTHER -> <<Pkt("ok", TRUE)>>

Execute(b) ==
  /\ srv[b].inq # <<>>
  /\ LET m == Head(srv[b].inq) IN
       srv' = [srv EXCEPT ![b].inq = Tail(@), ![b].outq = @ \o Answer(b, m),
                          ![b].txn = TxnAfter(b, m.op), ![b].residue = ResidueAfter(b, m)]
  /\ UNCHANGED <<ses, sent>>

BackendLost(b) ==
  /\ srv[b].where # "none" /\ ~srv[b].broken
  /\ srv' = [srv EXCEPT ![b].broken = TRUE, ![b].inq = <<>>]
  /\ UNCHANGED <<ses, sent>>

-----------------------------------------------------------------------------
(* What the relay does with a backend *)

\* A write to a broken backend may still succeed.
Write(b, op, by, n) ==
  srv' = [srv EXCEPT ![b].inq =
            IF srv[b].broken THEN @ ELSE Append(@, [op |-> op, by |-> by, n |-> n])]

\* One packet is read; done says that the relay takes it for the answer's last.
Take(b, done) ==
  srv' = [srv EXCEPT ![b].outq = Tail(@), ![b].torn = @ \/ (done /\ ~Head(srv[b].outq).last)]

Goto(c, p) == ses' = [ses EXCEPT ![c].pos = p]

End(c) == ses' = [ses EXCEPT ![c] = Away]

\* The relay holds no backend any more and reads the next command, or returns.
LetGo(c) ==
  IF ses[c].then = "ready" THEN ses' = [ses EXCEPT ![c].pos = "ready", ![c].be = None]
  ELSE End(c)

Close(b) == srv' = [srv EXCEPT ![b] = Unused]

Broken(c) == srv[ses[c].be].broken

Arrived(c) == srv[ses[c].be].outq # <<>>

Incoming(c) == Head(srv[ses[c].be].outq)

ReadFails(c) == Broken(c) /\ ~Arrived(c)

\* Variant: the connection is returned as it is.
ReturnUnreset(c) ==
  /\ ses[c].pos = "reset"
  /\ srv' = [srv EXCEPT ![ses[c].be].where = "idle"]
  /\ LetGo(c)
  /\ UNCHANGED sent

\* Variant: the answer to RESET CONNECTION is not read.
ReturnUnread(c) ==
  /\ ses[c].pos = "reset"
  /\ srv' = [srv EXCEPT ![ses[c].be].where = "idle",
                        ![ses[c].be].inq = Append(@, [op |-> "RESET", by |-> None, n |-> 0])]
  /\ LetGo(c)
  /\ UNCHANGED sent

\* The closure resetAndReturn: RESET CONNECTION is sent ...
SendReset(c) ==
  /\ ses[c].pos = "reset"
  /\ \/ Broken(c) /\ Close(ses[c].be) /\ LetGo(c)
     \/ Write(ses[c].be, "RESET", None, 0) /\ Goto(c, "resetting")
  /\ UNCHANGED sent

\* ... and one packet read: any packet but an error returns the connection.
ReadReset(c) ==
  /\ ses[c].pos = "resetting"
  /\ \/ ReadFails(c) /\ Close(ses[c].be) /\ LetGo(c)
     \/ Arrived(c) /\ Incoming(c).type = "err" /\ Close(ses[c].be) /\ LetGo(c)
     \/ /\ Arrived(c) /\ Incoming(c).type # "err"
        /\ srv' = [srv EXCEPT ![ses[c].be].outq = Tail(@), ![ses[c].be].where = "idle",
                              ![ses[c].be].torn = @ \/ ~Incoming(c).last]
        /\ LetGo(c)
  /\ UNCHANGED sent

-----------------------------------------------------------------------------
(* relayMySQLTransactionMode *)

\* The initial Acquire (its failure ends the session before it begins).
Connect(c) ==
  /\ ses[c].pos = "away"
  /\ \E b \in Backends :
       /\ srv[b].where # "used"
       /\ srv' = [srv EXCEPT ![b].where = "used"]
       /\ ses' = [ses EXCEPT ![c].pos = "greeting", ![c].be = b]
  /\ UNCHANGED sent

\* sendMySQLOK; the first backend is kept for the first command.
Greet(c) ==
  /\ ses[c].pos = "greeting"
  /\ \/ ses[c].gone /\ Close(ses[c].be) /\ End(c)
     \/ Goto(c, "ready") /\ UNCHANGED srv
  /\ UNCHANGED sent

\* Variant: the backend released at the last boundary is not replaced.
ReadCommandStale(c) ==
  /\ ses[c].pos = "ready" /\ ~ses[c].gone
  /\ SumFunction(sent) < MaxCommands
  /\ sent' = [sent EXCEPT ![c] = @ + 1]
  /\ \E k \in Kinds :
       ses' = [ses EXCEPT ![c].kind = k, ![c].pinned = @ \/ Pins(k), ![c].pos = "forward"]
  /\ UNCHANGED srv

\* A command that pins does so before a backend is acquired for it.
ReadCommand(c) ==
  /\ ses[c].pos = "ready" /\ ~ses[c].gone
  /\ SumFunction(sent) < MaxCommands
  /\ sent' = [sent EXCEPT ![c] = @ + 1]
  /\ \E k \in Kinds :
       ses' = [ses EXCEPT ![c].kind = k, ![c].pinned = @ \/ Pins(k),
                          ![c].pos = IF ses[c].be = None THEN "acquire" ELSE "forward"]
  /\ UNCHANGED srv

\* COM_QUIT.
Quit(c) ==
  /\ ses[c].pos = "ready" /\ ~ses[c].gone
  /\ \/ ses[c].be # None /\ ses' = [ses EXCEPT ![c].pos = "reset", ![c].then = "away"]
     \/ ses[c].be = None /\ End(c)
  /\ UNCHANGED <<srv, sent>>

\* The read from the client fails: ROLLBACK, whose write error is ignored, if
\* txnStart is set, then the reset.
Disconnected(c) ==
  /\ ses[c].pos = "ready" /\ ses[c].gone
  /\ \/ ses[c].be = None /\ End(c) /\ UNCHANGED srv
     \/ /\ ses[c].be # None /\ ses[c].timed
        /\ Write(ses[c].be, "ROLLBACK", None, 0)
        /\ ses' = [ses EXCEPT ![c].pos = "draining", ![c].then = "away"]
     \/ /\ ses[c].be # None /\ ~ses[c].timed
        /\ ses' = [ses EXCEPT ![c].pos = "reset", ![c].then = "away"]
        /\ UNCHANGED srv
  /\ UNCHANGED sent

\* Up to an OK, an error or an EOF; a read error or the deadline of three seconds
\* ends it too.
drainMySQLUntilOK(c) ==
  /\ ses[c].pos = "draining"
  /\ \/ ReadFails(c) /\ Goto(c, "reset") /\ UNCHANGED srv
     \/ /\ ~Arrived(c) /\ ~Broken(c)
        /\ srv' = [srv EXCEPT ![ses[c].be].torn = TRUE]
        /\ Goto(c, "reset")
     \/ Arrived(c) /\ Incoming(c).type = "data" /\ Take(ses[c].be, FALSE) /\ UNCHANGED ses
     \/ Arrived(c) /\ Incoming(c).type # "data" /\ Take(ses[c].be, TRUE) /\ Goto(c, "reset")
  /\ UNCHANGED sent

Reacquire(c) ==
  /\ ses[c].pos = "acquire"
  /\ \/ \E b \in Backends :
          /\ srv[b].where # "used"
          /\ srv' = [srv EXCEPT ![b].where = "used"]
          /\ ses' = [ses EXCEPT ![c].pos = "forward", ![c].be = b]
     \/ End(c) /\ UNCHANGED srv
  /\ UNCHANGED sent

Forward(c) ==
  /\ ses[c].pos = "forward"
  /\ \/ Broken(c) /\ Close(ses[c].be) /\ End(c)
     \/ /\ Write(ses[c].be, ses[c].kind, c, sent[c])
        /\ ses' = [ses EXCEPT ![c].pos = "reading", ![c].timed = TRUE]
  /\ UNCHANGED sent

\* Variant: only an OK or an error ends the answer.
EndsAnswerNoEOF(c) == Incoming(c).type \in {"ok", "err"}

EndsAnswer(c) == Incoming(c).type \in {"ok", "err", "eof"}

\* Variant: the pin is not looked at.
ReleasesPinned(c) == Incoming(c).type = "err" \/ ~Incoming(c).trans

\* An error is always a boundary; an OK or EOF is one when IN_TRANS is clear.
Releases(c) == ~ses[c].pinned /\ (Incoming(c).type = "err" \/ ~Incoming(c).trans)

\* drainMySQLResponse, packet by packet, and what follows it.
drainMySQLResponse(c) ==
  /\ ses[c].pos = "reading"
  /\ \/ ReadFails(c) /\ Close(ses[c].be) /\ End(c)
     \/ Arrived(c) /\ ses[c].gone /\ Close(ses[c].be) /\ End(c)  \* the write fails
     \/ Arrived(c) /\ ~EndsAnswer(c) /\ Take(ses[c].be, FALSE) /\ UNCHANGED ses
     \/ /\ Arrived(c) /\ EndsAnswer(c)
        /\ Take(ses[c].be, TRUE)
        /\ ses' = [ses EXCEPT ![c].told = IF Incoming(c).type = "err" THEN @ ELSE Incoming(c).trans,
                              ![c].failed = Incoming(c).type = "err",
                              ![c].timed = @ /\ ~Releases(c),
                              ![c].then = "ready",
                              ![c].pos = IF Releases(c) THEN "reset" ELSE "ready"]
  /\ UNCHANGED sent

ClientGone(c) ==
  /\ ses[c].pos # "away" /\ ~ses[c].gone
  /\ ses' = [ses EXCEPT ![c].gone = TRUE]
  /\ UNCHANGED <<srv, sent>>

-----------------------------------------------------------------------------
Init ==
  /\ srv = [b \in Backends |-> Unused]
  /\ ses = [c \in Clients |-> Away]
  /\ sent = [c \in Clients |-> 0]

RelayStep(c) ==
  \/ Greet(c) \/ Disconnected(c) \/ drainMySQLUntilOK(c) \/ Reacquire(c) \/ Forward(c)
  \/ drainMySQLResponse(c) \/ SendReset(c) \/ ReadReset(c)

ClientStep(c) == Connect(c) \/ ReadCommand(c) \/ Quit(c) \/ ClientGone(c)

Next ==
  \/ \E c \in Clients : RelayStep(c) \/ ClientStep(c)
  \/ \E b \in Backends : Execute(b) \/ BackendLost(b)

Spec == Init /\ [][Next]_vars

\* Servers execute what they receive and the relay's goroutines run.  Nothing
\* makes a client send, or a server or client fail.
FairSpec ==
  /\ Spec
  /\ \A c \in Clients : WF_vars(RelayStep(c))
  /\ \A b \in Backends : WF_vars(Execute(b))

-----------------------------------------------------------------------------
(* Properties *)

Positions == {"away", "greeting", "ready", "acquire", "forward", "reading", "draining",
              "reset", "resetting"}

Commands == [op : AllKinds \cup {"ROLLBACK", "RESET"}, by : Clients \cup {None}, n : Nat]

Packets == [type : {"ok", "err", "eof", "data"}, last : BOOLEAN, trans : BOOLEAN,
            by : Clients \cup {None}, n : Nat]

\* Types of the backends' streams and of the sessions; a session that forwards or
\* reads an answer has a backend, and a backend in use is used by one session.
TypeOK ==
  /\ srv \in [Backends -> [where : {"none", "idle", "used"}, broken : BOOLEAN, txn : BOOLEAN,
                           residue : SUBSET Clients, inq : Seq(Commands), outq : Seq(Packets),
                           torn : BOOLEAN]]
  /\ ses \in [Clients -> [pos : Positions, then : {"ready", "away"}, be : Backends \cup {None},
                          pinned : BOOLEAN, timed : BOOLEAN, kind : AllKinds, gone : BOOLEAN,
                          told : BOOLEAN, failed : BOOLEAN]]
  /\ sent \in [Clients -> Nat]
  /\ \A c \in Clients : ses[c].pos \in Positions \ {"away", "ready", "acquire"} => ses[c].be # None
  /\ \A b \in Backends :
       Cardinality({c \in Clients : ses[c].be = b}) = IF srv[b].where = "used" THEN 1 ELSE 0

\* A backend in the pool is in no transaction, keeps no session's state and has no
\* unread answer, unless the relay stopped in the middle of one of its answers.
IdleIsClean ==
  \A b \in Backends : srv[b].where = "idle" /\ ~srv[b].torn =>
    ~srv[b].txn /\ srv[b].residue = {} /\ srv[b].inq = <<>> /\ srv[b].outq = <<>>

\* What a client is about to be sent answers the command it is waiting for, with
\* the same exception.
AnswersMatch ==
  \A c \in Clients :
    ses[c].pos = "reading" /\ Arrived(c) /\ ~srv[ses[c].be].torn =>
      Incoming(c).by = c /\ Incoming(c).n = sent[c]

\* A session that is pinned, or was told that it is in a transaction and has had
\* no error since, keeps its backend until it ends, and the backend is in the
\* transaction the client was told of.
HeldBackendStays ==
  [][\A c \in Clients :
       LET told == ses[c].pos \in {"ready", "forward"} /\ ses[c].told /\ ~ses[c].failed IN
       /\ told => ses[c].be # None /\ (srv[ses[c].be].torn \/ srv[ses[c].be].txn)
       /\ (told \/ ses[c].pinned) /\ ses[c].be # None /\ ses'[c].pos # "away" =>
            ses'[c].be = ses[c].be]_vars

Busy(c) == ses[c].pos \notin {"away", "ready"}

\* The relay gets back to reading from its client, or ends, unless it waits for
\* the answer to a command that has none.
CommandsEnd ==
  \A c \in Clients :
    Busy(c) ~> ~Busy(c) \/ (ses[c].pos = "reading" /\ ses[c].kind = "stmtclose")
=============================================================================
