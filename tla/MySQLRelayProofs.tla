-------------------------- MODULE MySQLRelayProofs --------------------------
(***************************************************************************)
(* Proofs about MySQLRelay for any numbers of clients and backends, any    *)
(* kinds of commands and any bound on them.                                *)
(*                                                                         *)
(* The inductive invariant says, for each position of a session, what the  *)
(* two streams of its backend contain: nothing, the one command the relay  *)
(* forwarded, or what the relay has yet to read of its answer.  All of it  *)
(* is about backends on which the relay took no packet in the middle of an *)
(* answer for its end (torn).                                              *)
(***************************************************************************)
EXTENDS MySQLRelay, FiniteSetTheorems, SequenceTheorems, TLAPS

\* Only clients send what leaves session state behind.
Messages == {m \in Commands : m.by = None => m.op \in {"ROLLBACK", "RESET"}}

Servers ==
  [where : {"none", "idle", "used"}, broken : BOOLEAN, txn : BOOLEAN,
   residue : SUBSET Clients, inq : Seq(Messages), outq : Seq(Packets), torn : BOOLEAN]

Sessions ==
  [pos : Positions, then : {"ready", "away"}, be : Backends \cup {None}, pinned : BOOLEAN,
   timed : BOOLEAN, kind : AllKinds, gone : BOOLEAN, told : BOOLEAN, failed : BOOLEAN]

Types ==
  /\ srv \in [Backends -> Servers]
  /\ ses \in [Clients -> Sessions]
  /\ sent \in [Clients -> Nat]

-----------------------------------------------------------------------------
(* What the streams of a backend connection v contain *)

Quiet(v) == v.inq = <<>> /\ v.outq = <<>>

Fresh(v) == Quiet(v) /\ ~v.txn /\ v.residue = {}

Packet(type, last, trans, by, n) ==
  [type |-> type, last |-> last, trans |-> trans, by |-> by, n |-> n]

\* What the relay can have before it of an answer it has not torn.
Whole(q, trans, by, n) ==
  \/ \E type \in {"ok", "err"} : q = <<Packet(type, TRUE, trans, by, n)>>
  \/ \E type \in {"ok", "eof"} :
       q = <<Packet(type, FALSE, trans, by, n), Packet("data", FALSE, trans, by, n),
             Packet("eof", TRUE, trans, by, n)>>
  \/ q = <<Packet("data", FALSE, trans, by, n), Packet("eof", FALSE, trans, by, n),
           Packet("data", FALSE, trans, by, n), Packet("eof", TRUE, trans, by, n)>>

\* Nothing, one command of a client, or an answer to it.
Exchange(v, by, n) ==
  \/ Quiet(v)
  \/ v.outq = <<>> /\ \E op \in AllKinds : v.inq = <<[op |-> op, by |-> by, n |-> n]>>
  \/ v.inq = <<>> /\ Whole(v.outq, v.txn, by, n)

\* Nothing, the relay's own command op, or the OK that answers it.
OwnExchange(v, op) ==
  \/ Quiet(v)
  \/ v.outq = <<>> /\ v.inq = <<[op |-> op, by |-> None, n |-> 0]>>
  \/ v.inq = <<>> /\ v.outq = <<Packet("ok", TRUE, v.txn, None, 0)>>

\* The client was told that it is in a transaction and has had no error since.
InTxn(s) == s.told /\ ~s.failed

\* What a session s of client c, which has sent n commands, finds on its backend.
Held(c, s, v, n) ==
  /\ s.pos = "greeting" => Fresh(v)
  /\ s.pos \in {"ready", "forward"} => Quiet(v) /\ (InTxn(s) => v.txn)
  /\ s.pos = "reset" => Quiet(v)
  /\ s.pos = "reading" => Exchange(v, c, n)
  /\ s.pos = "draining" => OwnExchange(v, "ROLLBACK")
  /\ s.pos = "resetting" =>
       OwnExchange(v, "RESET") /\ (v.outq # <<>> => ~v.txn /\ v.residue = {})

\* Where a session holds a backend.  One that holds none, or is about to let its
\* backend go and carry on, is in no transaction it was told of.
Placed(s) ==
  /\ s.pos \in {"away", "acquire"} => s.be = None
  /\ s.pos \notin {"away", "acquire", "ready"} => s.be # None
  /\ s.be = None \/ s.pos = "greeting" => ~InTxn(s)
  /\ s.pos \in {"reset", "resetting"} /\ s.then = "ready" => ~InTxn(s) /\ ~s.pinned
  /\ s.pos = "draining" => s.then = "away"

Owns(c) ==
  ses[c].be # None =>
    /\ srv[ses[c].be].where = "used"
    /\ ~srv[ses[c].be].torn => Held(c, ses[c], srv[ses[c].be], sent[c])

\* A backend that is not used is fresh, and a lost one has nothing to execute.
Rests(v) ==
  /\ v.where # "used" /\ ~v.torn => Fresh(v)
  /\ v.broken => v.inq = <<>>

\* A backend that is marked as used is used by somebody: none is lost to the pool.
UsedIsHeld == \A b \in Backends : srv[b].where = "used" => \E c \in Clients : ses[c].be = b

Inv ==
  /\ Types
  /\ \A c \in Clients : Placed(ses[c]) /\ Owns(c)
  /\ \A c, d \in Clients : ses[c].be = ses[d].be /\ ses[c].be # None => c = d
  /\ UsedIsHeld
  /\ \A b \in Backends : Rests(srv[b])

-----------------------------------------------------------------------------
(* A step of one session, or of one backend, leaves the others as they are *)

\* A session moves and touches the backend it holds, takes or lets go.
LEMMA SessionMoves ==
  ASSUME Inv, NEW c \in Clients, NEW b \in Backends, NEW s \in Sessions, NEW v \in Servers,
         ses' = [ses EXCEPT ![c] = s], srv' = [srv EXCEPT ![b] = v], sent' = sent,
         ses[c].be = b \/ (ses[c].be = None /\ srv[b].where # "used"),
         Placed(s), Rests(v),
         \/ s.be = b /\ v.where = "used" /\ (~v.torn => Held(c, s, v, sent[c]))
         \/ s.be = None /\ v.where # "used"
  PROVE  Inv'
<1> USE DEF Inv
<1>0. b # None
  BY RelayAssumption
<1>1. Types'
  BY DEF Types
<1>2. /\ ses'[c] = s /\ \A d \in Clients \ {c} : ses'[d] = ses[d]
      /\ srv'[b] = v /\ \A a \in Backends \ {b} : srv'[a] = srv[a]
  BY DEF Types
<1>3. /\ \A d \in Clients \ {c} : ses[d].be # b
      /\ \A d \in Clients : ses[d].be \in Backends \cup {None}
  BY <1>0 DEF Owns, Types, Sessions
<1>4. ASSUME NEW d \in Clients PROVE Placed(ses[d])' /\ Owns(d)'
  <2>1. CASE d = c
    BY <1>0, <1>2, <2>1 DEF Owns
  <2>2. CASE d # c
    BY <1>2, <1>3, <2>2 DEF Owns
  <2> QED
    BY <2>1, <2>2
<1>5. (\A d, e \in Clients : ses[d].be = ses[e].be /\ ses[d].be # None => d = e)'
  BY <1>2, <1>3
<1>6. \A a \in Backends : Rests(srv'[a])
  BY <1>2
<1>7. ASSUME NEW a \in Backends, srv'[a].where = "used"
      PROVE  \E d \in Clients : ses'[d].be = a
  <2>1. CASE a = b
    BY <1>2, <1>7, <2>1
  <2>2. CASE a # b
    <3>1. \E d \in Clients : ses[d].be = a
      BY <1>2, <1>7, <2>2 DEF UsedIsHeld
    <3>2. ses[c].be # a
      BY <1>0, <2>2, RelayAssumption
    <3> QED
      BY <1>2, <3>1, <3>2
  <2> QED
    BY <2>1, <2>2
<1> QED
  BY <1>1, <1>4, <1>5, <1>6, <1>7 DEF UsedIsHeld

\* A session moves and leaves the backends alone.
LEMMA SessionStays ==
  ASSUME Inv, NEW c \in Clients, NEW s \in Sessions, NEW n \in Nat,
         ses' = [ses EXCEPT ![c] = s], srv' = srv, sent' = [sent EXCEPT ![c] = n],
         s.be = ses[c].be, Placed(s),
         s.be # None /\ ~srv[s.be].torn => Held(c, s, srv[s.be], n)
  PROVE  Inv'
<1> USE DEF Inv
<1>1. Types'
  BY DEF Types
<1>2. /\ ses'[c] = s /\ sent'[c] = n
      /\ \A d \in Clients \ {c} : ses'[d] = ses[d] /\ sent'[d] = sent[d]
  BY DEF Types
<1>3. ASSUME NEW d \in Clients PROVE Placed(ses[d])' /\ Owns(d)'
  <2>1. CASE d = c
    BY <1>2, <2>1 DEF Owns
  <2>2. CASE d # c
    BY <1>2, <2>2 DEF Owns
  <2> QED
    BY <2>1, <2>2
<1>4. (\A d, e \in Clients : ses[d].be = ses[e].be /\ ses[d].be # None => d = e)'
  BY <1>2
<1>5. \A d \in Clients : ses'[d].be = ses[d].be
  BY <1>2
<1>6. UsedIsHeld'
  BY <1>5 DEF UsedIsHeld
<1> QED
  BY <1>1, <1>3, <1>4, <1>6

\* A backend moves by itself, whoever holds it.
LEMMA BackendMoves ==
  ASSUME Inv, NEW b \in Backends, NEW v \in Servers,
         srv' = [srv EXCEPT ![b] = v], ses' = ses, sent' = sent,
         v.where = srv[b].where, v.torn <=> srv[b].torn, Rests(v),
         \A c \in Clients : Held(c, ses[c], srv[b], sent[c]) => Held(c, ses[c], v, sent[c])
  PROVE  Inv'
<1> USE DEF Inv
<1>1. Types'
  BY DEF Types
<1>2. srv'[b] = v /\ \A a \in Backends \ {b} : srv'[a] = srv[a]
  BY DEF Types
<1>3. \A d \in Clients : ses[d].be \in Backends \cup {None}
  BY DEF Types, Sessions
<1>4. ASSUME NEW d \in Clients PROVE Placed(ses[d])' /\ Owns(d)'
  <2>1. CASE ses[d].be = b
    BY <1>2, <2>1 DEF Owns
  <2>2. CASE ses[d].be # b
    BY <1>2, <1>3, <2>2 DEF Owns
  <2> QED
    BY <2>1, <2>2
<1>5. \A a \in Backends : Rests(srv'[a])
  BY <1>2
<1>6. UsedIsHeld'
  BY <1>2 DEF UsedIsHeld
<1> QED
  BY <1>1, <1>4, <1>5, <1>6

-----------------------------------------------------------------------------
(* The steps the handlers share *)

\* What the invariant says of one session and of the backend it holds.
LEMMA SessionFacts ==
  ASSUME Inv, NEW c \in Clients
  PROVE  /\ ses[c] \in Sessions /\ sent[c] \in Nat /\ Placed(ses[c])
         /\ ses[c].be # None =>
              /\ ses[c].be \in Backends /\ srv[ses[c].be] \in Servers
              /\ srv[ses[c].be].where = "used" /\ Rests(srv[ses[c].be])
              /\ ~srv[ses[c].be].torn => Held(c, ses[c], srv[ses[c].be], sent[c])
<1>1. ses[c] \in Sessions /\ sent[c] \in Nat
  BY DEF Inv, Types
<1>2. ses[c].be # None => ses[c].be \in Backends
  BY <1>1 DEF Sessions
<1> QED
  BY <1>1, <1>2 DEF Inv, Types, Owns

\* A session moves, sends nothing and leaves the backends alone.
LEMMA Stays ==
  ASSUME Inv, NEW c \in Clients, NEW s \in Sessions,
         ses' = [ses EXCEPT ![c] = s], srv' = srv, sent' = sent,
         s.be = ses[c].be, Placed(s),
         s.be # None /\ ~srv[s.be].torn => Held(c, s, srv[s.be], sent[c])
  PROVE  Inv'
<1>1. sent[c] \in Nat /\ sent' = [sent EXCEPT ![c] = sent[c]]
  BY DEF Inv, Types
<1> QED
  BY <1>1, SessionStays, Zenon

\* A new connection holds nothing, and a session that is away is placed.
LEMMA Blank ==
  /\ Unused \in Servers /\ Unused.where = "none" /\ Rests(Unused) /\ Fresh(Unused)
  /\ Away \in Sessions /\ Placed(Away) /\ Away.be = None
<1>1. Unused \in Servers
  BY DEF Unused, Servers
<1>2. Unused.where = "none" /\ Fresh(Unused) /\ Rests(Unused)
  BY DEF Unused, Fresh, Quiet, Rests
<1>3. Away \in Sessions
  BY DEF Away, Sessions, AllKinds, Positions
<1>4. Placed(Away) /\ Away.be = None
  BY DEF Away, Placed, InTxn
<1> QED
  BY <1>1, <1>2, <1>3, <1>4

\* The session closes its backend and ends.
LEMMA CloseAndEnd ==
  ASSUME Inv, NEW c \in Clients, ses[c].be # None, Close(ses[c].be), End(c), sent' = sent
  PROVE  Inv'
BY SessionFacts, Blank, SessionMoves, ses[c].be \in Backends, Zenon DEF Close, End

\* A session that holds no backend ends.
LEMMA EndWithout ==
  ASSUME Inv, NEW c \in Clients, ses[c].be = None, End(c), srv' = srv, sent' = sent
  PROVE  Inv'
BY Blank, Stays, Zenon DEF End

\* What two states of a session have in common.
Alike(s, r) == (InTxn(s) <=> InTxn(r)) /\ (s.pinned <=> r.pinned)

\* A session at another position, with another backend, or about to end.
AtPos(r, p) == [r EXCEPT !.pos = p]

WithBackend(r, p, b) == [r EXCEPT !.pos = p, !.be = b]

Ending(r, p) == [r EXCEPT !.pos = p, !.then = "away"]

\* What a session keeps when its position changes.
LEMMA GotoFields ==
  ASSUME NEW r \in Sessions, NEW p \in Positions
  PROVE  LET s == AtPos(r, p) IN
         s \in Sessions /\ s.pos = p /\ s.be = r.be /\ s.then = r.then /\ Alike(s, r)
<1> DEFINE s == AtPos(r, p)
<1>1. s \in Sessions /\ s.pos = p /\ s.be = r.be /\ s.then = r.then
  BY DEF Sessions, AtPos
<1>2. s.told = r.told
  BY DEF Sessions, AtPos
<1>3. s.failed = r.failed
  BY DEF Sessions, AtPos
<1>4. s.pinned = r.pinned
  BY DEF Sessions, AtPos
<1> HIDE DEF s
<1>5. Alike(s, r)
  BY <1>2, <1>3, <1>4 DEF InTxn, Alike
<1> QED
  BY <1>1, <1>5 DEF s

\* What a session keeps when it takes a backend or lets it go.
LEMMA BackendFields ==
  ASSUME NEW r \in Sessions, NEW p \in Positions, NEW b \in Backends \cup {None}
  PROVE  LET s == WithBackend(r, p, b) IN
         s \in Sessions /\ s.pos = p /\ s.be = b /\ s.then = r.then /\ Alike(s, r)
<1> DEFINE s == WithBackend(r, p, b)
<1>1. s \in Sessions /\ s.pos = p /\ s.be = b /\ s.then = r.then
  BY Zenon DEF Sessions, WithBackend
<1>2. s.told = r.told
  BY DEF Sessions, WithBackend
<1>3. s.failed = r.failed
  BY DEF Sessions, WithBackend
<1>4. s.pinned = r.pinned
  BY DEF Sessions, WithBackend
<1> HIDE DEF s
<1>5. Alike(s, r)
  BY <1>2, <1>3, <1>4 DEF InTxn, Alike
<1> QED
  BY <1>1, <1>5 DEF s

\* What a session keeps when it is about to end.
LEMMA EndingFields ==
  ASSUME NEW r \in Sessions, NEW p \in Positions
  PROVE  LET s == Ending(r, p) IN
         s \in Sessions /\ s.pos = p /\ s.be = r.be /\ s.then = "away" /\ Alike(s, r)
<1> DEFINE s == Ending(r, p)
<1>1. s \in Sessions /\ s.pos = p /\ s.be = r.be /\ s.then = "away"
  BY Zenon DEF Sessions, Ending
<1>2. s.told = r.told
  BY DEF Sessions, Ending
<1>3. s.failed = r.failed
  BY DEF Sessions, Ending
<1>4. s.pinned = r.pinned
  BY DEF Sessions, Ending
<1> HIDE DEF s
<1>5. Alike(s, r)
  BY <1>2, <1>3, <1>4 DEF InTxn, Alike
<1> QED
  BY <1>1, <1>5 DEF s

\* The session returns its backend to the pool or closes it, and carries on or ends.
LEMMA GiveUpBackend ==
  ASSUME Inv, NEW c \in Clients, NEW v \in Servers, ses[c].pos \in {"reset", "resetting"},
         srv' = [srv EXCEPT ![ses[c].be] = v], v.where # "used", Rests(v),
         LetGo(c), sent' = sent
  PROVE  Inv'
<1>1. ses[c].be \in Backends /\ ses[c] \in Sessions /\ Placed(ses[c])
  BY SessionFacts DEF Placed
<1>2. CASE ses' = [ses EXCEPT ![c] = Away]
  BY <1>1, <1>2, Blank, SessionMoves, Zenon
<1>3. CASE ses[c].then = "ready" /\ ses' = [ses EXCEPT ![c].pos = "ready", ![c].be = None]
  <2> DEFINE s == WithBackend(ses[c], "ready", None)
  <2>0. "ready" \in Positions
    BY DEF Positions
  <2>1. s \in Sessions /\ s.pos = "ready" /\ s.be = None /\ Alike(s, ses[c])
    BY <1>1, <2>0, BackendFields
  <2>2. ses' = [ses EXCEPT ![c] = s]
    BY <1>3, Zenon DEF WithBackend
  <2> HIDE DEF s
  <2>3. Placed(s)
    BY <1>1, <1>3, <2>1 DEF Placed, Alike
  <2> QED
    BY <1>1, <2>1, <2>2, <2>3, SessionMoves, Zenon
<1> QED
  BY <1>1, <1>2, <1>3 DEF LetGo, End

\* Short streams.
LEMMA AppendToNone == \A x : Append(<<>>, x) = <<x>>
OBVIOUS

\* What two states of a backend connection have in common.
Same(v, u) ==
  /\ v.where = u.where /\ (v.torn <=> u.torn) /\ (v.txn <=> u.txn) /\ v.residue = u.residue
  /\ (v.broken <=> u.broken)

\* A write of one message has left the backend as v.
Wrote(b, v, op, by, n) ==
  /\ Same(v, srv[b]) /\ v.outq = srv[b].outq /\ (Rests(srv[b]) /\ v.broken => v.inq = <<>>)
  /\ Quiet(srv[b]) => Quiet(v) \/ v.inq = <<[op |-> op, by |-> by, n |-> n]>>

\* What a write to a backend with empty streams leaves on them.
LEMMA WriteStarts ==
  ASSUME NEW b \in Backends, srv \in [Backends -> Servers],
         NEW op \in AllKinds \cup {"ROLLBACK", "RESET"},
         NEW by \in Clients \cup {None}, NEW n \in Nat, Write(b, op, by, n),
         by = None => op \in {"ROLLBACK", "RESET"}
  PROVE  \E v \in Servers : srv' = [srv EXCEPT ![b] = v] /\ Wrote(b, v, op, by, n)
<1> DEFINE m == [op |-> op, by |-> by, n |-> n]
           q == IF srv[b].broken THEN srv[b].inq ELSE Append(srv[b].inq, m)
           v == [srv[b] EXCEPT !.inq = q]
<1>1. m \in Messages
  BY DEF Commands, Messages
<1>2. srv[b] \in Servers
  OBVIOUS
<1>3. srv' = [srv EXCEPT ![b] = v]
  BY DEF Write
<1> HIDE DEF m
<1>4. /\ srv[b].inq = <<>> => q = <<>> \/ q = <<m>>
      /\ srv[b].broken => q = srv[b].inq
  BY AppendToNone, Zenon
<1>5. q \in Seq(Messages)
  <2>1. srv[b].inq \in Seq(Messages)
    BY <1>2 DEF Servers
  <2>2. Append(srv[b].inq, m) \in Seq(Messages)
    BY <1>1, <2>1, AppendProperties
  <2> QED
    BY <2>1, <2>2
<1> HIDE DEF q
<1>6. /\ v \in Servers /\ v.where = srv[b].where /\ v.outq = srv[b].outq
      /\ v.residue = srv[b].residue /\ v.inq = q
  BY <1>2, <1>5, Zenon DEF Servers
<1>7. v.torn = srv[b].torn
  BY <1>2 DEF Servers
<1>8. v.txn = srv[b].txn
  BY <1>2 DEF Servers
<1>9. v.broken = srv[b].broken
  BY <1>2 DEF Servers
<1> HIDE DEF v
<1>10. Same(v, srv[b])
  BY <1>6, <1>7, <1>8, <1>9 DEF Same
<1>11. Rests(srv[b]) /\ v.broken => v.inq = <<>>
  BY <1>4, <1>6, <1>9 DEF Rests
<1>12. Quiet(srv[b]) => Quiet(v) \/ v.inq = <<[op |-> op, by |-> by, n |-> n]>>
  BY <1>4, <1>6 DEF Quiet, m
<1> QED
  BY <1>3, <1>6, <1>10, <1>11, <1>12, Zenon DEF Wrote

-----------------------------------------------------------------------------
(* The steps of a backend *)

\* More on short streams.
LEMMA ConcatNone ==
  /\ <<>> \o <<>> = <<>>
  /\ \A w : <<>> \o <<w>> = <<w>>
  /\ \A w, x, y : <<>> \o <<w, x, y>> = <<w, x, y>>
  /\ \A w, x, y, z : <<>> \o <<w, x, y, z>> = <<w, x, y, z>>
OBVIOUS

\* A stream of one message.
LEMMA OneMessage == \A m : Head(<<m>>) = m /\ Tail(<<m>>) = <<>> /\ <<m>> # <<>>
OBVIOUS

\* Streams of the lengths that answers have.
LEMMA ShortStream ==
  ASSUME NEW S, NEW w \in S, NEW x \in S, NEW y \in S, NEW z \in S
  PROVE  /\ <<>> \in Seq(S) /\ <<w>> \in Seq(S)
         /\ <<w, x, y>> \in Seq(S) /\ <<w, x, y, z>> \in Seq(S)
OBVIOUS

\* What the server answers: nothing, or an answer that is whole.
LEMMA AnswerWhole ==
  ASSUME NEW b, NEW m
  PROVE  /\ Answer(b, m) = <<>> \/ Whole(Answer(b, m), TxnAfter(b, m.op), m.by, m.n)
         /\ m.op \in {"ROLLBACK", "RESET"} =>
              Answer(b, m) = <<Packet("ok", TRUE, TxnAfter(b, m.op), m.by, m.n)>>
<1> DEFINE P(type, last) == Packet(type, last, TxnAfter(b, m.op), m.by, m.n)
<1>1. CASE m.op = "stmtclose"
  BY <1>1 DEF Answer
<1>2. CASE m.op = "fail"
  BY <1>2, Zenon DEF Answer, Whole, Packet
<1>3. CASE m.op = "select"
  BY <1>3, Zenon DEF Answer, Whole, Packet
<1>4. CASE m.op = "prepare"
  BY <1>4, Zenon DEF Answer, Whole, Packet
<1>5. CASE m.op \notin {"stmtclose", "fail", "select", "prepare"}
  BY <1>5, Zenon DEF Answer, Whole, Packet
<1> QED
  BY <1>1, <1>2, <1>3, <1>4, <1>5, Zenon

\* Nothing in front of an answer.
LEMMA WholeStream ==
  ASSUME NEW q, NEW trans, NEW by, NEW n, Whole(q, trans, by, n)
  PROVE  <<>> \o q = q
BY ConcatNone DEF Whole

\* The types of what an executed message leaves.
LEMMA ExecuteTypes ==
  ASSUME NEW b \in Backends, srv[b] \in Servers, srv[b].inq # <<>>
  PROVE  LET m == Head(srv[b].inq) IN
         /\ m \in Messages
         /\ Tail(srv[b].inq) \in Seq(Messages)
         /\ srv[b].outq \o Answer(b, m) \in Seq(Packets)
         /\ TxnAfter(b, m.op) \in BOOLEAN
         /\ ResidueAfter(b, m) \in SUBSET Clients
<1> DEFINE m == Head(srv[b].inq)
<1>1. srv[b].inq \in Seq(Messages) /\ srv[b].outq \in Seq(Packets) /\ srv[b].residue \in SUBSET Clients
  BY DEF Servers
<1>2. srv[b].txn \in BOOLEAN
  BY DEF Servers
<1>3. m \in Messages /\ Tail(srv[b].inq) \in Seq(Messages)
  BY <1>1, HeadTailProperties
<1> HIDE DEF m
<1>4. TxnAfter(b, m.op) \in BOOLEAN
  BY <1>2, Zenon DEF TxnAfter
<1>5. ResidueAfter(b, m) \in SUBSET Clients
  BY <1>1, <1>3 DEF ResidueAfter, Messages, Commands
<1>6. Answer(b, m) \in Seq(Packets)
  <2> DEFINE t == TxnAfter(b, m.op)
  <2>1. m.by \in Clients \cup {None} /\ m.n \in Nat
    BY <1>3 DEF Messages, Commands
  <2>2. t \in BOOLEAN
    BY <1>4
  <2> HIDE DEF t
  <2>3. \A type \in {"ok", "err", "eof", "data"}, last \in BOOLEAN :
          Packet(type, last, t, m.by, m.n) \in Packets
    BY <2>1, <2>2 DEF Packet, Packets
  <2>4. ASSUME NEW q, Whole(q, t, m.by, m.n) PROVE q \in Seq(Packets)
    <3> DEFINE P(type, last) == Packet(type, last, t, m.by, m.n)
    <3>1. /\ P("ok", TRUE) \in Packets /\ P("err", TRUE) \in Packets /\ P("ok", FALSE) \in Packets
          /\ P("eof", FALSE) \in Packets /\ P("data", FALSE) \in Packets /\ P("eof", TRUE) \in Packets
      BY <2>3, Zenon
    <3>2. \/ q = <<P("ok", TRUE)>> \/ q = <<P("err", TRUE)>>
          \/ q = <<P("ok", FALSE), P("data", FALSE), P("eof", TRUE)>>
          \/ q = <<P("eof", FALSE), P("data", FALSE), P("eof", TRUE)>>
          \/ q = <<P("data", FALSE), P("eof", FALSE), P("data", FALSE), P("eof", TRUE)>>
      BY <2>4, Zenon DEF Whole
    <3> HIDE DEF P
    <3> QED
      BY <3>1, <3>2, ShortStream, Zenon
  <2>5. <<>> \in Seq(Packets)
    BY <2>3, ShortStream
  <2> QED
    BY <2>4, <2>5, AnswerWhole, Zenon DEF t
<1>7. srv[b].outq \o Answer(b, m) \in Seq(Packets)
  BY <1>1, <1>6, ConcatProperties
<1> QED
  BY <1>3, <1>4, <1>5, <1>7 DEF m

\* The backend is left as w by the execution of its first message.
Executed(b, w) ==
  /\ w.inq = Tail(srv[b].inq) /\ w.outq = srv[b].outq \o Answer(b, Head(srv[b].inq))
  /\ w.txn = TxnAfter(b, Head(srv[b].inq).op)
  /\ w.residue = ResidueAfter(b, Head(srv[b].inq))

\* The one command of a client is executed.
LEMMA ExecuteOne ==
  ASSUME NEW b \in Backends, NEW w, NEW by, NEW n, srv[b].inq # <<>>,
         Exchange(srv[b], by, n), Executed(b, w)
  PROVE  Exchange(w, by, n)
<1>1. PICK op \in AllKinds :
        srv[b].outq = <<>> /\ srv[b].inq = <<[op |-> op, by |-> by, n |-> n]>>
  BY Zenon DEF Exchange, Quiet
<1> DEFINE m == [op |-> op, by |-> by, n |-> n]
<1>2. m.op = op /\ m.by = by /\ m.n = n
  OBVIOUS
<1>3. srv[b].inq = <<m>>
  BY <1>1
<1> HIDE DEF m
<1>4. Head(srv[b].inq) = m /\ w.inq = <<>>
  BY <1>3, OneMessage DEF Executed
<1>5. w.txn = TxnAfter(b, m.op) /\ w.outq = <<>> \o Answer(b, m)
  BY <1>1, <1>4 DEF Executed
<1>6. CASE Answer(b, m) = <<>>
  BY <1>4, <1>5, <1>6, ConcatNone DEF Exchange, Quiet
<1>7. CASE Whole(Answer(b, m), TxnAfter(b, m.op), m.by, m.n)
  <2>1. w.outq = Answer(b, m)
    BY <1>5, <1>7, WholeStream
  <2>2. Whole(w.outq, w.txn, by, n)
    BY <1>2, <1>5, <1>7, <2>1
  <2> QED
    BY <1>4, <2>2 DEF Exchange
<1> QED
  BY <1>6, <1>7, AnswerWhole, Zenon

\* The relay's own command is executed.
LEMMA ExecuteOwn ==
  ASSUME NEW b \in Backends, NEW w, NEW op \in {"ROLLBACK", "RESET"}, srv[b].inq # <<>>,
         OwnExchange(srv[b], op), Executed(b, w)
  PROVE  /\ OwnExchange(w, op)
         /\ op = "RESET" => ~w.txn /\ w.residue = {}
<1> DEFINE m == [op |-> op, by |-> None, n |-> 0]
<1>1. srv[b].outq = <<>> /\ srv[b].inq = <<m>>
  BY Zenon DEF OwnExchange, Quiet
<1>2. m.op = op /\ m.by = None /\ m.n = 0
  OBVIOUS
<1> HIDE DEF m
<1>3. Head(srv[b].inq) = m /\ w.inq = <<>>
  BY <1>1, OneMessage DEF Executed
<1>4. w.txn = TxnAfter(b, op) /\ w.outq = <<>> \o Answer(b, m) /\ w.residue = ResidueAfter(b, m)
  BY <1>1, <1>2, <1>3 DEF Executed
<1>5. Answer(b, m) = <<Packet("ok", TRUE, TxnAfter(b, op), None, 0)>>
  BY <1>2, AnswerWhole, Zenon
<1>6. w.outq = <<Packet("ok", TRUE, w.txn, None, 0)>>
  BY <1>4, <1>5, ConcatNone
<1>7. op = "RESET" => ~w.txn /\ w.residue = {}
  BY <1>2, <1>4 DEF TxnAfter, ResidueAfter
<1> QED
  BY <1>3, <1>6, <1>7 DEF OwnExchange

\* Execute answers the command of an exchange.
LEMMA ExecuteKeeps == ASSUME Inv, NEW b \in Backends, Execute(b) PROVE Inv'
<1> DEFINE i == Tail(srv[b].inq)
           o == srv[b].outq \o Answer(b, Head(srv[b].inq))
           t == TxnAfter(b, Head(srv[b].inq).op)
           r == ResidueAfter(b, Head(srv[b].inq))
           v == [srv[b] EXCEPT !.inq = i, !.outq = o, !.txn = t, !.residue = r]
<1>1. srv[b] \in Servers /\ srv[b].inq # <<>> /\ Rests(srv[b])
  BY DEF Inv, Types, Execute
<1>2. srv' = [srv EXCEPT ![b] = v] /\ ses' = ses /\ sent' = sent
  BY Zenon DEF Execute
<1>3. i \in Seq(Messages) /\ o \in Seq(Packets) /\ t \in BOOLEAN /\ r \in SUBSET Clients
  BY <1>1, ExecuteTypes
<1> HIDE DEF i, o, t, r
<1>4. /\ v \in Servers /\ v.where = srv[b].where /\ v.inq = i /\ v.outq = o /\ v.residue = r
  BY <1>1, <1>3, Zenon DEF Servers
<1>5. v.txn = t
  BY <1>1, <1>3 DEF Servers
<1>6. v.torn = srv[b].torn
  BY <1>1, <1>3 DEF Servers
<1>7. v.broken = srv[b].broken
  BY <1>1, <1>3 DEF Servers
<1> HIDE DEF v
<1>8. Executed(b, v)
  BY <1>4, <1>5 DEF Executed, i, o, t, r
<1>9. ~Quiet(srv[b]) /\ ~srv[b].broken
  BY <1>1 DEF Quiet, Rests
<1>10. Rests(v)
  BY <1>1, <1>4, <1>6, <1>7, <1>9 DEF Rests, Fresh
<1>11. ASSUME NEW c \in Clients, Held(c, ses[c], srv[b], sent[c])
       PROVE  Held(c, ses[c], v, sent[c])
  <2>1. ses[c].pos = "reading" => Exchange(v, c, sent[c])
    BY <1>1, <1>8, <1>11, ExecuteOne DEF Held
  <2>2. ses[c].pos = "draining" => OwnExchange(v, "ROLLBACK")
    BY <1>1, <1>8, <1>11, ExecuteOwn DEF Held
  <2>3. ses[c].pos = "resetting" => OwnExchange(v, "RESET") /\ ~v.txn /\ v.residue = {}
    BY <1>1, <1>8, <1>11, ExecuteOwn DEF Held
  <2> QED
    BY <1>9, <1>11, <2>1, <2>2, <2>3 DEF Held, Fresh
<1> QED
  BY <1>2, <1>4, <1>6, <1>10, <1>11, BackendMoves, Zenon

Lost(r, x, e) == [r EXCEPT !.broken = x, !.inq = e]

\* The fields BackendLost leaves alone.
LEMMA LostFields ==
  ASSUME NEW r \in Servers, NEW x \in BOOLEAN, NEW e \in Seq(Messages)
  PROVE  LET v == Lost(r, x, e) IN
         /\ v \in Servers /\ v.where = r.where /\ v.inq = e /\ v.outq = r.outq
         /\ v.residue = r.residue /\ (v.txn <=> r.txn) /\ (v.torn <=> r.torn) /\ v.txn = r.txn
<1> DEFINE v == Lost(r, x, e)
<1>1. /\ v \in Servers /\ v.where = r.where /\ v.inq = e /\ v.outq = r.outq
      /\ v.residue = r.residue
  BY Zenon DEF Servers, Lost
<1>2. v.txn = r.txn
  BY DEF Servers, Lost
<1>3. v.torn = r.torn
  BY DEF Servers, Lost
<1> HIDE DEF v
<1> QED
  BY <1>1, <1>2, <1>3 DEF v

\* BackendLost empties the stream to the backend; what it has sent stays.
LEMMA BackendLostKeeps == ASSUME Inv, NEW b \in Backends, BackendLost(b) PROVE Inv'
<1> DEFINE v == Lost(srv[b], TRUE, <<>>)
<1>1. srv[b] \in Servers /\ Rests(srv[b])
  BY DEF Inv, Types
<1>2. srv' = [srv EXCEPT ![b] = v] /\ ses' = ses /\ sent' = sent
  BY Zenon DEF BackendLost, Lost
<1>3. <<>> \in Seq(Messages)
  <2>1. \A S : <<>> \in Seq(S)
    OBVIOUS
  <2> QED
    BY <2>1
<1>4. /\ v \in Servers /\ v.where = srv[b].where /\ v.inq = <<>> /\ v.outq = srv[b].outq
      /\ v.residue = srv[b].residue /\ (v.txn <=> srv[b].txn) /\ (v.torn <=> srv[b].torn)
      /\ v.txn = srv[b].txn
  BY <1>1, <1>3, LostFields, TRUE \in BOOLEAN, Zenon
<1> HIDE DEF v
<1>5. Rests(v)
  BY <1>1, <1>4 DEF Rests, Fresh, Quiet
<1>6. ASSUME NEW c \in Clients, Held(c, ses[c], srv[b], sent[c])
      PROVE  Held(c, ses[c], v, sent[c])
  <2>1. \A by, n : Exchange(srv[b], by, n) => Exchange(v, by, n)
    BY <1>4 DEF Exchange, Quiet
  <2>2. \A op : OwnExchange(srv[b], op) => OwnExchange(v, op)
    BY <1>4, Zenon DEF OwnExchange, Quiet
  <2> QED
    BY <1>4, <1>6, <2>1, <2>2 DEF Held, Fresh, Quiet
<1> QED
  BY <1>2, <1>4, <1>5, <1>6, BackendMoves, Zenon

-----------------------------------------------------------------------------
(* Reading a packet *)

\* The first packet of the answers' lengths.
LEMMA FirstAndRest ==
  /\ \A w : Head(<<w>>) = w /\ Tail(<<w>>) = <<>>
  /\ \A w, x, y : Head(<<w, x, y>>) = w
  /\ \A w, x, y, z : Head(<<w, x, y, z>>) = w /\ Tail(<<w, x, y, z>>) = <<x, y, z>>
OBVIOUS

FirstOf(q, trans, by, n) ==
  LET p == Head(q) IN
  /\ p.by = by /\ p.n = n /\ (p.trans <=> trans)
  /\ p.type # "data" /\ p.last => Tail(q) = <<>>
  /\ p.type = "data" => Whole(Tail(q), trans, by, n)

\* The first packet of an answer: it answers the command, carries the server's
\* transaction state, and what comes after it is nothing when it is the last one.
LEMMA WholeHead ==
  ASSUME NEW q, NEW trans, NEW by, NEW n, Whole(q, trans, by, n)
  PROVE  FirstOf(q, trans, by, n)
<1> DEFINE ok == Packet("ok", TRUE, trans, by, n)
           err == Packet("err", TRUE, trans, by, n)
           head == Packet("ok", FALSE, trans, by, n)
           data == Packet("data", FALSE, trans, by, n)
           mid == Packet("eof", FALSE, trans, by, n)
           eof == Packet("eof", TRUE, trans, by, n)
           Ours(p) == p.by = by /\ p.n = n /\ (p.trans <=> trans)
<1>1. Ours(ok) /\ Ours(err) /\ Ours(head) /\ Ours(data) /\ Ours(mid)
  BY DEF Packet
<1>2. /\ ok.type # "data" /\ err.type # "data" /\ head.type # "data" /\ mid.type # "data"
      /\ data.type = "data" /\ ~head.last /\ ~data.last /\ ~mid.last
  BY DEF Packet
<1>3. \/ q = <<ok>> \/ q = <<err>> \/ q = <<head, data, eof>> \/ q = <<mid, data, eof>>
      \/ q = <<data, mid, data, eof>>
  BY Zenon DEF Whole
<1>4. Whole(<<mid, data, eof>>, trans, by, n)
  BY DEF Whole
<1> HIDE DEF ok, err, head, data, mid, eof
<1>5. \/ Head(q) \in {ok, err} /\ Tail(q) = <<>>
      \/ Head(q) \in {head, mid}
      \/ Head(q) = data /\ Tail(q) = <<mid, data, eof>>
  <2>1. CASE q = <<ok>>
    BY <2>1, FirstAndRest
  <2>2. CASE q = <<err>>
    BY <2>2, FirstAndRest
  <2>3. CASE q = <<head, data, eof>>
    BY <2>3, FirstAndRest
  <2>4. CASE q = <<mid, data, eof>>
    BY <2>4, FirstAndRest
  <2>5. CASE q = <<data, mid, data, eof>>
    BY <2>5, FirstAndRest
  <2> QED
    BY <1>3, <2>1, <2>2, <2>3, <2>4, <2>5
<1> QED
  BY <1>1, <1>2, <1>4, <1>5, Zenon DEF FirstOf

Taken(r, x) == [r EXCEPT !.outq = Tail(r.outq), !.torn = x]

\* What reading a packet changes of a backend connection.
LEMMA TakenFields ==
  ASSUME NEW r \in Servers, NEW x \in BOOLEAN, r.outq # <<>>
  PROVE  LET v == Taken(r, x) IN
         /\ v \in Servers /\ v.where = r.where /\ v.inq = r.inq /\ v.outq = Tail(r.outq)
         /\ v.residue = r.residue /\ v.txn = r.txn /\ (v.torn <=> x) /\ (v.broken <=> r.broken)
<1> DEFINE q == Tail(r.outq)
           v == [r EXCEPT !.outq = q, !.torn = x]
<1>1. q \in Seq(Packets)
  <2>1. r.outq \in Seq(Packets)
    BY DEF Servers
  <2> QED
    BY <2>1, HeadTailProperties
<1>2. v = Taken(r, x) /\ q = Tail(r.outq)
  BY DEF Taken
<1> HIDE DEF q
<1>3. v \in Servers /\ v.where = r.where /\ v.inq = r.inq /\ v.outq = q /\ v.residue = r.residue
  BY <1>1, Zenon DEF Servers
<1>4. v.txn = r.txn
  BY DEF Servers
<1>5. v.torn = x
  BY DEF Servers
<1>6. v.broken = r.broken
  BY DEF Servers
<1> HIDE DEF v
<1> QED
  BY <1>2, <1>3, <1>4, <1>5, <1>6

\* The answer to the relay's own command is one OK.
LEMMA OwnHead ==
  ASSUME NEW v, NEW op, OwnExchange(v, op), v.outq # <<>>
  PROVE  /\ v.inq = <<>> /\ Tail(v.outq) = <<>>
         /\ Head(v.outq).type = "ok" /\ Head(v.outq).last
<1> DEFINE p == Packet("ok", TRUE, v.txn, None, 0)
<1>1. v.inq = <<>> /\ v.outq = <<p>>
  BY Zenon DEF OwnExchange, Quiet
<1>2. p.type = "ok" /\ p.last
  BY DEF Packet
<1> HIDE DEF p
<1> QED
  BY <1>1, <1>2, FirstAndRest

\* One packet has been read from the backend, which left it as v.
TookFirst(b, v, done) ==
  /\ v.where = srv[b].where /\ v.inq = srv[b].inq /\ v.outq = Tail(srv[b].outq)
  /\ v.txn = srv[b].txn /\ v.residue = srv[b].residue
  /\ v.torn <=> srv[b].torn \/ (done /\ ~Head(srv[b].outq).last)
  /\ Rests(srv[b]) /\ srv[b].where = "used" => Rests(v)

\* What reading a packet leaves.
LEMMA TakeLeaves ==
  ASSUME NEW b \in Backends, srv \in [Backends -> Servers], srv[b].outq # <<>>,
         NEW done \in BOOLEAN, Take(b, done)
  PROVE  \E v \in Servers : srv' = [srv EXCEPT ![b] = v] /\ TookFirst(b, v, done)
<1> DEFINE x == srv[b].torn \/ (done /\ ~Head(srv[b].outq).last)
           v == Taken(srv[b], x)
<1>1. x \in BOOLEAN
  OBVIOUS
<1>2. srv' = [srv EXCEPT ![b] = v]
  BY Zenon DEF Take, Taken
<1>3. x <=> srv[b].torn \/ (done /\ ~Head(srv[b].outq).last)
  OBVIOUS
<1> HIDE DEF x
<1>4. /\ v \in Servers /\ v.where = srv[b].where /\ v.inq = srv[b].inq
      /\ v.outq = Tail(srv[b].outq) /\ v.residue = srv[b].residue /\ v.txn = srv[b].txn
      /\ (v.torn <=> x) /\ (v.broken <=> srv[b].broken)
  BY <1>1, TakenFields
<1> HIDE DEF v
<1> QED
  BY <1>2, <1>3, <1>4, Zenon DEF TookFirst, Rests

-----------------------------------------------------------------------------
(* The steps of a session *)

Takes(c, b, p) ==
  /\ srv' = [srv EXCEPT ![b].where = "used"]
  /\ ses' = [ses EXCEPT ![c].pos = p, ![c].be = b]

\* A session gets a backend from the pool, at its start or for a command.
LEMMA Acquires ==
  ASSUME Inv, NEW c \in Clients, NEW b \in Backends, NEW p \in {"greeting", "forward"},
         ses[c].pos \in {"away", "acquire"}, srv[b].where # "used", Takes(c, b, p), sent' = sent
  PROVE  Inv'
<1> DEFINE v == [srv[b] EXCEPT !.where = "used"]
           s == WithBackend(ses[c], p, b)
<1>1. ses[c] \in Sessions /\ Placed(ses[c]) /\ srv[b] \in Servers /\ Rests(srv[b])
  BY SessionFacts DEF Inv, Types
<1>2. ses[c].be = None /\ ~InTxn(ses[c])
  BY <1>1 DEF Placed
<1>3. /\ v \in Servers /\ v.where = "used" /\ v.inq = srv[b].inq /\ v.outq = srv[b].outq
      /\ v.residue = srv[b].residue
  BY <1>1, SMTT(30) DEF Servers
<1>4. v.torn = srv[b].torn
  BY <1>1 DEF Servers
<1>5. v.txn = srv[b].txn
  BY <1>1 DEF Servers
<1>6. v.broken = srv[b].broken
  BY <1>1 DEF Servers
<1>7. p \in Positions /\ b \in Backends \cup {None}
  BY DEF Positions
<1>8. s \in Sessions /\ s.pos = p /\ s.be = b /\ Alike(s, ses[c])
  BY <1>1, <1>7, BackendFields
<1>9. srv' = [srv EXCEPT ![b] = v] /\ ses' = [ses EXCEPT ![c] = s]
  BY Zenon DEF Takes, WithBackend
<1> HIDE DEF v, s
<1>10. Placed(s)
  BY <1>2, <1>8, RelayAssumption DEF Placed, Alike
<1>11. ~v.torn => Held(c, s, v, sent[c])
  BY <1>1, <1>2, <1>3, <1>4, <1>5, <1>8 DEF Held, Fresh, Quiet, Rests, Alike
<1>12. Rests(v)
  BY <1>1, <1>3, <1>6 DEF Rests
<1> QED
  BY <1>2, <1>3, <1>8, <1>9, <1>10, <1>11, <1>12, SessionMoves, Zenon

\* Connect.
LEMMA ConnectKeeps == ASSUME Inv, NEW c \in Clients, Connect(c) PROVE Inv'
<1>1. PICK b \in Backends : srv[b].where # "used" /\ Takes(c, b, "greeting")
  BY Zenon DEF Connect, Takes
<1> QED
  BY <1>1, Acquires DEF Connect

\* Reacquire.
LEMMA ReacquireKeeps == ASSUME Inv, NEW c \in Clients, Reacquire(c) PROVE Inv'
<1>1. ses[c].be = None /\ ses[c].pos = "acquire" /\ sent' = sent
  BY SessionFacts DEF Reacquire, Placed
<1>2. ASSUME NEW b \in Backends, srv[b].where # "used", Takes(c, b, "forward") PROVE Inv'
  BY <1>1, <1>2, Acquires
<1> QED
  BY <1>1, <1>2, EndWithout DEF Reacquire, Takes

\* Greet: the fresh backend is kept.
LEMMA GreetKeeps == ASSUME Inv, NEW c \in Clients, Greet(c) PROVE Inv'
<1> DEFINE s == AtPos(ses[c], "ready")
<1>1. /\ ses[c] \in Sessions /\ Placed(ses[c]) /\ ses[c].pos = "greeting" /\ ses[c].be # None
      /\ sent' = sent
  BY SessionFacts DEF Greet, Placed
<1>2. CASE Close(ses[c].be) /\ End(c)
  BY <1>1, <1>2, CloseAndEnd
<1>3. CASE Goto(c, "ready") /\ srv' = srv
  <2>1. "ready" \in Positions
    BY DEF Positions
  <2>2. s \in Sessions /\ s.pos = "ready" /\ s.be = ses[c].be /\ Alike(s, ses[c])
    BY <1>1, <2>1, GotoFields
  <2>3. ses' = [ses EXCEPT ![c] = s]
    BY <1>3 DEF Goto, AtPos
  <2> HIDE DEF s
  <2>4. Placed(s)
    BY <1>1, <2>2 DEF Placed, Alike
  <2>5. ~srv[ses[c].be].torn => Held(c, s, srv[ses[c].be], sent[c])
    BY <1>1, <2>2, SessionFacts DEF Held, Placed, Alike, Fresh
  <2> QED
    BY <1>1, <1>3, <2>2, <2>3, <2>4, <2>5, Stays, Zenon
<1> QED
  BY <1>2, <1>3 DEF Greet

\* A session that is to end has its backend reset.
LEMMA ResetsToEnd ==
  ASSUME Inv, NEW c \in Clients, ses[c].pos = "ready", ses[c].be # None,
         ses' = [ses EXCEPT ![c] = Ending(ses[c], "reset")], srv' = srv, sent' = sent
  PROVE  Inv'
<1> DEFINE s == Ending(ses[c], "reset")
<1>1. "reset" \in Positions /\ ses[c] \in Sessions
  BY SessionFacts DEF Positions
<1>2. s \in Sessions /\ s.pos = "reset" /\ s.be = ses[c].be /\ s.then = "away"
  BY <1>1, EndingFields
<1> HIDE DEF s
<1>3. Placed(s)
  BY <1>2 DEF Placed
<1>4. ~srv[ses[c].be].torn => Held(c, s, srv[ses[c].be], sent[c])
  BY <1>2, SessionFacts DEF Held
<1> QED
  BY <1>2, <1>3, <1>4, Stays, Zenon DEF s

\* Quit.
LEMMA QuitKeeps == ASSUME Inv, NEW c \in Clients, Quit(c) PROVE Inv'
BY EndWithout, ResetsToEnd, Zenon DEF Quit, Ending

\* ReadCommand: over empty streams.
LEMMA ReadCommandKeeps == ASSUME Inv, NEW c \in Clients, ReadCommand(c) PROVE Inv'
<1>1. PICK k \in Kinds :
        ses' = [ses EXCEPT ![c].kind = k, ![c].pinned = @ \/ Pins(k),
                           ![c].pos = IF ses[c].be = None THEN "acquire" ELSE "forward"]
  BY Zenon DEF ReadCommand
<1> DEFINE p == IF ses[c].be = None THEN "acquire" ELSE "forward"
           x == ses[c].pinned \/ Pins(k)
           s == [ses[c] EXCEPT !.kind = k, !.pinned = x, !.pos = p]
<1>2. ses[c] \in Sessions /\ Placed(ses[c]) /\ ses[c].pos = "ready" /\ sent[c] + 1 \in Nat
  BY SessionFacts DEF ReadCommand
<1>3. k \in AllKinds /\ p \in Positions /\ x \in BOOLEAN
  BY RelayAssumption DEF Positions
<1>4. sent' = [sent EXCEPT ![c] = sent[c] + 1] /\ srv' = srv
  BY DEF ReadCommand
<1>5. ses' = [ses EXCEPT ![c] = s]
  BY <1>1, Zenon
<1>6. (p = "acquire" /\ ses[c].be = None) \/ (p = "forward" /\ ses[c].be # None)
  OBVIOUS
<1> HIDE DEF p, x
<1>7. s \in Sessions /\ s.pos = p /\ s.be = ses[c].be
  BY <1>2, <1>3, Zenon DEF Sessions
<1>8. s.told = ses[c].told
  BY <1>2 DEF Sessions
<1>9. s.failed = ses[c].failed
  BY <1>2 DEF Sessions
<1> HIDE DEF s
<1>10. InTxn(s) <=> InTxn(ses[c])
  BY <1>8, <1>9 DEF InTxn
<1>11. Placed(s)
  BY <1>2, <1>6, <1>7, <1>10 DEF Placed
<1>12. ses[c].be # None /\ ~srv[ses[c].be].torn => Held(c, s, srv[ses[c].be], sent[c] + 1)
  BY <1>2, <1>6, <1>7, <1>10, SessionFacts DEF Held
<1> QED
  BY <1>2, <1>4, <1>5, <1>7, <1>11, <1>12, SessionStays, Zenon

\* A session writes one command over empty streams: the client's, or one of its own.
LEMMA WritesOne ==
  ASSUME Inv, NEW c \in Clients, NEW s \in Sessions, ses[c].be # None, s.be = ses[c].be, Placed(s),
         NEW op \in AllKinds \cup {"ROLLBACK", "RESET"}, NEW by \in Clients \cup {None}, NEW n \in Nat,
         Write(ses[c].be, op, by, n), ses' = [ses EXCEPT ![c] = s], sent' = sent,
         ses[c].pos \in {"ready", "forward", "reset"},
         \/ s.pos = "reading" /\ op \in AllKinds /\ by = c /\ n = sent[c]
         \/ s.pos = "draining" /\ op = "ROLLBACK" /\ by = None /\ n = 0
         \/ s.pos = "resetting" /\ op = "RESET" /\ by = None /\ n = 0
  PROVE  Inv'
<1> DEFINE b == ses[c].be
<1>1. /\ b \in Backends /\ srv \in [Backends -> Servers] /\ srv[b].where = "used"
      /\ Rests(srv[b]) /\ c # None
  BY SessionFacts, RelayAssumption DEF Inv, Types
<1>2. PICK v \in Servers : srv' = [srv EXCEPT ![b] = v] /\ Wrote(b, v, op, by, n)
  BY <1>1, WriteStarts, Zenon
<1>3. v.where = "used" /\ (v.torn <=> srv[b].torn) /\ Rests(v)
  BY <1>1, <1>2 DEF Wrote, Same, Rests
<1>4. ASSUME ~srv[b].torn PROVE Held(c, s, v, sent[c])
  <2>1. Quiet(srv[b])
    BY <1>1, <1>4, SessionFacts DEF Held
  <2>2. v.outq = <<>> /\ (v.inq = <<>> \/ v.inq = <<[op |-> op, by |-> by, n |-> n]>>)
    BY <1>2, <2>1 DEF Wrote, Quiet
  <2>3. s.pos = "reading" => Exchange(v, c, sent[c])
    BY <2>2 DEF Exchange, Quiet
  <2>4. s.pos \in {"draining", "resetting"} => OwnExchange(v, op)
    BY <2>2 DEF OwnExchange, Quiet
  <2> QED
    BY <2>2, <2>3, <2>4 DEF Held
<1> QED
  BY <1>1, <1>2, <1>3, <1>4, SessionMoves, Zenon

\* Disconnected: ROLLBACK and reset, or the reset alone.
LEMMA DisconnectedKeeps == ASSUME Inv, NEW c \in Clients, Disconnected(c) PROVE Inv'
<1>1. ses[c].pos = "ready" /\ sent' = sent /\ ses[c] \in Sessions
  BY SessionFacts DEF Disconnected
<1>2. CASE ses[c].be = None /\ End(c) /\ srv' = srv
  BY <1>1, <1>2, EndWithout
<1>3. CASE /\ ses[c].be # None /\ Write(ses[c].be, "ROLLBACK", None, 0)
           /\ ses' = [ses EXCEPT ![c].pos = "draining", ![c].then = "away"]
  <2> DEFINE s == Ending(ses[c], "draining")
  <2>1. "draining" \in Positions /\ 0 \in Nat
    BY DEF Positions
  <2>2. s \in Sessions /\ s.pos = "draining" /\ s.be = ses[c].be /\ s.then = "away"
    BY <1>1, <2>1, EndingFields
  <2>3. ses' = [ses EXCEPT ![c] = s]
    BY <1>3, Zenon DEF Ending
  <2> HIDE DEF s
  <2>4. Placed(s)
    BY <1>3, <2>2 DEF Placed
  <2> QED
    BY <1>1, <1>3, <2>1, <2>2, <2>3, <2>4, WritesOne, Zenon
<1>4. CASE /\ ses[c].be # None /\ srv' = srv
           /\ ses' = [ses EXCEPT ![c].pos = "reset", ![c].then = "away"]
  BY <1>1, <1>4, ResetsToEnd, Zenon DEF Ending
<1> QED
  BY <1>2, <1>3, <1>4 DEF Disconnected

\* Forward: the command is the only one on the backend's streams.
LEMMA ForwardKeeps == ASSUME Inv, NEW c \in Clients, Forward(c) PROVE Inv'
<1>1. /\ ses[c].pos = "forward" /\ ses[c].be # None /\ ses[c] \in Sessions /\ sent' = sent
      /\ sent[c] \in Nat /\ ses[c].kind \in AllKinds
  BY SessionFacts DEF Forward, Placed, Sessions
<1>2. CASE Close(ses[c].be) /\ End(c)
  BY <1>1, <1>2, CloseAndEnd
<1>3. ASSUME NEW x \in BOOLEAN, Write(ses[c].be, ses[c].kind, c, sent[c]),
             ses' = [ses EXCEPT ![c].pos = "reading", ![c].timed = x]
      PROVE  Inv'
  <2> DEFINE s == [ses[c] EXCEPT !.pos = "reading", !.timed = x]
  <2>1. s \in Sessions /\ s.pos = "reading" /\ s.be = ses[c].be
    BY <1>1, Zenon DEF Sessions, Positions
  <2>2. ses' = [ses EXCEPT ![c] = s]
    BY <1>3, Zenon
  <2> HIDE DEF s
  <2>3. Placed(s)
    BY <1>1, <2>1 DEF Placed
  <2> QED
    BY <1>1, <1>3, <2>1, <2>2, <2>3, WritesOne, Zenon
<1> QED
  BY <1>2, <1>3, TRUE \in BOOLEAN, Zenon DEF Forward

\* SendReset.
LEMMA SendResetKeeps == ASSUME Inv, NEW c \in Clients, SendReset(c) PROVE Inv'
<1>1. /\ ses[c].pos = "reset" /\ ses[c].be # None /\ ses[c] \in Sessions /\ Placed(ses[c])
      /\ sent' = sent
  BY SessionFacts DEF SendReset, Placed
<1>2. CASE Close(ses[c].be) /\ LetGo(c)
  BY <1>1, <1>2, Blank, GiveUpBackend, Zenon DEF Close
<1>3. CASE Write(ses[c].be, "RESET", None, 0) /\ Goto(c, "resetting")
  <2> DEFINE s == AtPos(ses[c], "resetting")
  <2>1. "resetting" \in Positions /\ 0 \in Nat
    BY DEF Positions
  <2>2. s \in Sessions /\ s.pos = "resetting" /\ s.be = ses[c].be /\ s.then = ses[c].then
        /\ Alike(s, ses[c])
    BY <1>1, <2>1, GotoFields
  <2>3. ses' = [ses EXCEPT ![c] = s]
    BY <1>3 DEF Goto, AtPos
  <2> HIDE DEF s
  <2>4. Placed(s)
    BY <1>1, <2>2 DEF Placed, Alike
  <2> QED
    BY <1>1, <1>3, <2>1, <2>2, <2>3, <2>4, WritesOne, Zenon
<1> QED
  BY <1>2, <1>3 DEF SendReset

\* ReadReset: what it returns to the pool has executed RESET CONNECTION.
LEMMA ReadResetKeeps == ASSUME Inv, NEW c \in Clients, ReadReset(c) PROVE Inv'
<1> DEFINE b == ses[c].be
           q == Tail(srv[b].outq)
           x == srv[b].torn \/ ~Incoming(c).last
           v == [srv[b] EXCEPT !.outq = q, !.where = "idle", !.torn = x]
<1>1. /\ b # None /\ b \in Backends /\ srv[b] \in Servers /\ Rests(srv[b])
      /\ srv[b].where = "used" /\ ses[c].pos = "resetting" /\ sent' = sent
  BY SessionFacts DEF Placed, ReadReset
<1>2. CASE Close(b) /\ LetGo(c)
  BY <1>1, <1>2, Blank, GiveUpBackend, Zenon DEF Close
<1>3. CASE /\ Arrived(c) /\ LetGo(c)
           /\ srv' = [srv EXCEPT ![b].outq = Tail(@), ![b].where = "idle",
                                 ![b].torn = @ \/ ~Incoming(c).last]
  <2>1. srv[b].outq # <<>> /\ srv[b].outq \in Seq(Packets)
    BY <1>1, <1>3 DEF Arrived, Servers
  <2>2. srv' = [srv EXCEPT ![b] = v]
    BY <1>3, Zenon
  <2>3. q \in Seq(Packets) /\ q = Tail(srv[b].outq)
    BY <2>1, HeadTailProperties
  <2>4. x \in BOOLEAN /\ (~x => ~srv[b].torn)
    OBVIOUS
  <2> HIDE DEF q, x
  <2>5. /\ v \in Servers /\ v.where = "idle" /\ v.inq = srv[b].inq
        /\ v.outq = q /\ v.residue = srv[b].residue
    BY <1>1, <2>3, <2>4, Zenon DEF Servers
  <2>6. v.txn = srv[b].txn
    BY <1>1 DEF Servers
  <2>7. v.torn = x
    BY <1>1, <2>4 DEF Servers
  <2>8. v.broken = srv[b].broken
    BY <1>1 DEF Servers
  <2> HIDE DEF v
  <2>9. ASSUME ~x PROVE Fresh(v)
    <3>1. OwnExchange(srv[b], "RESET") /\ ~srv[b].txn /\ srv[b].residue = {}
      BY <1>1, <2>1, <2>4, <2>9, SessionFacts DEF Held
    <3>2. Quiet(v)
      BY <2>1, <2>3, <2>5, <3>1, OwnHead DEF Quiet
    <3> QED
      BY <2>5, <2>6, <3>1, <3>2 DEF Fresh
  <2>10. Rests(v)
    BY <1>1, <2>5, <2>7, <2>8, <2>9 DEF Rests
  <2> QED
    BY <1>1, <1>3, <2>2, <2>5, <2>10, GiveUpBackend, Zenon
<1> QED
  BY <1>2, <1>3 DEF ReadReset

\* drainMySQLUntilOK: after the answer to ROLLBACK, or after giving up on it.
LEMMA DrainKeeps == ASSUME Inv, NEW c \in Clients, drainMySQLUntilOK(c) PROVE Inv'
<1> DEFINE b == ses[c].be
           s == AtPos(ses[c], "reset")
<1>1. /\ b # None /\ b \in Backends /\ srv[b] \in Servers /\ Rests(srv[b])
      /\ srv[b].where = "used" /\ ses[c].pos = "draining" /\ ses[c].then = "away"
      /\ ses[c] \in Sessions /\ Placed(ses[c]) /\ sent' = sent /\ srv \in [Backends -> Servers]
      /\ ses \in [Clients -> Sessions]
  BY SessionFacts DEF Placed, drainMySQLUntilOK, Inv, Types
<1>2. "reset" \in Positions
  BY DEF Positions
<1>3. s \in Sessions /\ s.pos = "reset" /\ s.be = b /\ s.then = "away"
  BY <1>1, <1>2, GotoFields
<1>4. Goto(c, "reset") => ses' = [ses EXCEPT ![c] = s]
  BY DEF Goto, AtPos
<1> HIDE DEF s
<1>5. Placed(s)
  BY <1>1, <1>3 DEF Placed
<1>6. \A w : Quiet(w) => Held(c, s, w, sent[c])
  BY <1>3 DEF Held
<1>7. CASE ReadFails(c) /\ Goto(c, "reset") /\ srv' = srv
  <2>1. Quiet(srv[b])
    BY <1>1, <1>7 DEF ReadFails, Broken, Arrived, Rests, Quiet
  <2> QED
    BY <1>1, <1>3, <1>4, <1>5, <1>6, <1>7, <2>1, Stays
<1>8. ASSUME NEW x \in BOOLEAN, x, Goto(c, "reset"), srv' = [srv EXCEPT ![b].torn = x]
      PROVE  Inv'
  <2> DEFINE v == [srv[b] EXCEPT !.torn = x]
  <2>1. v \in Servers /\ v.where = "used" /\ v.inq = srv[b].inq
    BY <1>1, Zenon DEF Servers
  <2>2. v.torn = x
    BY <1>1 DEF Servers
  <2>3. v.broken = srv[b].broken
    BY <1>1 DEF Servers
  <2>4. srv' = [srv EXCEPT ![b] = v]
    BY <1>8
  <2> HIDE DEF v
  <2>5. Rests(v)
    BY <1>1, <2>1, <2>3 DEF Rests
  <2> QED
    BY <1>1, <1>3, <1>4, <1>5, <1>8, <2>1, <2>2, <2>4, <2>5, SessionMoves, Zenon
<1>9. CASE Arrived(c) /\ Incoming(c).type = "data" /\ Take(b, FALSE) /\ ses' = ses
  <2>1. srv[b].outq # <<>> /\ Head(srv[b].outq).type = "data"
    BY <1>9 DEF Arrived, Incoming
  <2>2. PICK v \in Servers : srv' = [srv EXCEPT ![b] = v] /\ TookFirst(b, v, FALSE)
    BY <1>1, <1>9, <2>1, TakeLeaves, Zenon
  <2>3. v.where = "used" /\ Rests(v) /\ (v.torn <=> srv[b].torn)
    BY <1>1, <2>2 DEF TookFirst
  <2>4. srv[b].torn
    BY <1>1, <2>1, SessionFacts, OwnHead, Zenon DEF Held
  <2>5. ses' = [ses EXCEPT ![c] = ses[c]]
    BY <1>1, <1>9
  <2> QED
    BY <1>1, <2>2, <2>3, <2>4, <2>5, SessionMoves, Zenon
<1>10. CASE Arrived(c) /\ Incoming(c).type # "data" /\ Take(b, TRUE) /\ Goto(c, "reset")
  <2>1. srv[b].outq # <<>>
    BY <1>10 DEF Arrived
  <2>2. PICK v \in Servers : srv' = [srv EXCEPT ![b] = v] /\ TookFirst(b, v, TRUE)
    BY <1>1, <1>10, <2>1, TakeLeaves, Zenon
  <2>3. v.where = "used" /\ Rests(v) /\ (~v.torn => ~srv[b].torn)
        /\ v.inq = srv[b].inq /\ v.outq = Tail(srv[b].outq)
    BY <1>1, <2>2 DEF TookFirst
  <2>4. ASSUME ~srv[b].torn PROVE Quiet(v)
    <3>1. OwnExchange(srv[b], "ROLLBACK")
      BY <1>1, <2>4, SessionFacts DEF Held
    <3> QED
      BY <2>1, <2>3, <3>1, OwnHead DEF Quiet
  <2> QED
    BY <1>1, <1>3, <1>4, <1>5, <1>6, <1>10, <2>2, <2>3, <2>4, SessionMoves, Zenon
<1> QED
  BY <1>7, <1>8, <1>9, <1>10, TRUE \in BOOLEAN, Zenon DEF drainMySQLUntilOK

\* A session after an answer.
After(r, t, f, m, p) ==
  [r EXCEPT !.told = t, !.failed = f, !.timed = m, !.then = "ready", !.pos = p]

\* The fields of a session after an answer.
LEMMA AfterFields ==
  ASSUME NEW r \in Sessions, NEW t \in BOOLEAN, NEW f \in BOOLEAN, NEW m \in BOOLEAN,
         NEW p \in Positions
  PROVE  LET s == After(r, t, f, m, p) IN
         /\ s \in Sessions /\ s.pos = p /\ s.be = r.be /\ s.then = "ready"
         /\ (InTxn(s) <=> t /\ ~f) /\ (s.pinned <=> r.pinned)
<1> DEFINE s == After(r, t, f, m, p)
<1>1. s \in Sessions /\ s.pos = p /\ s.be = r.be /\ s.then = "ready"
  BY Zenon DEF Sessions, After
<1>2. s.told = t
  BY DEF Sessions, After
<1>3. s.failed = f
  BY DEF Sessions, After
<1>4. s.pinned = r.pinned
  BY DEF Sessions, After
<1> HIDE DEF s
<1>5. (InTxn(s) <=> t /\ ~f) /\ (s.pinned <=> r.pinned)
  BY <1>2, <1>3, <1>4 DEF InTxn
<1> QED
  BY <1>1, <1>5 DEF s

Ends(c) ==
  ses' = [ses EXCEPT ![c].told = IF Incoming(c).type = "err" THEN @ ELSE Incoming(c).trans,
                     ![c].failed = Incoming(c).type = "err",
                     ![c].timed = @ /\ ~Releases(c),
                     ![c].then = "ready",
                     ![c].pos = IF Releases(c) THEN "reset" ELSE "ready"]

\* drainMySQLResponse at the packet it takes for the last: what the client is told of
\* its transaction is the server's state, and the backend is released only if there is
\* no transaction to keep and no pin.
LEMMA AnswerEnds ==
  ASSUME Inv, NEW c \in Clients, ses[c].pos = "reading", Arrived(c), EndsAnswer(c),
         Take(ses[c].be, TRUE), Ends(c), sent' = sent
  PROVE  Inv'
<1> DEFINE b == ses[c].be
           pkt == Head(srv[b].outq)
           t == IF Incoming(c).type = "err" THEN ses[c].told ELSE Incoming(c).trans
           f == Incoming(c).type = "err"
           m == ses[c].timed /\ ~Releases(c)
           p == IF Releases(c) THEN "reset" ELSE "ready"
           s == After(ses[c], t, f, m, p)
<1>1. /\ b # None /\ b \in Backends /\ srv[b] \in Servers /\ Rests(srv[b])
      /\ srv[b].where = "used" /\ ses[c] \in Sessions /\ srv \in [Backends -> Servers]
      /\ srv[b].outq # <<>> /\ srv[b].outq \in Seq(Packets)
  BY SessionFacts, Zenon DEF Placed, Inv, Types, Arrived, Servers
<1>2. PICK v \in Servers : srv' = [srv EXCEPT ![b] = v] /\ TookFirst(b, v, TRUE)
  BY <1>1, TakeLeaves, Zenon
<1>3. pkt \in Packets /\ pkt.type # "data"
  BY <1>1, HeadTailProperties, Zenon DEF EndsAnswer, Incoming
<1>4. t \in BOOLEAN
  <2>1. pkt.trans \in BOOLEAN
    BY <1>3 DEF Packets
  <2>2. ses[c].told \in BOOLEAN
    BY <1>1 DEF Sessions
  <2> QED
    BY <2>1, <2>2 DEF Incoming
<1>5. f \in BOOLEAN /\ m \in BOOLEAN /\ p \in Positions
  BY DEF Positions
<1>6. ses' = [ses EXCEPT ![c] = s]
  BY Zenon DEF Ends, After
<1>7. t /\ ~f => pkt.trans
  BY DEF Incoming
<1>8. (p = "reset" /\ ~ses[c].pinned /\ ~(t /\ ~f)) \/ p = "ready"
  BY DEF Releases, Incoming
<1> HIDE DEF t, f, m, p
<1>9. /\ s \in Sessions /\ s.pos = p /\ s.be = b /\ (InTxn(s) <=> t /\ ~f)
      /\ (s.pinned <=> ses[c].pinned)
  BY <1>1, <1>4, <1>5, AfterFields, SMTT(30)
<1> HIDE DEF s
<1>10. Placed(s)
  BY <1>1, <1>8, <1>9 DEF Placed
<1>11. v.where = "used" /\ Rests(v) /\ (v.torn <=> srv[b].torn \/ ~pkt.last)
       /\ v.inq = srv[b].inq /\ v.outq = Tail(srv[b].outq) /\ v.txn = srv[b].txn
  BY <1>1, <1>2 DEF TookFirst
<1>12. ASSUME ~v.torn PROVE Held(c, s, v, sent[c])
  <2>1. Exchange(srv[b], c, sent[c])
    BY <1>1, <1>11, <1>12, SessionFacts, Zenon DEF Held
  <2>2. srv[b].inq = <<>> /\ Whole(srv[b].outq, srv[b].txn, c, sent[c])
    BY <1>1, <2>1 DEF Exchange, Quiet
  <2>3. Tail(srv[b].outq) = <<>> /\ (pkt.trans <=> srv[b].txn)
    <3>1. pkt.last
      BY <1>11, <1>12
    <3>2. /\ pkt.type # "data" /\ pkt.last => Tail(srv[b].outq) = <<>>
          /\ pkt.trans <=> srv[b].txn
      <4>1. FirstOf(srv[b].outq, srv[b].txn, c, sent[c])
        BY <2>2, WholeHead
      <4> QED
        BY <4>1, Zenon DEF FirstOf
    <3> QED
      BY <1>3, <3>1, <3>2
  <2>4. Quiet(v)
    BY <1>11, <2>2, <2>3 DEF Quiet
  <2>5. InTxn(s) => v.txn
    BY <1>7, <1>9, <1>11, <2>3
  <2> QED
    BY <1>8, <1>9, <2>4, <2>5 DEF Held
<1> QED
  BY <1>1, <1>2, <1>6, <1>9, <1>10, <1>11, <1>12, SessionMoves, Zenon

\* drainMySQLResponse.
LEMMA AnswerKeeps == ASSUME Inv, NEW c \in Clients, drainMySQLResponse(c) PROVE Inv'
<1> DEFINE b == ses[c].be
<1>1. /\ b # None /\ b \in Backends /\ srv[b] \in Servers /\ Rests(srv[b])
      /\ srv[b].where = "used" /\ ses[c].pos = "reading" /\ ses[c] \in Sessions
      /\ Placed(ses[c]) /\ srv \in [Backends -> Servers] /\ ses \in [Clients -> Sessions]
      /\ sent' = sent
  BY SessionFacts DEF Placed, drainMySQLResponse, Inv, Types
<1>2. CASE Close(b) /\ End(c)
  BY <1>1, <1>2, CloseAndEnd
<1>3. CASE Arrived(c) /\ ~EndsAnswer(c) /\ Take(b, FALSE) /\ ses' = ses
  <2>1. srv[b].outq # <<>> /\ srv[b].outq \in Seq(Packets)
    BY <1>1, <1>3 DEF Arrived, Servers
  <2>2. PICK v \in Servers : srv' = [srv EXCEPT ![b] = v] /\ TookFirst(b, v, FALSE)
    BY <1>1, <1>3, <2>1, TakeLeaves, Zenon
  <2>3. v.where = "used" /\ Rests(v) /\ (v.torn <=> srv[b].torn)
        /\ v.inq = srv[b].inq /\ v.outq = Tail(srv[b].outq) /\ v.txn = srv[b].txn
    BY <1>1, <2>2 DEF TookFirst
  <2>4. Head(srv[b].outq).type = "data"
    <3>1. Head(srv[b].outq) \in Packets
      BY <2>1, HeadTailProperties
    <3> QED
      BY <1>3, <3>1 DEF EndsAnswer, Incoming, Packets
  <2>5. ASSUME ~srv[b].torn PROVE Held(c, ses[c], v, sent[c])
    <3>1. Exchange(srv[b], c, sent[c])
      BY <1>1, <2>5, SessionFacts DEF Held
    <3>2. srv[b].inq = <<>> /\ Whole(srv[b].outq, srv[b].txn, c, sent[c])
      BY <2>1, <3>1 DEF Exchange, Quiet
    <3>3. Whole(Tail(srv[b].outq), srv[b].txn, c, sent[c])
      BY <2>4, <3>2, WholeHead DEF FirstOf
    <3>4. Exchange(v, c, sent[c])
      BY <2>3, <3>2, <3>3 DEF Exchange
    <3> QED
      BY <1>1, <3>4 DEF Held
  <2>6. ses' = [ses EXCEPT ![c] = ses[c]]
    BY <1>1, <1>3
  <2> QED
    BY <1>1, <2>2, <2>3, <2>5, <2>6, SessionMoves, Zenon
<1>4. CASE Arrived(c) /\ EndsAnswer(c) /\ Take(b, TRUE) /\ Ends(c)
  BY <1>1, <1>4, AnswerEnds, Zenon
<1> QED
  BY <1>2, <1>3, <1>4, Zenon DEF drainMySQLResponse, Ends

\* The client's end is noticed when it is next used.
LEMMA ClientGoneKeeps == ASSUME Inv, NEW c \in Clients, ClientGone(c) PROVE Inv'
<1>1. ASSUME NEW x \in BOOLEAN, ses' = [ses EXCEPT ![c].gone = x] PROVE Inv'
  <2> DEFINE s == [ses[c] EXCEPT !.gone = x]
  <2>1. ses[c] \in Sessions /\ Placed(ses[c])
    BY SessionFacts
  <2>2. ses' = [ses EXCEPT ![c] = s]
    BY <1>1
  <2>3. s \in Sessions /\ s.pos = ses[c].pos /\ s.be = ses[c].be /\ s.then = ses[c].then
    BY <2>1 DEF Sessions
  <2>4. s.told = ses[c].told
    BY <2>1 DEF Sessions
  <2>5. s.failed = ses[c].failed
    BY <2>1 DEF Sessions
  <2>6. s.pinned = ses[c].pinned
    BY <2>1 DEF Sessions
  <2> HIDE DEF s
  <2>7. Placed(s)
    BY <2>1, <2>3, <2>4, <2>5, <2>6 DEF Placed, InTxn
  <2>8. ses[c].be # None /\ ~srv[ses[c].be].torn => Held(c, s, srv[ses[c].be], sent[c])
    BY <2>3, <2>4, <2>5, SessionFacts, Zenon DEF Held, InTxn
  <2>9. srv' = srv /\ sent' = sent
    BY DEF ClientGone
  <2> QED
    BY <2>2, <2>3, <2>7, <2>8, <2>9, Stays, Zenon
<1> QED
  BY <1>1, TRUE \in BOOLEAN, Zenon DEF ClientGone

-----------------------------------------------------------------------------
(* The theorems *)

\* In the beginning nothing is connected.
LEMMA InitInv == Init => Inv
<1> SUFFICES ASSUME Init PROVE Inv
  OBVIOUS
<1>1. /\ srv = [b \in Backends |-> Unused] /\ ses = [c \in Clients |-> Away]
      /\ sent = [c \in Clients |-> 0]
  BY DEF Init
<1>2. Types
  BY <1>1, Blank DEF Types
<1> QED
  BY <1>1, <1>2, Blank DEF Inv, Owns, UsedIsHeld

\* Every step keeps the invariant.
LEMMA StepInv == Inv /\ [Next]_vars => Inv'
<1> SUFFICES ASSUME Inv, [Next]_vars PROVE Inv'
  OBVIOUS
<1>1. ASSUME NEW c \in Clients, RelayStep(c) PROVE Inv'
  BY <1>1, GreetKeeps, DisconnectedKeeps, DrainKeeps, ReacquireKeeps, ForwardKeeps,
     AnswerKeeps, SendResetKeeps, ReadResetKeeps DEF RelayStep
<1>2. ASSUME NEW c \in Clients, ClientStep(c) PROVE Inv'
  BY <1>2, ConnectKeeps, ReadCommandKeeps, QuitKeeps, ClientGoneKeeps DEF ClientStep
<1>3. ASSUME NEW b \in Backends, Execute(b) \/ BackendLost(b) PROVE Inv'
  BY <1>3, ExecuteKeeps, BackendLostKeeps
<1>4. CASE UNCHANGED vars
  BY <1>4 DEF Inv, Types, Owns, UsedIsHeld, vars
<1> QED
  BY <1>1, <1>2, <1>3, <1>4 DEF Next

\* The invariant holds in every reachable state.
THEOREM Invariant == Spec => []Inv
BY InitInv, StepInv, PTL DEF Spec

\* Every message of a set is one of a larger set.
LEMMA StreamsWiden ==
  ASSUME NEW S, NEW T, S \subseteq T, NEW q \in Seq(S)
  PROVE  q \in Seq(T)
OBVIOUS

\* Who uses a backend: one session if it is in use, and nobody if it is not.
LEMMA Users ==
  ASSUME Inv, NEW b \in Backends
  PROVE  Cardinality({c \in Clients : ses[c].be = b}) = IF srv[b].where = "used" THEN 1 ELSE 0
<1> DEFINE U == {c \in Clients : ses[c].be = b}
<1>0. b # None
  BY RelayAssumption
<1>1. CASE srv[b].where # "used"
  <2>1. U = {}
    BY <1>0, <1>1 DEF Inv, Owns
  <2> QED
    BY <1>1, <2>1, FS_EmptySet
<1>2. CASE srv[b].where = "used"
  <2>1. PICK c \in Clients : ses[c].be = b
    BY <1>2 DEF Inv, UsedIsHeld
  <2>2. U = {c}
    BY <1>0, <2>1 DEF Inv
  <2>3. Cardinality(U) = 1
    BY <2>2, FS_Singleton
  <2> QED
    BY <1>2, <2>3
<1> QED
  BY <1>1, <1>2

\* A backend connection is in the pool, unused, or in the hands of exactly one session:
\* Acquire gives it to one, and each of the relay's ways out gives it back or closes it.
THEOREM OneUser == Spec => []TypeOK
<1>1. Inv => TypeOK
  <2> SUFFICES ASSUME Inv PROVE TypeOK
    OBVIOUS
  <2> DEFINE R == [where : {"none", "idle", "used"}, broken : BOOLEAN, txn : BOOLEAN,
                   residue : SUBSET Clients, inq : Seq(Commands), outq : Seq(Packets),
                   torn : BOOLEAN]
  <2>1. ASSUME NEW v \in Servers PROVE v \in R
    <3>1. v.inq \in Seq(Messages)
      BY Zenon DEF Servers
    <3>2. v.inq \in Seq(Commands)
      BY <3>1, StreamsWiden DEF Messages
    <3> QED
      BY <3>2, Zenon DEF Servers
  <2>2. srv \in [Backends -> R]
    BY <2>1 DEF Inv, Types
  <2>3. ses \in [Clients -> Sessions] /\ sent \in [Clients -> Nat]
    BY DEF Inv, Types
  <2>4. \A c \in Clients : ses[c].pos \in Positions \ {"away", "ready", "acquire"} => ses[c].be # None
    BY DEF Inv, Placed
  <2> QED
    BY <2>2, <2>3, <2>4, Users, Zenon DEF TypeOK, Sessions
<1> QED
  BY <1>1, Invariant, PTL

\* The closure resetAndReturn puts only backends into the pool that are in no
\* transaction, keep no session's state and have nothing unread, unless the relay
\* stopped in the middle of one of their answers.
THEOREM PoolIsClean == Spec => []IdleIsClean
<1>1. Inv => IdleIsClean
  BY DEF Inv, IdleIsClean, Rests, Fresh, Quiet
<1> QED
  BY <1>1, Invariant, PTL

\* What drainMySQLResponse passes to a client answers the command this client sent
\* last, unless an earlier answer was torn.
THEOREM AnswersOwned == Spec => []AnswersMatch
<1>1. Inv => AnswersMatch
  <2> SUFFICES ASSUME Inv, NEW c \in Clients, ses[c].pos = "reading", Arrived(c),
                      ~srv[ses[c].be].torn
               PROVE  Incoming(c).by = c /\ Incoming(c).n = sent[c]
    BY DEF AnswersMatch
  <2>1. ses[c].be # None /\ srv[ses[c].be].outq # <<>>
    BY SessionFacts DEF Placed, Arrived
  <2>2. Exchange(srv[ses[c].be], c, sent[c])
    BY <2>1, SessionFacts, Zenon DEF Held
  <2>3. Whole(srv[ses[c].be].outq, srv[ses[c].be].txn, c, sent[c])
    BY <2>1, <2>2, Zenon DEF Exchange, Quiet
  <2> QED
    <3>1. FirstOf(srv[ses[c].be].outq, srv[ses[c].be].txn, c, sent[c])
      BY <2>3, WholeHead
    <3> QED
      BY <3>1 DEF FirstOf, Incoming
<1> QED
  BY <1>1, Invariant, PTL

\* The client is in a transaction it was told of, or pinned to a backend it holds.
Told(c) == ses[c].pos \in {"ready", "forward"} /\ InTxn(ses[c])

Bound(c) == (Told(c) \/ ses[c].pinned) /\ ses[c].be # None

\* A session that was told of a transaction holds the backend that is in it.
LEMMA ToldHolds ==
  ASSUME Inv, NEW c \in Clients, Told(c)
  PROVE  ses[c].be # None /\ (srv[ses[c].be].torn \/ srv[ses[c].be].txn)
BY SessionFacts, Zenon DEF Told, Placed, Held

\* No step takes its backend from a bound session.
LEMMA BoundStep ==
  ASSUME Inv, NEW c \in Clients, Bound(c), RelayStep(c) \/ ClientStep(c)
  PROVE  ses'[c].pos # "away" => ses'[c].be = ses[c].be
<1>1. ses \in [Clients -> Sessions] /\ ses[c] \in Sessions /\ Placed(ses[c])
  BY SessionFacts DEF Inv, Types
<1>2. ASSUME End(c) PROVE ses'[c].pos = "away"
  BY <1>1, <1>2 DEF End, Away
<1>3. ASSUME NEW p, Goto(c, p) PROVE ses'[c].be = ses[c].be
  BY <1>1, <1>3 DEF Goto, Sessions
<1>4. ~Connect(c) /\ ~Reacquire(c)
  BY <1>1 DEF Connect, Reacquire, Bound, Placed
<1>5. CASE Greet(c) \/ drainMySQLUntilOK(c)
  BY <1>2, <1>3, <1>5, Zenon DEF Greet, drainMySQLUntilOK
<1>6. CASE Forward(c)
  BY <1>1, <1>2, <1>6 DEF Forward, Sessions
<1>7. CASE drainMySQLResponse(c)
  <2>1. ASSUME Ends(c) PROVE ses'[c].be = ses[c].be
    <3>1. ASSUME NEW t, NEW f, NEW m, NEW p PROVE After(ses[c], t, f, m, p).be = ses[c].be
      BY <1>1 DEF After, Sessions
    <3>2. \E t, f, m, p : ses'[c] = After(ses[c], t, f, m, p)
      BY <1>1, <2>1, Zenon DEF Ends, After
    <3> QED
      BY <3>1, <3>2
  <2> QED
    BY <1>2, <1>7, <2>1, Zenon DEF drainMySQLResponse, Ends
<1>8. CASE Disconnected(c)
  BY <1>1, <1>2, <1>8 DEF Disconnected, Sessions
<1>9. CASE SendReset(c) \/ ReadReset(c)
  <2>1. ses[c].pos \in {"reset", "resetting"}
    BY <1>9 DEF SendReset, ReadReset
  <2>2. ses[c].then # "ready"
    BY <1>1, <2>1 DEF Placed, Bound, Told
  <2>3. LetGo(c) => End(c)
    BY <2>2 DEF LetGo
  <2> QED
    BY <1>2, <1>3, <1>9, <2>3 DEF SendReset, ReadReset
<1>10. CASE ReadCommand(c)
  BY <1>1, <1>10 DEF ReadCommand, Sessions
<1>11. CASE Quit(c)
  BY <1>1, <1>2, <1>11 DEF Quit, Sessions
<1>12. CASE ClientGone(c)
  BY <1>1, <1>12 DEF ClientGone, Sessions
<1> QED
  BY <1>4, <1>5, <1>6, <1>7, <1>8, <1>9, <1>10, <1>11, <1>12 DEF RelayStep, ClientStep

\* A step of one client's session leaves the other sessions as they are.
LEMMA OthersStay ==
  ASSUME Inv, NEW c \in Clients, NEW d \in Clients, c # d, RelayStep(d) \/ ClientStep(d)
  PROVE  ses'[c] = ses[c]
<1>1. ses \in [Clients -> Sessions]
  BY DEF Inv, Types
<1>2. CASE RelayStep(d)
  BY <1>1, <1>2, Zenon DEF RelayStep, Greet, Disconnected, Reacquire, Forward, drainMySQLResponse,
     drainMySQLUntilOK, SendReset, ReadReset, LetGo, End, Goto
<1>3. CASE ClientStep(d)
  BY <1>1, <1>3, Zenon DEF ClientStep, Connect, ReadCommand, Quit, ClientGone, End
<1> QED
  BY <1>2, <1>3

\* The relay releases a backend only at a boundary the server reported and without a
\* pin: the backend of a session that is pinned, or was told that it is in a
\* transaction and has had no error since, stays the same until the session ends, and
\* is in the transaction the client was told of.
THEOREM BackendKept == Spec => HeldBackendStays
<1> DEFINE Keeps ==
      \A c \in Clients :
        LET told == ses[c].pos \in {"ready", "forward"} /\ ses[c].told /\ ~ses[c].failed IN
        /\ told => ses[c].be # None /\ (srv[ses[c].be].torn \/ srv[ses[c].be].txn)
        /\ (told \/ ses[c].pinned) /\ ses[c].be # None /\ ses'[c].pos # "away" =>
             ses'[c].be = ses[c].be
<1>1. ASSUME Inv, [Next]_vars PROVE [Keeps]_vars
  <2> SUFFICES ASSUME Next, NEW c \in Clients
               PROVE  /\ Told(c) => ses[c].be # None /\ (srv[ses[c].be].torn \/ srv[ses[c].be].txn)
                      /\ Bound(c) /\ ses'[c].pos # "away" => ses'[c].be = ses[c].be
    BY <1>1 DEF Bound, Told, InTxn
  <2>1. Told(c) => ses[c].be # None /\ (srv[ses[c].be].torn \/ srv[ses[c].be].txn)
    BY <1>1, ToldHolds
  <2>2. ASSUME NEW d \in Clients, RelayStep(d) \/ ClientStep(d), Bound(c)
        PROVE  ses'[c].pos # "away" => ses'[c].be = ses[c].be
    BY <1>1, <2>2, BoundStep, OthersStay
  <2>3. ASSUME NEW b \in Backends, Execute(b) \/ BackendLost(b)
        PROVE  ses' = ses
    BY <2>3, Zenon DEF Execute, BackendLost
  <2> QED
    BY <2>1, <2>2, <2>3 DEF Next
<1> QED
  BY <1>1, Invariant, PTL DEF Spec, HeldBackendStays

=============================================================================
