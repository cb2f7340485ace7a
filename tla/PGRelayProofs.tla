---------------------------- MODULE PGRelayProofs ----------------------------
(***************************************************************************)
(* Proofs about PGRelay for any numbers of clients and backends, any kinds *)
(* of messages and any bounds on messages and checks.                      *)
(*                                                                         *)
(* The inductive invariant says, for each position of a session and of the *)
(* health check, what the two streams of the backend it holds contain: the *)
(* relay forwards a message only over empty streams, and from there on the *)
(* streams hold that message or what is left of its answer.  All of it is  *)
(* about backends on which nobody gave up in the middle of an answer (cut).*)
(***************************************************************************)
EXTENDS PGRelay, FiniteSetTheorems, SequenceTheorems, TLAPS

\* Only clients send what leaves session state behind.
Messages ==
  {m \in Requests : m.by = None => m.op \in {"query", "fail", "ROLLBACK", "DISCARD ALL"}}

\* A ReadyForQuery carries a transaction status.
Answers == {x \in Replies : x.type = "Z" => x.status \in {"I", "T", "E"}}

Servers ==
  [where : {"none", "idle", "used"}, broken : BOOLEAN, txn : {"I", "T", "E"},
   residue : SUBSET Clients, inq : Seq(Messages), outq : Seq(Answers),
   deadline : {"none", "set", "past"}, shut : BOOLEAN, cut : BOOLEAN]

Sessions ==
  [pos : Positions, then : {"top", "away"}, be : Backends \cup {None}, pinned : BOOLEAN,
   kind : AllKinds, gone : BOOLEAN, told : {"I", "T", "E"}]

Checks == [pos : {"rest", "send", "reading"}, be : Backends \cup {None}, n : Nat]

Types ==
  /\ srv \in [Backends -> Servers]
  /\ ses \in [Clients -> Sessions]
  /\ sent \in [Clients -> Nat]
  /\ hc \in Checks

-----------------------------------------------------------------------------
(* What the streams of a backend connection v contain *)

Quiet(v) == v.inq = <<>> /\ v.outq = <<>>

Fresh(v) == Quiet(v) /\ v.txn = "I" /\ v.residue = {}

Completion(t, by, n) == [type |-> t, by |-> by, n |-> n, status |-> "-"]

Ready(by, n, txn) == [type |-> "Z", by |-> by, n |-> n, status |-> txn]

\* Nothing, or one message of Ops, or its answer, or the end of its answer.
Exchange(v, Ops, by, n) ==
  \/ Quiet(v)
  \/ /\ v.outq = <<>>
     /\ \E op \in Ops : v.inq = <<[op |-> op, by |-> by, n |-> n]>>
  \/ /\ v.inq = <<>>
     /\ \E t \in {"C", "E"} : v.outq = <<Completion(t, by, n), Ready(by, n, v.txn)>>
  \/ v.inq = <<>> /\ v.outq = <<Ready(by, n, v.txn)>>

\* What a session s of client c, which has sent n messages, finds on its backend.
Held(c, s, v, n) ==
  /\ s.pos = "greeting" => Fresh(v)
  /\ s.pos \in {"top", "ready", "forward"} => Quiet(v) /\ v.txn = s.told
  /\ s.pos \in {"cleanup", "reset"} => Quiet(v)
  /\ s.pos = "reading" => Exchange(v, AllKinds, c, n)
  /\ s.pos = "draining" => Exchange(v, {"ROLLBACK"}, None, 0)
  /\ s.pos = "resetting" =>
       /\ Exchange(v, {"DISCARD ALL"}, None, 0)
       /\ v.outq # <<>> /\ Head(v.outq).type # "E" => v.txn = "I" /\ v.residue = {}

\* What the health check h finds on its backend.
Checked(h, v) ==
  /\ h.pos = "send" => Fresh(v)
  /\ h.pos = "reading" =>
       Exchange(v, {"query", "fail"}, None, h.n) /\ v.txn = "I" /\ v.residue = {}

\* Where a session holds a backend.  One that holds none, or is about to let its
\* backend go and carry on, is neither pinned nor in a transaction.
Placed(s) ==
  /\ s.pos \in {"away", "acquire"} => s.be = None
  /\ s.pos \notin {"away", "acquire", "top", "ready"} => s.be # None
  /\ \/ s.be = None
     \/ s.pos = "greeting"
     \/ s.pos \in {"reset", "resetting"} /\ s.then = "top"
     => s.told = "I" /\ ~s.pinned

Owns(c) ==
  ses[c].be # None =>
    /\ srv[ses[c].be].where = "used"
    /\ ~srv[ses[c].be].cut => Held(c, ses[c], srv[ses[c].be], sent[c])

CheckOwns ==
  /\ hc.be # None <=> hc.pos # "rest"
  /\ hc.be # None => /\ srv[hc.be].where = "used"
                     /\ ~srv[hc.be].cut => Checked(hc, srv[hc.be])

\* A backend is used by one session, or by the check.
Exclusive ==
  /\ \A c, d \in Clients : ses[c].be = ses[d].be /\ ses[c].be # None => c = d
  /\ \A c \in Clients : ses[c].be # None => ses[c].be # hc.be

\* And one that is marked as used is used by somebody: none is lost to the pool.
UsedIsHeld ==
  \A b \in Backends : srv[b].where = "used" => hc.be = b \/ \E c \in Clients : ses[c].be = b

Inv ==
  /\ Types
  /\ \A c \in Clients : Placed(ses[c]) /\ Owns(c)
  /\ CheckOwns
  /\ Exclusive /\ UsedIsHeld
  /\ \A b \in Backends : srv[b].where # "used" /\ ~srv[b].cut => Fresh(srv[b])

-----------------------------------------------------------------------------
(* A step of one session, of the check, or of one backend leaves the others as they are *)

\* A session moves and touches the backend it holds, takes or lets go.
LEMMA SessionMoves ==
  ASSUME Inv, NEW c \in Clients, NEW b \in Backends,
         NEW s \in Sessions, NEW v \in Servers, NEW n \in Nat,
         ses' = [ses EXCEPT ![c] = s], srv' = [srv EXCEPT ![b] = v],
         sent' = [sent EXCEPT ![c] = n], hc' = hc,
         ses[c].be = b \/ (ses[c].be = None /\ srv[b].where # "used"),
         Placed(s),
         \/ s.be = b /\ v.where = "used" /\ (~v.cut => Held(c, s, v, n))
         \/ s.be = None /\ v.where # "used" /\ (~v.cut => Fresh(v))
  PROVE  Inv'
<1> USE DEF Inv
<1>0. b # None /\ None \notin Backends
  BY RelayAssumption
<1>1. Types'
  BY DEF Types
<1>2. /\ ses'[c] = s /\ sent'[c] = n /\ \A d \in Clients \ {c} : ses'[d] = ses[d] /\ sent'[d] = sent[d]
      /\ srv'[b] = v /\ \A a \in Backends \ {b} : srv'[a] = srv[a]
  BY DEF Types
<1>3. /\ \A d \in Clients \ {c} : ses[d].be # b
      /\ hc.be # b
      /\ \A d \in Clients : ses[d].be \in Backends \cup {None}
      /\ hc.be \in Backends \cup {None}
  BY <1>0 DEF Exclusive, Owns, CheckOwns, Types, Sessions, Checks
<1>4. ASSUME NEW d \in Clients PROVE Placed(ses[d])' /\ Owns(d)'
  <2>1. CASE d = c
    BY <1>0, <1>2, <2>1 DEF Owns
  <2>2. CASE d # c
    BY <1>2, <1>3, <2>2 DEF Owns
  <2> QED
    BY <2>1, <2>2
<1>5. CheckOwns'
  BY <1>2, <1>3 DEF CheckOwns
<1>6. Exclusive'
  BY <1>2, <1>3 DEF Exclusive
<1>7. \A a \in Backends : srv'[a].where # "used" /\ ~srv'[a].cut => Fresh(srv'[a])
  BY <1>2
<1>8. ASSUME NEW a \in Backends, srv'[a].where = "used"
      PROVE  hc'.be = a \/ \E d \in Clients : ses'[d].be = a
  <2>1. CASE a = b
    BY <1>2, <1>8, <2>1
  <2>2. CASE a # b
    <3>1. hc.be = a \/ \E d \in Clients : ses[d].be = a
      BY <1>2, <1>8, <2>2 DEF UsedIsHeld
    <3>2. ses[c].be # a
      BY <1>0, <2>2
    <3> QED
      BY <1>2, <3>1, <3>2
  <2> QED
    BY <2>1, <2>2
<1> QED
  BY <1>1, <1>4, <1>5, <1>6, <1>7, <1>8 DEF UsedIsHeld

\* A session moves and leaves the backends alone.
LEMMA SessionStays ==
  ASSUME Inv, NEW c \in Clients, NEW s \in Sessions, NEW n \in Nat,
         ses' = [ses EXCEPT ![c] = s], srv' = srv, sent' = [sent EXCEPT ![c] = n], hc' = hc,
         s.be = ses[c].be, Placed(s),
         s.be # None /\ ~srv[s.be].cut => Held(c, s, srv[s.be], n)
  PROVE  Inv'
<1> USE DEF Inv
<1>1. Types'
  BY DEF Types
<1>2. /\ ses'[c] = s /\ sent'[c] = n
      /\ \A d \in Clients \ {c} : ses'[d] = ses[d] /\ sent'[d] = sent[d]
  BY DEF Types
<1>3. ASSUME NEW d \in Clients PROVE Placed(ses[d])' /\ Owns(d)'
  <2>1. CASE d = c
    BY <1>2, <2>1 DEF Owns
  <2>2. CASE d # c
    BY <1>2, <2>2 DEF Owns
  <2> QED
    BY <2>1, <2>2
<1>4. CheckOwns'
  BY DEF CheckOwns
<1>5. Exclusive'
  BY <1>2 DEF Exclusive
<1>6. \A d \in Clients : ses'[d].be = ses[d].be
  BY <1>2
<1>7. UsedIsHeld'
  BY <1>6 DEF UsedIsHeld
<1> QED
  BY <1>1, <1>3, <1>4, <1>5, <1>7

\* The check moves and touches the backend it holds, takes or lets go.
LEMMA CheckMoves ==
  ASSUME Inv, NEW b \in Backends, NEW h \in Checks, NEW v \in Servers,
         hc' = h, srv' = [srv EXCEPT ![b] = v], ses' = ses, sent' = sent,
         hc.be = b \/ (hc.be = None /\ srv[b].where # "used"),
         \/ h.be = b /\ h.pos # "rest" /\ v.where = "used" /\ (~v.cut => Checked(h, v))
         \/ h.be = None /\ h.pos = "rest" /\ v.where # "used" /\ (~v.cut => Fresh(v))
  PROVE  Inv'
<1> USE DEF Inv
<1>0. b # None
  BY RelayAssumption
<1>1. Types'
  BY DEF Types
<1>2. srv'[b] = v /\ \A a \in Backends \ {b} : srv'[a] = srv[a]
  BY DEF Types
<1>3. /\ \A d \in Clients : ses[d].be # b
      /\ \A d \in Clients : ses[d].be \in Backends \cup {None}
  BY <1>0 DEF Exclusive, Owns, CheckOwns, Types, Sessions, Checks
<1>4. ASSUME NEW d \in Clients PROVE Placed(ses[d])' /\ Owns(d)'
  BY <1>2, <1>3 DEF Owns
<1>5. CheckOwns'
  BY <1>0, <1>2 DEF CheckOwns
<1>6. Exclusive'
  BY <1>3 DEF Exclusive
<1>7. \A a \in Backends : srv'[a].where # "used" /\ ~srv'[a].cut => Fresh(srv'[a])
  BY <1>2
<1>8. ASSUME NEW a \in Backends, srv'[a].where = "used"
      PROVE  hc'.be = a \/ \E d \in Clients : ses'[d].be = a
  <2>1. CASE a = b
    BY <1>2, <1>8, <2>1
  <2>2. CASE a # b
    <3>1. hc.be # a
      BY <1>0, <2>2, RelayAssumption
    <3>2. \E d \in Clients : ses[d].be = a
      BY <1>2, <1>8, <2>2, <3>1 DEF UsedIsHeld
    <3> QED
      BY <3>2
  <2> QED
    BY <2>1, <2>2
<1> QED
  BY <1>1, <1>4, <1>5, <1>6, <1>7, <1>8 DEF UsedIsHeld

\* A backend moves by itself, whoever holds it.
LEMMA BackendMoves ==
  ASSUME Inv, NEW b \in Backends, NEW v \in Servers,
         srv' = [srv EXCEPT ![b] = v], ses' = ses, sent' = sent, hc' = hc,
         v.where = srv[b].where, v.cut = srv[b].cut,
         Fresh(srv[b]) => Fresh(v),
         Checked(hc, srv[b]) => Checked(hc, v),
         \A c \in Clients : Held(c, ses[c], srv[b], sent[c]) => Held(c, ses[c], v, sent[c])
  PROVE  Inv'
<1> USE DEF Inv
<1>1. Types'
  BY DEF Types
<1>2. srv'[b] = v /\ \A a \in Backends \ {b} : srv'[a] = srv[a]
  BY DEF Types
<1>3. /\ \A d \in Clients : ses[d].be \in Backends \cup {None}
      /\ hc.be \in Backends \cup {None}
  BY DEF Types, Sessions, Checks
<1>4. ASSUME NEW d \in Clients PROVE Placed(ses[d])' /\ Owns(d)'
  <2>1. CASE ses[d].be = b
    BY <1>2, <2>1 DEF Owns
  <2>2. CASE ses[d].be # b
    BY <1>2, <1>3, <2>2 DEF Owns
  <2> QED
    BY <2>1, <2>2
<1>5. CheckOwns'
  BY <1>2, <1>3 DEF CheckOwns
<1>6. Exclusive'
  BY DEF Exclusive
<1>7. \A a \in Backends : srv'[a].where # "used" /\ ~srv'[a].cut => Fresh(srv'[a])
  BY <1>2
<1>8. UsedIsHeld'
  BY <1>2 DEF UsedIsHeld
<1> QED
  BY <1>1, <1>4, <1>5, <1>6, <1>7, <1>8

-----------------------------------------------------------------------------
(* The steps the handlers share *)

\* What the invariant says of one session and of the backend it holds.
LEMMA SessionFacts ==
  ASSUME Inv, NEW c \in Clients
  PROVE  /\ ses[c] \in Sessions /\ sent[c] \in Nat /\ Placed(ses[c])
         /\ sent = [sent EXCEPT ![c] = sent[c]]
         /\ ses[c].be # None =>
              /\ ses[c].be \in Backends /\ srv[ses[c].be] \in Servers
              /\ srv[ses[c].be].where = "used"
              /\ ~srv[ses[c].be].cut => Held(c, ses[c], srv[ses[c].be], sent[c])
<1>1. ses[c] \in Sessions /\ sent[c] \in Nat /\ sent = [sent EXCEPT ![c] = sent[c]]
  BY DEF Inv, Types
<1>2. ses[c].be # None => ses[c].be \in Backends
  BY <1>1 DEF Sessions
<1> QED
  BY <1>1, <1>2 DEF Inv, Types, Owns

\* A new connection holds nothing, and a session that is away is placed.
LEMMA Blank ==
  /\ Unused \in Servers /\ Unused.where = "none" /\ Fresh(Unused)
  /\ Away \in Sessions /\ Placed(Away) /\ Away.be = None
<1>1. Unused \in Servers
  BY DEF Unused, Servers
<1>2. Unused.where = "none" /\ Fresh(Unused)
  BY DEF Unused, Fresh, Quiet
<1>3. Away \in Sessions
  BY DEF Away, Sessions, AllKinds, Positions
<1>4. Placed(Away) /\ Away.be = None
  BY DEF Away, Placed
<1> QED
  BY <1>1, <1>2, <1>3, <1>4

\* The same steps when the client sends nothing.
LEMMA Moves ==
  ASSUME Inv, NEW c \in Clients, NEW b \in Backends, NEW s \in Sessions, NEW v \in Servers,
         ses' = [ses EXCEPT ![c] = s], srv' = [srv EXCEPT ![b] = v], sent' = sent, hc' = hc,
         ses[c].be = b \/ (ses[c].be = None /\ srv[b].where # "used"),
         Placed(s),
         \/ s.be = b /\ v.where = "used" /\ (~v.cut => Held(c, s, v, sent[c]))
         \/ s.be = None /\ v.where # "used" /\ (~v.cut => Fresh(v))
  PROVE  Inv'
<1>1. sent[c] \in Nat /\ sent' = [sent EXCEPT ![c] = sent[c]]
  BY SessionFacts
<1> QED
  BY <1>1, SessionMoves, Zenon

\* A session moves, sends nothing and leaves the backends alone.
LEMMA Stays ==
  ASSUME Inv, NEW c \in Clients, NEW s \in Sessions,
         ses' = [ses EXCEPT ![c] = s], srv' = srv, sent' = sent, hc' = hc,
         s.be = ses[c].be, Placed(s),
         s.be # None /\ ~srv[s.be].cut => Held(c, s, srv[s.be], sent[c])
  PROVE  Inv'
<1>1. sent[c] \in Nat /\ sent' = [sent EXCEPT ![c] = sent[c]]
  BY SessionFacts
<1> QED
  BY <1>1, SessionStays, Zenon

\* The session closes its backend and ends.
LEMMA CloseAndEnd ==
  ASSUME Inv, NEW c \in Clients, ses[c].be # None,
         Close(ses[c].be), End(c), sent' = sent, hc' = hc
  PROVE  Inv'
BY SessionFacts, Blank, SessionMoves, ses[c].be \in Backends, Zenon DEF Close, End

\* The session returns its backend to the pool or closes it, and carries on or ends.
LEMMA GiveUpBackend ==
  ASSUME Inv, NEW c \in Clients, ses[c].be # None, NEW v \in Servers,
         ses[c].pos \in {"greeting", "reset", "resetting"},
         srv' = [srv EXCEPT ![ses[c].be] = v], v.where # "used", ~v.cut => Fresh(v),
         \/ ses[c].pos = "greeting" /\ ses' = [ses EXCEPT ![c].pos = "top", ![c].be = None]
         \/ ses[c].pos # "greeting" /\ LetGo(c),
         sent' = sent, hc' = hc
  PROVE  Inv'
<1>1. ses[c].be \in Backends /\ ses[c] \in Sessions /\ Placed(ses[c])
  BY SessionFacts
<1>2. CASE ses' = [ses EXCEPT ![c] = Away]
  BY <1>1, <1>2, SessionFacts, Blank, SessionMoves, Zenon
<1>3. CASE /\ ses[c].pos = "greeting" \/ ses[c].then = "top"
           /\ ses' = [ses EXCEPT ![c].pos = "top", ![c].be = None]
  <2> DEFINE s == [ses[c] EXCEPT !.pos = "top", !.be = None]
  <2>1. s \in Sessions /\ s.pos = "top" /\ s.be = None /\ s.told = ses[c].told /\ s.pinned = ses[c].pinned
    BY <1>1, Zenon DEF Sessions, Positions
  <2>2. ses' = [ses EXCEPT ![c] = s]
    BY <1>3, Zenon
  <2> HIDE DEF s
  <2>3. Placed(s)
    BY <1>1, <1>3, <2>1 DEF Placed
  <2> QED
    BY <1>1, <2>1, <2>2, <2>3, SessionFacts, SessionMoves, Zenon
<1> QED
  BY <1>1, <1>2, <1>3 DEF LetGo, End

\* The session moves on and leaves its backend alone.
LEMMA MoveOn ==
  ASSUME Inv, NEW c \in Clients, NEW p \in {"ready", "cleanup"}, Goto(c, p),
         srv' = srv, sent' = sent, hc' = hc,
         ses[c].pos \in {"top", "ready"}, p = "cleanup" => ses[c].be # None
  PROVE  Inv'
<1> DEFINE s == [ses[c] EXCEPT !.pos = p]
<1>1. ses[c] \in Sessions /\ Placed(ses[c])
  BY SessionFacts
<1>2. /\ s \in Sessions /\ s.pos = p /\ s.be = ses[c].be /\ s.told = ses[c].told
      /\ s.pinned = ses[c].pinned
  BY <1>1 DEF Sessions, Positions
<1>3. ses' = [ses EXCEPT ![c] = s]
  BY DEF Goto
<1> HIDE DEF s
<1>4. Placed(s)
  BY <1>1, <1>2 DEF Placed
<1>5. ses[c].be # None /\ ~srv[ses[c].be].cut => Held(c, s, srv[ses[c].be], sent[c])
  BY <1>2, SessionFacts, Zenon DEF Held
<1> QED
  BY <1>2, <1>3, <1>4, <1>5, SessionFacts, SessionStays, Zenon

\* Short streams.
LEMMA AppendToNone == \A x : Append(<<>>, x) = <<x>>
OBVIOUS

\* A write of one message has left the backend as v.
Wrote(b, v, op, by, n) ==
  /\ v.where = srv[b].where /\ v.cut = srv[b].cut /\ v.outq = srv[b].outq
  /\ v.txn = srv[b].txn /\ v.residue = srv[b].residue
  /\ Quiet(srv[b]) => Quiet(v) \/ v.inq = <<[op |-> op, by |-> by, n |-> n]>>

\* What a write to a backend with empty streams leaves on them.
LEMMA WriteStarts ==
  ASSUME NEW b \in Backends, srv \in [Backends -> Servers],
         NEW op \in AllKinds \cup {"ROLLBACK", "DISCARD ALL"},
         NEW by \in Clients \cup {None}, NEW n \in Nat, Write(b, op, by, n),
         by = None => op \in {"query", "fail", "ROLLBACK", "DISCARD ALL"}
  PROVE  \E v \in Servers : srv' = [srv EXCEPT ![b] = v] /\ Wrote(b, v, op, by, n)
<1> DEFINE m == [op |-> op, by |-> by, n |-> n]
           q == IF srv[b].broken THEN srv[b].inq ELSE Append(srv[b].inq, m)
           v == [srv[b] EXCEPT !.inq = q]
<1>1. m \in Messages
  BY Zenon DEF Requests, Messages
<1>2. srv[b] \in Servers
  BY Zenon
<1>3. srv' = [srv EXCEPT ![b] = v]
  BY Zenon DEF Write
<1> HIDE DEF m
<1>4. srv[b].inq = <<>> => q = <<>> \/ q = <<m>>
  BY AppendToNone, Zenon
<1>5. q \in Seq(Messages)
  <2>1. srv[b].inq \in Seq(Messages)
    BY <1>2, Zenon DEF Servers
  <2>2. Append(srv[b].inq, m) \in Seq(Messages)
    BY <1>1, <2>1, AppendProperties, Zenon
  <2> QED
    BY <2>1, <2>2, Zenon
<1> HIDE DEF q
<1>6. /\ v \in Servers /\ v.where = srv[b].where /\ v.cut = srv[b].cut /\ v.outq = srv[b].outq
      /\ v.txn = srv[b].txn /\ v.residue = srv[b].residue /\ v.inq = q
  BY <1>2, <1>5, Zenon DEF Servers
<1> HIDE DEF v
<1> QED
  BY <1>3, <1>4, <1>6, Zenon DEF Quiet, m, Wrote

\* What reading the first message leaves of an answer.
LEMMA ReadingOn ==
  ASSUME NEW v \in Servers, NEW w, NEW Ops, NEW by, NEW n,
         v.outq # <<>>, Exchange(v, Ops, by, n),
         w.inq = v.inq, w.outq = Tail(v.outq), w.txn = v.txn
  PROVE  /\ Head(v.outq).by = by /\ Head(v.outq).n = n
         /\ v.inq = <<>>
         /\ \/ /\ Head(v.outq).type = "Z" /\ Head(v.outq).status = v.txn
               /\ Quiet(w)
            \/ /\ Head(v.outq).type \in {"C", "E"}
               /\ w.outq = <<Ready(by, n, w.txn)>> /\ Exchange(w, Ops, by, n)
<1>1. CASE v.inq = <<>> /\ v.outq = <<Ready(by, n, v.txn)>>
  <2> DEFINE z == Ready(by, n, v.txn)
  <2>1. z.by = by /\ z.n = n /\ z.type = "Z" /\ z.status = v.txn
    BY DEF Ready
  <2> HIDE DEF z
  <2>2. Head(v.outq) = z /\ Tail(v.outq) = <<>>
    BY <1>1 DEF z
  <2> QED
    BY <1>1, <2>1, <2>2 DEF Quiet
<1>2. ASSUME NEW t \in {"C", "E"}, v.inq = <<>>,
             v.outq = <<Completion(t, by, n), Ready(by, n, v.txn)>>
      PROVE  /\ Head(v.outq).by = by /\ Head(v.outq).n = n /\ Head(v.outq).type = t
             /\ w.inq = <<>> /\ w.outq = <<Ready(by, n, w.txn)>>
  <2> DEFINE x == Completion(t, by, n)
             z == Ready(by, n, v.txn)
  <2>1. x.by = by /\ x.n = n /\ x.type = t
    BY DEF Completion
  <2>2. v.outq = <<x, z>>
    BY <1>2
  <2> HIDE DEF x, z
  <2>3. Head(v.outq) = x /\ Tail(v.outq) = <<z>>
    BY <2>2
  <2> QED
    BY <1>2, <2>1, <2>3 DEF z
<1> QED
  BY <1>1, <1>2 DEF Exchange, Quiet

-----------------------------------------------------------------------------
(* The steps of a backend *)

\* More on short streams.
LEMMA ConcatNone == <<>> \o <<>> = <<>> /\ \A x, z : <<>> \o <<x, z>> = <<x, z>>
OBVIOUS

\* The first of two messages.
LEMMA TwoMessages == \A x, z : Head(<<x, z>>) = x
OBVIOUS

\* Streams of at most two messages.
LEMMA ShortStream ==
  ASSUME NEW S, NEW x \in S, NEW z \in S
  PROVE  <<>> \in Seq(S) /\ <<x, z>> \in Seq(S)
OBVIOUS

\* A stream of one message.
LEMMA OneMessage == \A m : Head(<<m>>) = m /\ Tail(<<m>>) = <<>> /\ <<m>> # <<>>
OBVIOUS

\* A message op of an exchange has been executed, which left the backend as w.
Executed(b, w, op, by, n) ==
  /\ w.txn = TxnAfter(b, op)
  /\ w.residue = ResidueAfter(b, [op |-> op, by |-> by, n |-> n])
  /\ w.outq # <<>> => Head(w.outq).type = IF Fails(b, op) THEN "E" ELSE "C"

ExecutedOneOf(b, w, Ops, by, n) == \E op \in Ops : Executed(b, w, op, by, n)

\* The backend executes the one message of an exchange.
LEMMA ExecuteOne ==
  ASSUME NEW b \in Backends, NEW w, NEW Ops, NEW by, NEW n,
         srv[b].inq # <<>>, Exchange(srv[b], Ops, by, n),
         w.inq = Tail(srv[b].inq), w.outq = srv[b].outq \o Answer(b, Head(srv[b].inq)),
         w.txn = TxnAfter(b, Head(srv[b].inq).op),
         w.residue = ResidueAfter(b, Head(srv[b].inq))
  PROVE  Exchange(w, Ops, by, n) /\ ExecutedOneOf(b, w, Ops, by, n)
<1>1. PICK op \in Ops : srv[b].outq = <<>> /\ srv[b].inq = <<[op |-> op, by |-> by, n |-> n]>>
  BY Zenon DEF Exchange, Quiet
<1> DEFINE m == [op |-> op, by |-> by, n |-> n]
           t == IF Fails(b, op) THEN "E" ELSE "C"
<1>2. m.op = op /\ m.by = by /\ m.n = n
  OBVIOUS
<1>3. srv[b].inq = <<m>>
  BY <1>1
<1> HIDE DEF m
<1>4. Head(srv[b].inq) = m /\ w.inq = <<>>
  BY <1>3, OneMessage
<1>5. w.txn = TxnAfter(b, op) /\ w.residue = ResidueAfter(b, m)
  BY <1>2, <1>4
<1>6. CASE op \in Extended
  <2>1. Answer(b, m) = <<>>
    BY <1>2, <1>6 DEF Answer
  <2>2. Quiet(w)
    BY <1>1, <1>4, <2>1, ConcatNone DEF Quiet
  <2> QED
    BY <1>5, <2>2, Zenon DEF m, Exchange, Quiet, Executed, ExecutedOneOf
<1>7. CASE op \notin Extended
  <2> DEFINE x == Completion(t, by, n)
             z == Ready(by, n, TxnAfter(b, op))
  <2>1. Answer(b, m) = <<x, z>>
    BY <1>2, <1>7 DEF Answer, Completion, Ready
  <2>2. x.type = t
    BY DEF Completion
  <2>3. t \in {"C", "E"}
    OBVIOUS
  <2>4. z = Ready(by, n, w.txn)
    BY <1>5
  <2>5. w.outq = <<x, z>>
    <3> HIDE DEF x, z
    <3> QED
      BY <1>1, <1>4, <2>1, ConcatNone
  <2>6. Head(w.outq) = x
    <3> HIDE DEF x, z
    <3> QED
      BY <2>5, TwoMessages, Zenon
  <2> HIDE DEF t
  <2>7. Exchange(w, Ops, by, n)
    BY <1>4, <2>3, <2>4, <2>5, Zenon DEF Exchange
  <2> QED
    BY <1>5, <2>2, <2>6, <2>7, Zenon DEF m, t, Executed, ExecutedOneOf
<1> QED
  BY <1>6, <1>7

\* The types of what an executed message leaves.
LEMMA ExecuteTypes ==
  ASSUME NEW b \in Backends, srv[b] \in Servers, srv[b].inq # <<>>
  PROVE  LET m == Head(srv[b].inq) IN
         /\ Tail(srv[b].inq) \in Seq(Messages)
         /\ srv[b].outq \o Answer(b, m) \in Seq(Answers)
         /\ TxnAfter(b, m.op) \in {"I", "T", "E"}
         /\ ResidueAfter(b, m) \in SUBSET Clients
<1> DEFINE m == Head(srv[b].inq)
<1>1. srv[b].inq \in Seq(Messages) /\ srv[b].outq \in Seq(Answers)
      /\ srv[b].txn \in {"I", "T", "E"} /\ srv[b].residue \in SUBSET Clients
  BY DEF Servers
<1>2. m \in Messages /\ Tail(srv[b].inq) \in Seq(Messages)
  BY <1>1, HeadTailProperties
<1> HIDE DEF m
<1>3. TxnAfter(b, m.op) \in {"I", "T", "E"}
  BY <1>1 DEF TxnAfter
<1>4. ResidueAfter(b, m) \in SUBSET Clients
  BY <1>1, <1>2, Zenon DEF ResidueAfter, Messages, Requests
<1>5. Answer(b, m) \in Seq(Answers)
  <2> DEFINE x == [type |-> IF Fails(b, m.op) THEN "E" ELSE "C", by |-> m.by, n |-> m.n,
                   status |-> "-"]
             z == [type |-> "Z", by |-> m.by, n |-> m.n, status |-> TxnAfter(b, m.op)]
  <2>1. x \in Answers /\ z \in Answers
    BY <1>2, <1>3, Zenon DEF Answers, Replies, Messages, Requests
  <2>2. Answer(b, m) = <<>> \/ Answer(b, m) = <<x, z>>
    BY DEF Answer
  <2> HIDE DEF x, z
  <2> QED
    BY <2>1, <2>2, ShortStream, Zenon
<1>6. srv[b].outq \o Answer(b, m) \in Seq(Answers)
  BY <1>1, <1>5, ConcatProperties
<1> QED
  BY <1>2, <1>3, <1>4, <1>6 DEF m

\* Execute answers the message of an exchange, whoever waits for the answer.
LEMMA ExecuteKeeps ==
  ASSUME Inv, NEW b \in Backends, Execute(b) PROVE Inv'
<1> DEFINE m == Head(srv[b].inq)
           i == Tail(srv[b].inq)
           o == srv[b].outq \o Answer(b, m)
           t == TxnAfter(b, m.op)
           r == ResidueAfter(b, m)
           v == [srv[b] EXCEPT !.inq = i, !.outq = o, !.txn = t, !.residue = r]
<1>1. srv[b] \in Servers /\ srv[b].inq # <<>>
  BY DEF Inv, Types, Execute
<1>2. srv' = [srv EXCEPT ![b] = v] /\ ses' = ses /\ sent' = sent /\ hc' = hc
  BY Zenon DEF Execute
<1>3. i \in Seq(Messages) /\ o \in Seq(Answers) /\ t \in {"I", "T", "E"} /\ r \in SUBSET Clients
  BY <1>1, ExecuteTypes
<1>4. i = Tail(srv[b].inq) /\ o = srv[b].outq \o Answer(b, Head(srv[b].inq))
      /\ t = TxnAfter(b, Head(srv[b].inq).op) /\ r = ResidueAfter(b, Head(srv[b].inq))
  OBVIOUS
<1> HIDE DEF m, i, o, t, r
<1>5. /\ v \in Servers /\ v.where = srv[b].where /\ v.cut = srv[b].cut
      /\ v.inq = i /\ v.outq = o /\ v.txn = t /\ v.residue = r
  BY <1>1, <1>3, Zenon DEF Servers
<1> HIDE DEF v
<1>6. ~Quiet(srv[b])
  BY <1>1 DEF Quiet
<1>7. Checked(hc, srv[b]) => Checked(hc, v)
  <2> SUFFICES ASSUME hc.pos = "reading", Exchange(srv[b], {"query", "fail"}, None, hc.n),
                      srv[b].txn = "I", srv[b].residue = {}
               PROVE  Exchange(v, {"query", "fail"}, None, hc.n) /\ v.txn = "I" /\ v.residue = {}
    BY <1>6 DEF Checked, Fresh
  <2>1. /\ Exchange(v, {"query", "fail"}, None, hc.n)
        /\ ExecutedOneOf(b, v, {"query", "fail"}, None, hc.n)
    BY <1>1, <1>4, <1>5, ExecuteOne, Zenon
  <2>2. PICK op \in {"query", "fail"} : Executed(b, v, op, None, hc.n)
    BY <2>1 DEF ExecutedOneOf
  <2> QED
    BY <2>1, <2>2, Zenon DEF Executed, TxnAfter, ResidueAfter, Fails
<1>8. ASSUME NEW c \in Clients, Held(c, ses[c], srv[b], sent[c])
      PROVE  Held(c, ses[c], v, sent[c])
  <2>1. ASSUME ses[c].pos = "reading" PROVE Exchange(v, AllKinds, c, sent[c])
    BY <1>1, <1>4, <1>5, <1>8, <2>1, ExecuteOne, Zenon DEF Held
  <2>2. ASSUME ses[c].pos = "draining" PROVE Exchange(v, {"ROLLBACK"}, None, 0)
    BY <1>1, <1>4, <1>5, <1>8, <2>2, ExecuteOne, Zenon DEF Held
  <2>3. ASSUME ses[c].pos = "resetting"
        PROVE  /\ Exchange(v, {"DISCARD ALL"}, None, 0)
               /\ v.outq # <<>> /\ Head(v.outq).type # "E" => v.txn = "I" /\ v.residue = {}
    <3>1. Exchange(srv[b], {"DISCARD ALL"}, None, 0)
      BY <1>8, <2>3, Zenon DEF Held
    <3>2. /\ Exchange(v, {"DISCARD ALL"}, None, 0)
          /\ ExecutedOneOf(b, v, {"DISCARD ALL"}, None, 0)
      BY <1>1, <1>4, <1>5, <3>1, ExecuteOne, Zenon
    <3>3. Executed(b, v, "DISCARD ALL", None, 0)
      BY <3>2, Zenon DEF ExecutedOneOf
    <3>4. ~Fails(b, "DISCARD ALL") => v.txn = "I" /\ v.residue = {}
      BY <3>3 DEF Executed, TxnAfter, ResidueAfter, Fails
    <3> QED
      BY <3>2, <3>3, <3>4, Zenon DEF Executed
  <2> QED
    BY <1>6, <1>8, <2>1, <2>2, <2>3, Zenon DEF Held, Fresh
<1> QED
  BY <1>2, <1>5, <1>6, <1>7, <1>8, BackendMoves, Zenon DEF Fresh

\* The fields BackendLost leaves alone.
LEMMA LostFields ==
  ASSUME NEW r \in Servers, NEW x \in BOOLEAN, NEW e \in Seq(Messages)
  PROVE  LET v == [r EXCEPT !.broken = x, !.inq = e] IN
         /\ v \in Servers /\ v.where = r.where /\ v.inq = e /\ v.outq = r.outq
         /\ v.txn = r.txn /\ v.residue = r.residue
BY Zenon DEF Servers

\* BackendLost empties the stream to the backend; what it has sent stays.
LEMMA BackendLostKeeps ==
  ASSUME Inv, NEW b \in Backends, BackendLost(b) PROVE Inv'
<1> DEFINE v == [srv[b] EXCEPT !.broken = TRUE, !.inq = <<>>]
<1>1. srv[b] \in Servers
  BY DEF Inv, Types
<1>2. srv' = [srv EXCEPT ![b] = v] /\ ses' = ses /\ sent' = sent /\ hc' = hc
  BY Zenon DEF BackendLost
<1>0. <<>> \in Seq(Messages)
  <2>1. \A S : <<>> \in Seq(S)
    OBVIOUS
  <2> QED
    BY <2>1
<1>3. /\ v \in Servers /\ v.where = srv[b].where /\ v.inq = <<>> /\ v.outq = srv[b].outq
      /\ v.txn = srv[b].txn /\ v.residue = srv[b].residue
  BY <1>0, <1>1, LostFields, TRUE \in BOOLEAN, Zenon
<1>4. v.cut = srv[b].cut
  BY <1>1 DEF Servers
<1> HIDE DEF v
<1>5. \A Ops, by, n : Exchange(srv[b], Ops, by, n) => Exchange(v, Ops, by, n)
  BY <1>3 DEF Exchange, Quiet
<1>6. Fresh(srv[b]) => Fresh(v)
  BY <1>3 DEF Fresh, Quiet
<1>7. Checked(hc, srv[b]) => Checked(hc, v)
  BY <1>3, <1>5, <1>6 DEF Checked
<1>8. ASSUME NEW c \in Clients PROVE Held(c, ses[c], srv[b], sent[c]) => Held(c, ses[c], v, sent[c])
  BY <1>3, <1>5, <1>6, Zenon DEF Held, Quiet
<1> QED
  BY <1>2, <1>3, <1>4, <1>6, <1>7, <1>8, BackendMoves, Zenon

\* DeadlinePasses changes nothing on the streams.
LEMMA DeadlineKeeps ==
  ASSUME Inv, NEW b \in Backends, DeadlinePasses(b) PROVE Inv'
<1> DEFINE v == [srv[b] EXCEPT !.deadline = "past"]
<1>1. srv[b] \in Servers
  BY DEF Inv, Types
<1>2. srv' = [srv EXCEPT ![b] = v] /\ ses' = ses /\ sent' = sent /\ hc' = hc
  BY DEF DeadlinePasses
<1>3. /\ v \in Servers /\ v.where = srv[b].where /\ v.inq = srv[b].inq /\ v.outq = srv[b].outq
      /\ v.txn = srv[b].txn /\ v.residue = srv[b].residue
  BY <1>1 DEF Servers
<1>4. v.cut = srv[b].cut
  BY <1>1 DEF Servers
<1> HIDE DEF v
<1>5. \A Ops, by, n : Exchange(srv[b], Ops, by, n) => Exchange(v, Ops, by, n)
  BY <1>3, Zenon DEF Exchange, Quiet
<1>6. Fresh(srv[b]) => Fresh(v)
  BY <1>3 DEF Fresh, Quiet
<1>7. Checked(hc, srv[b]) => Checked(hc, v)
  BY <1>3, <1>5, <1>6 DEF Checked
<1>8. ASSUME NEW c \in Clients PROVE Held(c, ses[c], srv[b], sent[c]) => Held(c, ses[c], v, sent[c])
  BY <1>3, <1>5, <1>6, Zenon DEF Held, Quiet
<1> QED
  BY <1>2, <1>3, <1>4, <1>6, <1>7, <1>8, BackendMoves, Zenon

-----------------------------------------------------------------------------
(* The steps of a session *)

\* A session that holds no backend ends.
LEMMA EndWithout ==
  ASSUME Inv, NEW c \in Clients, ses[c].be = None, End(c), srv' = srv, sent' = sent, hc' = hc
  PROVE  Inv'
BY SessionFacts, Blank, SessionStays, Zenon DEF End

Takes(c, b, p) ==
  /\ srv' = [srv EXCEPT ![b].where = "used"]
  /\ ses' = [ses EXCEPT ![c].pos = p, ![c].be = b]

\* A session gets a backend from the pool, at its start or for a message.
LEMMA Acquires ==
  ASSUME Inv, NEW c \in Clients, NEW b \in Backends, NEW p \in {"greeting", "forward"},
         ses[c].pos \in {"away", "acquire"}, srv[b].where # "used",
         Takes(c, b, p), sent' = sent, hc' = hc
  PROVE  Inv'
<1> DEFINE v == [srv[b] EXCEPT !.where = "used"]
           s == [ses[c] EXCEPT !.pos = p, !.be = b]
<1>1. ses[c] \in Sessions /\ Placed(ses[c]) /\ srv[b] \in Servers
  BY SessionFacts DEF Inv, Types
<1>2. ses[c].be = None /\ ses[c].told = "I" /\ ~ses[c].pinned
  BY <1>1 DEF Placed
<1>3. /\ v \in Servers /\ v.where = "used" /\ v.inq = srv[b].inq /\ v.outq = srv[b].outq
      /\ v.txn = srv[b].txn /\ v.residue = srv[b].residue
  BY <1>1, SMTT(30) DEF Servers
<1>4. v.cut = srv[b].cut
  BY <1>1 DEF Servers
<1>5. p \in Positions
  BY DEF Positions
<1>6. s \in Sessions /\ s.pos = p /\ s.be = b /\ s.told = "I"
  BY <1>1, <1>2, <1>5, Zenon DEF Sessions
<1>7. s.pinned = ses[c].pinned
  BY <1>1 DEF Sessions
<1>8. srv' = [srv EXCEPT ![b] = v] /\ ses' = [ses EXCEPT ![c] = s]
  BY Zenon DEF Takes
<1> HIDE DEF v, s
<1>9. Placed(s)
  BY <1>2, <1>6, <1>7, RelayAssumption DEF Placed
<1>10. ~v.cut => Held(c, s, v, sent[c])
  <2>1. ~srv[b].cut => Fresh(srv[b])
    BY DEF Inv
  <2> QED
    BY <1>3, <1>4, <1>6, <2>1, Zenon DEF Held, Fresh, Quiet
<1> QED
  BY <1>2, <1>3, <1>6, <1>8, <1>9, <1>10, Moves, Zenon

\* Connect.
LEMMA ConnectKeeps == ASSUME Inv, NEW c \in Clients, Connect(c) PROVE Inv'
<1>1. PICK b \in Backends :
        /\ srv[b].where # "used"
        /\ srv' = [srv EXCEPT ![b].where = "used"]
        /\ ses' = [ses EXCEPT ![c].pos = "greeting", ![c].be = b]
  BY Zenon DEF Connect
<1> QED
  BY <1>1, Acquires, Zenon DEF Connect, Takes

\* Reacquire.
LEMMA ReacquireKeeps == ASSUME Inv, NEW c \in Clients, Reacquire(c) PROVE Inv'
<1>1. ses[c].be = None
  BY SessionFacts DEF Reacquire, Placed
<1> QED
  BY <1>1, Acquires, EndWithout, Zenon DEF Reacquire, Takes

\* A backend put into the pool with empty streams, no transaction and no residue.
LEMMA Pooled ==
  ASSUME NEW r \in Servers
  PROVE  LET v == [r EXCEPT !.where = "idle"] IN
         /\ v \in Servers /\ v.where = "idle" /\ v.inq = r.inq /\ v.outq = r.outq
         /\ v.txn = r.txn /\ v.residue = r.residue /\ (v.cut <=> r.cut)
<1>1. LET v == [r EXCEPT !.where = "idle"] IN
        /\ v \in Servers /\ v.where = "idle" /\ v.inq = r.inq /\ v.outq = r.outq
        /\ v.txn = r.txn /\ v.residue = r.residue
  BY DEF Servers
<1>2. LET v == [r EXCEPT !.where = "idle"] IN v.cut = r.cut
  BY DEF Servers
<1> QED
  BY <1>1, <1>2

\* Greet.
LEMMA GreetKeeps == ASSUME Inv, NEW c \in Clients, Greet(c) PROVE Inv'
<1> DEFINE b == ses[c].be
           v == [srv[b] EXCEPT !.where = "idle"]
<1>1. ses[c].pos = "greeting" /\ b # None /\ b \in Backends /\ srv[b] \in Servers
  BY SessionFacts DEF Greet, Placed
<1>2. CASE Close(b) /\ End(c)
  BY <1>1, <1>2, CloseAndEnd DEF Greet
<1>3. CASE /\ srv' = [srv EXCEPT ![b].where = "idle"]
           /\ ses' = [ses EXCEPT ![c].pos = "top", ![c].be = None]
  <2>1. /\ v \in Servers /\ v.where = "idle" /\ v.inq = srv[b].inq /\ v.outq = srv[b].outq
        /\ v.txn = srv[b].txn /\ v.residue = srv[b].residue /\ (v.cut <=> srv[b].cut)
    BY <1>1, Pooled
  <2>2. srv' = [srv EXCEPT ![b] = v]
    BY <1>3
  <2> HIDE DEF v
  <2>3. ~v.cut => Fresh(v)
    BY <1>1, <2>1, SessionFacts, Zenon DEF Held, Fresh, Quiet
  <2> QED
    BY <1>1, <1>3, <2>1, <2>2, <2>3, GiveUpBackend, Zenon DEF Greet
<1> QED
  BY <1>2, <1>3 DEF Greet

\* LoopTop.
LEMMA LoopTopKeeps == ASSUME Inv, NEW c \in Clients, LoopTop(c) PROVE Inv'
BY MoveOn, EndWithout DEF LoopTop

\* Disconnected.
LEMMA DisconnectedKeeps == ASSUME Inv, NEW c \in Clients, Disconnected(c) PROVE Inv'
BY MoveOn, EndWithout DEF Disconnected

\* ReadMessage: over empty streams.
LEMMA ReadMessageKeeps == ASSUME Inv, NEW c \in Clients, ReadMessage(c) PROVE Inv'
<1>1. PICK k \in Kinds :
        ses' = [ses EXCEPT ![c].kind = k,
                           ![c].pos = IF ses[c].be = None THEN "acquire" ELSE "forward"]
  BY Zenon DEF ReadMessage
<1> DEFINE p == IF ses[c].be = None THEN "acquire" ELSE "forward"
           s == [ses[c] EXCEPT !.kind = k, !.pos = p]
<1>2. ses[c] \in Sessions /\ Placed(ses[c]) /\ ses[c].pos = "ready" /\ sent[c] + 1 \in Nat
  BY SessionFacts DEF ReadMessage
<1>3. k \in AllKinds /\ p \in Positions
  BY RelayAssumption DEF Positions
<1>4. sent' = [sent EXCEPT ![c] = sent[c] + 1] /\ srv' = srv /\ hc' = hc
  BY DEF ReadMessage
<1>5. ses' = [ses EXCEPT ![c] = s]
  BY <1>1, Zenon
<1>6. (p = "acquire" /\ ses[c].be = None) \/ (p = "forward" /\ ses[c].be # None)
  OBVIOUS
<1> HIDE DEF p
<1>7. s \in Sessions /\ s.pos = p /\ s.be = ses[c].be /\ s.told = ses[c].told
  BY <1>2, <1>3, Zenon DEF Sessions
<1>8. s.pinned = ses[c].pinned
  BY <1>2 DEF Sessions
<1> HIDE DEF s
<1>9. Placed(s)
  BY <1>2, <1>6, <1>7, <1>8 DEF Placed
<1>10. ses[c].be # None /\ ~srv[ses[c].be].cut => Held(c, s, srv[ses[c].be], sent[c] + 1)
  BY <1>2, <1>6, <1>7, SessionFacts, Zenon DEF Held
<1> QED
  BY <1>2, <1>4, <1>5, <1>7, <1>9, <1>10, SessionStays, Zenon

\* Terminate: the backend is reset.
LEMMA TerminateKeeps == ASSUME Inv, NEW c \in Clients, Terminate(c) PROVE Inv'
<1>1. CASE ses[c].be = None
  BY <1>1, EndWithout DEF Terminate
<1>2. CASE ses[c].be # None
  <2> DEFINE s == [ses[c] EXCEPT !.pos = "reset", !.then = "away"]
  <2>1. ses[c] \in Sessions /\ ses[c].pos = "ready"
    BY SessionFacts DEF Terminate
  <2>2. ses' = [ses EXCEPT ![c] = s]
    BY <1>2, Zenon DEF Terminate
  <2>3. s \in Sessions /\ s.pos = "reset" /\ s.be = ses[c].be /\ s.then = "away"
    BY <2>1, Zenon DEF Sessions, Positions
  <2> HIDE DEF s
  <2>4. Placed(s)
    BY <1>2, <2>3 DEF Placed
  <2>5. ~srv[ses[c].be].cut => Held(c, s, srv[ses[c].be], sent[c])
    BY <1>2, <2>1, <2>3, SessionFacts, Zenon DEF Held
  <2> QED
    BY <2>2, <2>3, <2>4, <2>5, SessionFacts, SessionStays, Zenon DEF Terminate
<1> QED
  BY <1>1, <1>2

\* What a session keeps when its client goes.
LEMMA GoneFields ==
  ASSUME NEW r \in Sessions, NEW x \in BOOLEAN
  PROVE  LET s == [r EXCEPT !.gone = x] IN
         s \in Sessions /\ s.pos = r.pos /\ s.be = r.be /\ s.then = r.then /\ s.told = r.told
BY DEF Sessions

\* The client's end is noticed when it is next used.
LEMMA ClientGoneKeeps == ASSUME Inv, NEW c \in Clients, ClientGone(c) PROVE Inv'
<1> DEFINE s == [ses[c] EXCEPT !.gone = TRUE]
<1>1. ses[c] \in Sessions /\ Placed(ses[c])
  BY SessionFacts
<1>2. ses' = [ses EXCEPT ![c] = s]
  BY DEF ClientGone
<1>3. /\ s \in Sessions /\ s.pos = ses[c].pos /\ s.be = ses[c].be /\ s.then = ses[c].then
      /\ s.told = ses[c].told
  BY <1>1, GoneFields, TRUE \in BOOLEAN, Zenon
<1>4. s.pinned = ses[c].pinned
  BY <1>1 DEF Sessions
<1> HIDE DEF s
<1>5. Placed(s)
  BY <1>1, <1>3, <1>4 DEF Placed
<1>6. ses[c].be # None /\ ~srv[ses[c].be].cut => Held(c, s, srv[ses[c].be], sent[c])
  BY <1>3, SessionFacts, Zenon DEF Held
<1>7. srv' = srv /\ sent' = sent /\ hc' = hc
  BY DEF ClientGone
<1> QED
  BY <1>2, <1>3, <1>5, <1>6, <1>7, Stays, Zenon

\* What reading a message changes of a backend connection.
LEMMA SkipFields ==
  ASSUME NEW r \in Servers, r.outq # <<>>
  PROVE  LET v == [r EXCEPT !.outq = Tail(r.outq)] IN
         /\ v \in Servers /\ v.where = r.where /\ v.inq = r.inq /\ v.outq = Tail(r.outq)
         /\ v.txn = r.txn /\ v.residue = r.residue /\ (v.cut <=> r.cut)
<1> DEFINE q == Tail(r.outq)
<1>1. q \in Seq(Answers)
  <2>1. r.outq \in Seq(Answers)
    BY DEF Servers
  <2> QED
    BY <2>1, HeadTailProperties
<1> HIDE DEF q
<1>2. LET v == [r EXCEPT !.outq = q] IN
        /\ v \in Servers /\ v.where = r.where /\ v.inq = r.inq /\ v.outq = q
        /\ v.txn = r.txn /\ v.residue = r.residue
  BY <1>1, SMTT(30) DEF Servers
<1>3. LET v == [r EXCEPT !.outq = q] IN v.cut = r.cut
  BY DEF Servers
<1> QED
  BY <1>2, <1>3 DEF q

\* Whom the first message of an answer answers.
LEMMA ExchangeHead ==
  ASSUME NEW v \in Servers, NEW Ops, NEW by, NEW n, v.outq # <<>>, Exchange(v, Ops, by, n)
  PROVE  Head(v.outq).by = by /\ Head(v.outq).n = n
<1> DEFINE w == [inq |-> v.inq, outq |-> Tail(v.outq), txn |-> v.txn]
<1>1. w.inq = v.inq /\ w.outq = Tail(v.outq) /\ w.txn = v.txn
  OBVIOUS
<1> HIDE DEF w
<1> QED
  BY <1>1, ReadingOn, Zenon

\* Forward: the message is the only one on the backend's streams.
LEMMA ForwardKeeps == ASSUME Inv, NEW c \in Clients, Forward(c) PROVE Inv'
<1> DEFINE b == ses[c].be
           x == ses[c].pinned \/ detectSessionPin(ses[c].kind)
           s == [ses[c] EXCEPT !.pos = "reading", !.pinned = x]
<1>1. /\ ses[c] \in Sessions /\ sent[c] \in Nat /\ ses[c].pos = "forward"
      /\ b # None /\ b \in Backends /\ srv[b].where = "used" /\ srv \in [Backends -> Servers]
      /\ ses[c].kind \in AllKinds /\ c # None
  BY SessionFacts, RelayAssumption DEF Forward, Placed, Inv, Types, Sessions
<1>2. CASE Close(b) /\ End(c)
  BY <1>1, <1>2, CloseAndEnd DEF Forward
<1>3. CASE Write(b, ses[c].kind, c, sent[c]) /\ ses' = [ses EXCEPT ![c] = s]
  <2>1. PICK v \in Servers : srv' = [srv EXCEPT ![b] = v] /\ Wrote(b, v, ses[c].kind, c, sent[c])
    BY <1>1, <1>3, WriteStarts, Zenon
  <2>2. x \in BOOLEAN
    BY DEF detectSessionPin
  <2> HIDE DEF x
  <2>3. s \in Sessions /\ s.pos = "reading" /\ s.be = b
    BY <1>1, <2>2, Zenon DEF Sessions, Positions
  <2> HIDE DEF s
  <2>4. Placed(s)
    BY <1>1, <2>3 DEF Placed
  <2>5. ~v.cut => Held(c, s, v, sent[c])
    <3> SUFFICES ASSUME ~v.cut PROVE Exchange(v, AllKinds, c, sent[c])
      BY <2>3 DEF Held
    <3>1. Quiet(srv[b])
      BY <1>1, <2>1, SessionFacts, Zenon DEF Held, Wrote
    <3> QED
      BY <1>1, <2>1, <3>1 DEF Exchange, Quiet, Wrote
  <2>6. v.where = "used" /\ sent' = sent /\ hc' = hc
    BY <1>1, <2>1 DEF Wrote, Forward
  <2> QED
    BY <1>1, <1>3, <2>1, <2>3, <2>4, <2>5, <2>6, Moves, Zenon
<1> QED
  BY <1>2, <1>3, Zenon DEF Forward

\* A session passes over one message of an answer and goes on waiting.
LEMMA SkipsOne ==
  ASSUME Inv, NEW c \in Clients, ses[c].pos \in {"reading", "draining", "resetting"},
         Arrived(c), Incoming(c).type # "Z", ses[c].pos = "resetting" => Incoming(c).type = "C",
         Skip(ses[c].be), ses' = ses, sent' = sent, hc' = hc
  PROVE  Inv'
<1> DEFINE b == ses[c].be
           v == [srv[b] EXCEPT !.outq = Tail(srv[b].outq)]
<1>1. /\ ses[c] \in Sessions /\ b # None /\ b \in Backends /\ srv[b] \in Servers
      /\ Placed(ses[c]) /\ srv[b].where = "used" /\ srv[b].outq # <<>>
  BY SessionFacts DEF Placed, Arrived, Readable
<1>2. srv' = [srv EXCEPT ![b] = v] /\ ses' = [ses EXCEPT ![c] = ses[c]]
  BY DEF Skip, Inv, Types
<1>3. /\ v \in Servers /\ v.where = srv[b].where /\ v.inq = srv[b].inq
      /\ v.outq = Tail(srv[b].outq) /\ v.txn = srv[b].txn /\ v.residue = srv[b].residue
      /\ (v.cut <=> srv[b].cut)
  BY <1>1, SkipFields
<1> HIDE DEF v
<1>4. ASSUME NEW Ops, NEW by, NEW n, Exchange(srv[b], Ops, by, n)
      PROVE  Exchange(v, Ops, by, n)
  <2>1. Head(srv[b].outq).type # "Z"
    BY DEF Incoming
  <2> QED
    BY <1>1, <1>3, <1>4, <2>1, ReadingOn
<1>5. ASSUME ~srv[b].cut PROVE Held(c, ses[c], v, sent[c])
  <2>1. Held(c, ses[c], srv[b], sent[c])
    BY <1>1, <1>5, SessionFacts
  <2>2. CASE ses[c].pos = "reading"
    BY <1>4, <2>1, <2>2 DEF Held
  <2>3. CASE ses[c].pos = "draining"
    BY <1>4, <2>1, <2>3 DEF Held
  <2>4. CASE ses[c].pos = "resetting"
    <3>1. srv[b].txn = "I" /\ srv[b].residue = {}
      BY <1>1, <2>1, <2>4, Zenon DEF Held, Incoming
    <3> QED
      BY <1>3, <1>4, <2>1, <2>4, <3>1, Zenon DEF Held
  <2> QED
    BY <2>2, <2>3, <2>4
<1> QED
  BY <1>1, <1>2, <1>3, <1>5, Moves, Zenon

\* DrainRollback.
LEMMA DrainRollbackKeeps == ASSUME Inv, NEW c \in Clients, DrainRollback(c) PROVE Inv'
<1> DEFINE b == ses[c].be
           v == [srv[b] EXCEPT !.outq = Tail(srv[b].outq)]
           s == [ses[c] EXCEPT !.pos = "reset", !.then = "away"]
<1>1. /\ ses[c] \in Sessions /\ b # None /\ b \in Backends /\ srv[b] \in Servers
      /\ srv[b].where = "used" /\ ses[c].pos = "draining" /\ sent' = sent /\ hc' = hc
  BY SessionFacts DEF Placed, DrainRollback
<1>2. CASE Close(b) /\ End(c)
  BY <1>1, <1>2, CloseAndEnd
<1>3. CASE Arrived(c) /\ Incoming(c).type # "Z" /\ Skip(b) /\ ses' = ses
  BY <1>1, <1>3, SkipsOne
<1>4. CASE /\ Arrived(c) /\ Incoming(c).type = "Z" /\ Skip(b)
           /\ ses' = [ses EXCEPT ![c].pos = "reset", ![c].then = "away"]
  <2>1. srv[b].outq # <<>>
    BY <1>4 DEF Arrived, Readable
  <2>2. /\ v \in Servers /\ v.where = srv[b].where /\ v.inq = srv[b].inq
        /\ v.outq = Tail(srv[b].outq) /\ v.txn = srv[b].txn /\ (v.cut <=> srv[b].cut)
    BY <1>1, <2>1, SkipFields
  <2>3. srv' = [srv EXCEPT ![b] = v] /\ ses' = [ses EXCEPT ![c] = s]
    BY <1>4, Zenon DEF Skip
  <2>4. s \in Sessions /\ s.pos = "reset" /\ s.be = b /\ s.then = "away"
    BY <1>1, Zenon DEF Sessions, Positions
  <2> HIDE DEF s, v
  <2>5. Placed(s)
    BY <1>1, <2>4 DEF Placed
  <2>6. ASSUME ~srv[b].cut PROVE Held(c, s, v, sent[c])
    <3>1. Exchange(srv[b], {"ROLLBACK"}, None, 0)
      BY <1>1, <2>6, SessionFacts, Zenon DEF Held
    <3>2. Quiet(v)
      BY <1>1, <1>4, <2>1, <2>2, <3>1, ReadingOn, Zenon DEF Incoming
    <3> QED
      BY <2>4, <3>2 DEF Held
  <2> QED
    BY <1>1, <2>2, <2>3, <2>4, <2>5, <2>6, Moves, Zenon
<1> QED
  BY <1>2, <1>3, <1>4 DEF DrainRollback

\* A session writes one message of its own over empty streams.
LEMMA WritesOwn ==
  ASSUME Inv, NEW c \in Clients, NEW op \in {"ROLLBACK", "DISCARD ALL"}, NEW p \in Positions,
         \/ ses[c].pos = "cleanup" /\ p = "draining" /\ op = "ROLLBACK"
         \/ ses[c].pos = "reset" /\ p = "resetting" /\ op = "DISCARD ALL",
         Write(ses[c].be, op, None, 0), Goto(c, p), sent' = sent, hc' = hc
  PROVE  Inv'
<1> DEFINE b == ses[c].be
           s == [ses[c] EXCEPT !.pos = p]
<1>1. /\ ses[c] \in Sessions /\ b # None /\ b \in Backends /\ srv \in [Backends -> Servers]
      /\ srv[b].where = "used" /\ Placed(ses[c])
  BY SessionFacts, Zenon DEF Placed, Inv, Types
<1>2. PICK v \in Servers : srv' = [srv EXCEPT ![b] = v] /\ Wrote(b, v, op, None, 0)
  BY <1>1, WriteStarts, Zenon
<1>3. ses' = [ses EXCEPT ![c] = s]
  BY Zenon DEF Goto
<1>4. s \in Sessions /\ s.pos = p /\ s.be = b /\ s.then = ses[c].then /\ s.told = ses[c].told
  BY <1>1, Zenon DEF Sessions
<1>5. s.pinned = ses[c].pinned
  BY <1>1, Zenon DEF Sessions
<1> HIDE DEF s
<1>6. Placed(s)
  BY <1>1, <1>4, <1>5, Zenon DEF Placed
<1>7. ASSUME ~srv[b].cut PROVE Held(c, s, v, sent[c])
  <2>1. Quiet(srv[b])
    BY <1>1, <1>7, SessionFacts, Zenon DEF Held
  <2>2. Exchange(v, {op}, None, 0) /\ v.outq = <<>>
    BY <1>2, <2>1, Zenon DEF Wrote, Exchange, Quiet
  <2> QED
    BY <1>4, <2>2, Zenon DEF Held
<1>8. v.where = "used" /\ v.cut = srv[b].cut
  BY <1>1, <1>2, Zenon DEF Wrote
<1> QED
  BY <1>1, <1>2, <1>3, <1>4, <1>6, <1>7, <1>8, Moves, Zenon

\* cleanupBackend.
LEMMA CleanupKeeps == ASSUME Inv, NEW c \in Clients, cleanupBackend(c) PROVE Inv'
<1>1. ses[c].be # None /\ "draining" \in Positions
  BY SessionFacts DEF Placed, cleanupBackend, Positions
<1> QED
  BY <1>1, CloseAndEnd, WritesOwn, Zenon DEF cleanupBackend

\* resetAndReturn.
LEMMA ResetKeeps == ASSUME Inv, NEW c \in Clients, resetAndReturn(c) PROVE Inv'
<1>1. ses[c].be # None /\ "resetting" \in Positions
  BY SessionFacts, Zenon DEF Placed, resetAndReturn, Positions
<1>2. Close(ses[c].be) /\ LetGo(c) => Inv'
  BY <1>1, Blank, GiveUpBackend, Zenon DEF resetAndReturn, Close
<1> QED
  BY <1>1, <1>2, WritesOwn, Zenon DEF resetAndReturn

\* ReadReset: an idle ReadyForQuery comes from a backend that executed DISCARD ALL.
LEMMA ReadResetKeeps == ASSUME Inv, NEW c \in Clients, ReadReset(c) PROVE Inv'
<1> DEFINE b == ses[c].be
           q == Tail(srv[b].outq)
           v == [srv[b] EXCEPT !.outq = q, !.where = "idle"]
<1>1. /\ ses[c] \in Sessions /\ b # None /\ b \in Backends /\ srv[b] \in Servers
      /\ srv[b].where = "used" /\ ses[c].pos = "resetting" /\ sent' = sent /\ hc' = hc
  BY SessionFacts DEF Placed, ReadReset
<1>2. CASE Close(b) /\ LetGo(c)
  BY <1>1, <1>2, Blank, GiveUpBackend, Zenon DEF Close
<1>3. CASE Arrived(c) /\ Incoming(c).type = "C" /\ Skip(b) /\ ses' = ses
  BY <1>1, <1>3, SkipsOne
<1>4. CASE /\ Arrived(c) /\ Incoming(c).type = "Z" /\ Incoming(c).status = "I"
           /\ srv' = [srv EXCEPT ![b].outq = Tail(@), ![b].where = "idle"]
           /\ LetGo(c)
  <2>1. srv[b].outq # <<>> /\ srv[b].outq \in Seq(Answers)
    BY <1>1, <1>4 DEF Arrived, Readable, Servers
  <2>2. srv' = [srv EXCEPT ![b] = v]
    BY <1>4, Zenon
  <2>3. q \in Seq(Answers) /\ q = Tail(srv[b].outq)
    BY <2>1, HeadTailProperties
  <2> HIDE DEF q
  <2>4. /\ v \in Servers /\ v.where = "idle" /\ v.inq = srv[b].inq
        /\ v.outq = q /\ v.txn = srv[b].txn /\ v.residue = srv[b].residue
    BY <1>1, <2>3, Zenon DEF Servers
  <2>5. v.cut = srv[b].cut
    BY <1>1 DEF Servers
  <2> HIDE DEF v
  <2>6. ASSUME ~srv[b].cut PROVE Fresh(v)
    <3>1. Held(c, ses[c], srv[b], sent[c])
      BY <1>1, <2>6, SessionFacts
    <3>2. Exchange(srv[b], {"DISCARD ALL"}, None, 0) /\ srv[b].txn = "I" /\ srv[b].residue = {}
      BY <1>1, <1>4, <2>1, <3>1, Zenon DEF Held, Incoming
    <3>3. Quiet(v)
      BY <1>1, <1>4, <2>1, <2>3, <2>4, <3>2, ReadingOn, Zenon DEF Incoming
    <3> QED
      BY <2>4, <3>2, <3>3, Zenon DEF Fresh
  <2> QED
    BY <1>1, <1>4, <2>2, <2>4, <2>5, <2>6, GiveUpBackend, Zenon
<1> QED
  BY <1>2, <1>3, <1>4 DEF ReadReset

ReadsForNobody(c) ==
  srv' = [srv EXCEPT ![ses[c].be].outq = Tail(@),
                     ![ses[c].be].cut = @ \/ Incoming(c).type # "Z"]

\* ReadAnswer, when the client is gone: the backend is cleaned up, and cut off from
\* the rest of the answer unless this was its end.
LEMMA ReadForNobodyKeeps ==
  ASSUME Inv, NEW c \in Clients, ses[c].pos = "reading", Arrived(c),
         ReadsForNobody(c), Goto(c, "cleanup"), sent' = sent, hc' = hc
  PROVE  Inv'
<1> DEFINE b == ses[c].be
           q == Tail(srv[b].outq)
           x == srv[b].cut \/ Incoming(c).type # "Z"
           v == [srv[b] EXCEPT !.outq = q, !.cut = x]
           s == [ses[c] EXCEPT !.pos = "cleanup"]
<1>1. /\ ses[c] \in Sessions /\ b # None /\ b \in Backends /\ srv[b] \in Servers
      /\ srv[b].where = "used" /\ srv[b].outq # <<>> /\ srv[b].outq \in Seq(Answers)
  BY SessionFacts DEF Placed, Arrived, Readable, Servers
<1>2. srv' = [srv EXCEPT ![b] = v] /\ ses' = [ses EXCEPT ![c] = s]
  BY Zenon DEF Goto, ReadsForNobody
<1>3. q \in Seq(Answers) /\ q = Tail(srv[b].outq)
  BY <1>1, HeadTailProperties
<1>4. x \in BOOLEAN
  BY <1>1 DEF Servers
<1>5. ~x => ~srv[b].cut /\ Head(srv[b].outq).type = "Z"
  BY DEF Incoming
<1> HIDE DEF q, x
<1>6. /\ v \in Servers /\ v.where = srv[b].where /\ v.inq = srv[b].inq
      /\ v.outq = q /\ v.txn = srv[b].txn
  BY <1>1, <1>3, <1>4, Zenon DEF Servers
<1>7. v.cut = x
  BY <1>1, <1>4 DEF Servers
<1>8. s \in Sessions /\ s.pos = "cleanup" /\ s.be = b
  BY <1>1 DEF Sessions, Positions
<1> HIDE DEF s, v
<1>9. Placed(s)
  BY <1>1, <1>8 DEF Placed
<1>10. ASSUME ~x PROVE Held(c, s, v, sent[c])
  <2>1. Exchange(srv[b], AllKinds, c, sent[c])
    BY <1>1, <1>5, <1>10, SessionFacts, Zenon DEF Held
  <2>2. Quiet(v)
    BY <1>1, <1>3, <1>5, <1>6, <1>10, <2>1, ReadingOn, Zenon
  <2> QED
    BY <1>8, <2>2 DEF Held
<1> QED
  BY <1>1, <1>2, <1>6, <1>7, <1>8, <1>9, <1>10, Moves, Zenon

\* ReadAnswer: the status of the ReadyForQuery is the backend's.
LEMMA ReadAnswerKeeps == ASSUME Inv, NEW c \in Clients, ReadAnswer(c) PROVE Inv'
<1> DEFINE b == ses[c].be
           v == [srv[b] EXCEPT !.outq = Tail(srv[b].outq)]
           t == Incoming(c).status
           p == AfterReady(c)
           s == [ses[c] EXCEPT !.told = t, !.then = "top", !.pos = p]
<1>1. /\ ses[c] \in Sessions /\ b # None /\ b \in Backends /\ srv[b] \in Servers
      /\ srv[b].where = "used" /\ ses[c].pos = "reading" /\ sent' = sent /\ hc' = hc
  BY SessionFacts DEF Placed, ReadAnswer
<1>2. CASE Close(b) /\ End(c)
  BY <1>1, <1>2, CloseAndEnd
<1>3. CASE /\ Arrived(c)
           /\ srv' = [srv EXCEPT ![b].outq = Tail(@), ![b].cut = @ \/ Incoming(c).type # "Z"]
           /\ Goto(c, "cleanup")
  BY <1>1, <1>3, ReadForNobodyKeeps, Zenon DEF ReadsForNobody
<1>4. CASE Arrived(c) /\ ~EndsAnswer(c) /\ Skip(b) /\ ses' = ses
  BY <1>1, <1>4, SkipsOne DEF EndsAnswer
<1>5. CASE /\ Arrived(c) /\ EndsAnswer(c) /\ Skip(b)
           /\ ses' = [ses EXCEPT ![c].told = Incoming(c).status, ![c].then = "top",
                                 ![c].pos = AfterReady(c)]
  <2>1. srv[b].outq # <<>> /\ srv[b].outq \in Seq(Answers)
    BY <1>1, <1>5 DEF Arrived, Readable, Servers
  <2>2. /\ v \in Servers /\ v.where = srv[b].where /\ v.inq = srv[b].inq
        /\ v.outq = Tail(srv[b].outq) /\ v.txn = srv[b].txn /\ (v.cut <=> srv[b].cut)
    BY <1>1, <2>1, SkipFields
  <2>3. srv' = [srv EXCEPT ![b] = v] /\ ses' = [ses EXCEPT ![c] = s]
    BY <1>5, Zenon DEF Skip
  <2>4. t \in {"I", "T", "E"} /\ Head(srv[b].outq).type = "Z" /\ t = Head(srv[b].outq).status
    <3>1. Head(srv[b].outq) \in Answers
      BY <2>1, HeadTailProperties
    <3> QED
      BY <1>5, <3>1, Zenon DEF EndsAnswer, Incoming, Answers
  <2>5. (t = "I" /\ ~ses[c].pinned /\ p = "reset") \/ p = "top"
    BY DEF AfterReady
  <2>6. p \in Positions
    BY <2>5 DEF Positions
  <2> HIDE DEF v, t, p
  <2>7. s \in Sessions /\ s.pos = p /\ s.be = b /\ s.told = t
    BY <1>1, <2>4, <2>6, Zenon DEF Sessions
  <2>8. s.pinned = ses[c].pinned
    BY <1>1 DEF Sessions
  <2> HIDE DEF s
  <2>9. Placed(s)
    BY <1>1, <2>5, <2>7, <2>8 DEF Placed
  <2>10. ASSUME ~srv[b].cut PROVE Held(c, s, v, sent[c])
    <3>1. Exchange(srv[b], AllKinds, c, sent[c])
      BY <1>1, <2>10, SessionFacts, Zenon DEF Held
    <3>2. Quiet(v) /\ t = srv[b].txn
      BY <1>1, <2>1, <2>2, <2>4, <3>1, ReadingOn, Zenon
    <3> QED
      BY <2>2, <2>5, <2>7, <3>2, Zenon DEF Held
  <2> QED
    BY <1>1, <2>2, <2>3, <2>7, <2>9, <2>10, Moves, Zenon
<1> QED
  BY <1>2, <1>3, <1>4, <1>5 DEF ReadAnswer

-----------------------------------------------------------------------------
(* The steps of the health check *)

\* What the invariant says of the check and of the backend it holds.
LEMMA CheckFacts ==
  ASSUME Inv
  PROVE  /\ hc \in Checks /\ (hc.pos = "rest" <=> hc.be = None)
         /\ hc.be # None =>
              /\ hc.be \in Backends /\ srv[hc.be] \in Servers
              /\ srv[hc.be].where = "used"
              /\ ~srv[hc.be].cut => Checked(hc, srv[hc.be])
<1>1. hc \in Checks /\ (hc.pos = "rest" <=> hc.be = None)
  BY DEF Inv, Types, CheckOwns
<1>2. hc.be # None => hc.be \in Backends
  BY <1>1 DEF Checks
<1> QED
  BY <1>1, <1>2 DEF Inv, Types, CheckOwns

\* BeginCheck.
LEMMA BeginCheckKeeps == ASSUME Inv, BeginCheck PROVE Inv'
<1>1. PICK b \in Backends :
        /\ srv[b].where # "used"
        /\ srv' = [srv EXCEPT ![b].where = "used", ![b].deadline = "set"]
        /\ hc' = [pos |-> "send", be |-> b, n |-> hc.n + 1]
  BY Zenon DEF BeginCheck
<1> DEFINE v == [srv[b] EXCEPT !.where = "used", !.deadline = "set"]
           h == [pos |-> "send", be |-> b, n |-> hc.n + 1]
<1>2. hc.be = None /\ srv[b] \in Servers /\ hc.n + 1 \in Nat
  BY CheckFacts DEF BeginCheck, Inv, Types, Checks
<1>3. h \in Checks /\ h.pos = "send" /\ h.be = b
  BY <1>2 DEF Checks
<1>4. srv' = [srv EXCEPT ![b] = v] /\ hc' = h
  BY <1>1, Zenon
<1>5. /\ v \in Servers /\ v.where = "used" /\ v.inq = srv[b].inq /\ v.outq = srv[b].outq
      /\ v.txn = srv[b].txn /\ v.residue = srv[b].residue
  BY <1>2, Zenon DEF Servers
<1>6. v.cut = srv[b].cut
  BY <1>2 DEF Servers
<1> HIDE DEF h, v
<1>7. ~v.cut => Checked(h, v)
  <2>1. ~srv[b].cut => Fresh(srv[b])
    BY <1>1 DEF Inv
  <2> QED
    BY <1>3, <1>5, <1>6, <2>1 DEF Checked, Fresh, Quiet
<1>8. ses' = ses /\ sent' = sent
  BY DEF BeginCheck
<1>9. srv[b].where # "used"
  BY <1>1
<1> QED
  BY <1>2, <1>3, <1>4, <1>5, <1>7, <1>8, <1>9, CheckMoves, Zenon

\* The check gives its backend back.
LEMMA CheckEnds ==
  ASSUME Inv, hc.pos # "rest", NEW v \in Servers, srv' = [srv EXCEPT ![hc.be] = v], EndCheck,
         v.where = "idle", ~v.cut => Fresh(v), ses' = ses, sent' = sent
  PROVE  Inv'
<1> DEFINE h == [hc EXCEPT !.pos = "rest", !.be = None]
<1>1. hc \in Checks /\ hc.be \in Backends
  BY CheckFacts
<1>2. h \in Checks /\ h.pos = "rest" /\ h.be = None
  BY <1>1, Zenon DEF Checks
<1>3. hc' = h
  BY DEF EndCheck
<1> HIDE DEF h
<1> QED
  BY <1>1, <1>2, <1>3, CheckMoves, Zenon

\* A closed connection that the check puts into the pool has empty streams.
LEMMA ClosedFields ==
  ASSUME NEW x \in BOOLEAN
  PROVE  LET v == [Unused EXCEPT !.where = "idle", !.shut = x] IN
         v \in Servers /\ v.where = "idle" /\ Fresh(v)
<1>1. Unused \in Servers /\ Fresh(Unused)
  BY Blank
<1> DEFINE v == [Unused EXCEPT !.where = "idle", !.shut = x]
<1>2. /\ v \in Servers /\ v.where = "idle" /\ v.inq = Unused.inq /\ v.outq = Unused.outq
      /\ v.txn = Unused.txn /\ v.residue = Unused.residue
  BY <1>1, Zenon DEF Servers
<1> HIDE DEF v
<1>3. v \in Servers /\ v.where = "idle" /\ Fresh(v)
  BY <1>1, <1>2 DEF Fresh, Quiet
<1> QED
  BY <1>3 DEF v

\* The check closes its connection and puts it into the pool.
LEMMA CheckCloses ==
  ASSUME Inv, hc.pos # "rest", ReturnClosed, EndCheck, ses' = ses, sent' = sent
  PROVE  Inv'
<1> DEFINE v == [Unused EXCEPT !.where = "idle", !.shut = TRUE]
<1>1. v \in Servers /\ v.where = "idle" /\ Fresh(v)
  BY ClosedFields, TRUE \in BOOLEAN, Zenon
<1>2. srv' = [srv EXCEPT ![hc.be] = v]
  BY DEF ReturnClosed
<1> HIDE DEF v
<1> QED
  BY <1>1, <1>2, CheckEnds, Zenon

\* SendCheck.
LEMMA SendCheckKeeps == ASSUME Inv, SendCheck PROVE Inv'
<1> DEFINE b == hc.be
           h == [hc EXCEPT !.pos = "reading"]
<1>1. /\ hc \in Checks /\ hc.pos = "send" /\ b # None /\ b \in Backends /\ srv[b].where = "used"
      /\ srv \in [Backends -> Servers] /\ ses' = ses /\ sent' = sent /\ hc.n \in Nat
  BY CheckFacts DEF SendCheck, Inv, Types, Checks
<1>2. CASE ReturnClosed /\ EndCheck
  BY <1>1, <1>2, CheckCloses
<1>3. CASE (\E op \in {"query", "fail"} : Write(b, op, None, hc.n)) /\ hc' = h
  <2>1. PICK op \in {"query", "fail"} : Write(b, op, None, hc.n)
    BY <1>3
  <2>2. op \in AllKinds
    BY DEF AllKinds
  <2>3. PICK v \in Servers : srv' = [srv EXCEPT ![b] = v] /\ Wrote(b, v, op, None, hc.n)
    BY <1>1, <2>1, <2>2, WriteStarts, Zenon
  <2>4. h \in Checks /\ h.pos = "reading" /\ h.be = b /\ h.n = hc.n
    BY <1>1 DEF Checks
  <2> HIDE DEF h
  <2>5. ASSUME ~srv[b].cut PROVE Checked(h, v)
    <3>1. Fresh(srv[b])
      BY <1>1, <2>5, CheckFacts DEF Checked
    <3>2. Exchange(v, {"query", "fail"}, None, hc.n)
      BY <2>3, <3>1 DEF Wrote, Exchange, Quiet, Fresh
    <3>3. v.txn = "I" /\ v.residue = {}
      BY <2>3, <3>1 DEF Wrote, Fresh
    <3> QED
      BY <2>4, <3>2, <3>3 DEF Checked
  <2>6. v.where = "used" /\ v.cut = srv[b].cut
    BY <1>1, <2>3 DEF Wrote
  <2> QED
    BY <1>1, <1>3, <2>3, <2>4, <2>5, <2>6, CheckMoves, Zenon
<1> QED
  BY <1>2, <1>3 DEF SendCheck

\* The check gives back its backend after a message that ends the answer or an error.
LEMMA CheckReturns ==
  ASSUME Inv, hc.pos = "reading", Readable(hc.be), NEW e \in BOOLEAN,
         Head(srv[hc.be].outq).type \in {"E", "Z"}, e <=> Head(srv[hc.be].outq).type = "E",
         ReturnChecked(e), EndCheck, ses' = ses, sent' = sent
  PROVE  Inv'
<1> DEFINE b == hc.be
           q == Tail(srv[b].outq)
           x == srv[b].cut \/ e
           v == [srv[b] EXCEPT !.where = "idle", !.outq = q, !.cut = x]
<1>1. /\ b # None /\ b \in Backends /\ srv[b] \in Servers
      /\ srv[b].outq # <<>> /\ srv[b].outq \in Seq(Answers)
  BY CheckFacts DEF Readable, Servers
<1>2. srv' = [srv EXCEPT ![b] = v]
  BY Zenon DEF ReturnChecked
<1>3. q \in Seq(Answers) /\ q = Tail(srv[b].outq)
  BY <1>1, HeadTailProperties
<1>4. x \in BOOLEAN
  BY <1>1 DEF Servers
<1>5. ~x => ~srv[b].cut /\ Head(srv[b].outq).type = "Z"
  OBVIOUS
<1> HIDE DEF q, x
<1>6. /\ v \in Servers /\ v.where = "idle" /\ v.inq = srv[b].inq
      /\ v.outq = q /\ v.txn = srv[b].txn /\ v.residue = srv[b].residue
  BY <1>1, <1>3, <1>4, Zenon DEF Servers
<1>7. v.cut = x
  BY <1>1, <1>4 DEF Servers
<1> HIDE DEF v
<1>8. ASSUME ~x PROVE Fresh(v)
  <2>1. /\ Exchange(srv[b], {"query", "fail"}, None, hc.n)
        /\ srv[b].txn = "I" /\ srv[b].residue = {}
    BY <1>1, <1>5, <1>8, CheckFacts DEF Checked
  <2>2. Quiet(v)
    BY <1>1, <1>3, <1>5, <1>6, <1>8, <2>1, ReadingOn, Zenon
  <2> QED
    BY <1>6, <2>1, <2>2 DEF Fresh
<1> QED
  BY <1>1, <1>2, <1>6, <1>7, <1>8, CheckEnds, Zenon

\* ReadCheck.
LEMMA ReadCheckKeeps == ASSUME Inv, ReadCheck PROVE Inv'
<1> DEFINE b == hc.be
           v == [srv[b] EXCEPT !.outq = Tail(srv[b].outq)]
<1>1. /\ hc \in Checks /\ hc.pos = "reading" /\ b # None /\ b \in Backends
      /\ srv[b] \in Servers /\ srv[b].where = "used" /\ ses' = ses /\ sent' = sent
  BY CheckFacts DEF ReadCheck
<1>2. CASE ReturnClosed /\ EndCheck
  BY <1>1, <1>2, CheckCloses
<1>3. CASE Readable(b) /\ Head(srv[b].outq).type = "C" /\ Skip(b) /\ hc' = hc
  <2>1. srv[b].outq # <<>>
    BY <1>3 DEF Readable
  <2>2. /\ v \in Servers /\ v.where = srv[b].where /\ v.inq = srv[b].inq
        /\ v.outq = Tail(srv[b].outq) /\ v.txn = srv[b].txn /\ v.residue = srv[b].residue
        /\ (v.cut <=> srv[b].cut)
    BY <1>1, <2>1, SkipFields
  <2>3. srv' = [srv EXCEPT ![b] = v]
    BY <1>3 DEF Skip
  <2> HIDE DEF v
  <2>4. ASSUME ~srv[b].cut PROVE Checked(hc, v)
    <3>1. /\ Exchange(srv[b], {"query", "fail"}, None, hc.n)
          /\ srv[b].txn = "I" /\ srv[b].residue = {}
      BY <1>1, <2>4, CheckFacts DEF Checked
    <3>2. Exchange(v, {"query", "fail"}, None, hc.n)
      BY <1>1, <1>3, <2>1, <2>2, <3>1, ReadingOn
    <3> QED
      BY <1>1, <2>2, <3>1, <3>2 DEF Checked
  <2> QED
    BY <1>1, <1>3, <2>2, <2>3, <2>4, CheckMoves, Zenon
<1>4. CASE /\ Readable(b) /\ Head(srv[b].outq).type \in {"E", "Z"}
           /\ ReturnChecked(Head(srv[b].outq).type = "E") /\ EndCheck
  BY <1>1, <1>4, CheckReturns, Zenon
<1> QED
  BY <1>2, <1>3, <1>4 DEF ReadCheck

-----------------------------------------------------------------------------
(* The theorems *)

\* In the beginning nothing is connected.
LEMMA InitInv == Init => Inv
<1> SUFFICES ASSUME Init PROVE Inv
  OBVIOUS
<1>1. /\ srv = [b \in Backends |-> Unused] /\ ses = [c \in Clients |-> Away]
      /\ sent = [c \in Clients |-> 0] /\ hc = [pos |-> "rest", be |-> None, n |-> 0]
  BY DEF Init
<1>2. hc \in Checks /\ hc.pos = "rest" /\ hc.be = None
  BY <1>1 DEF Checks
<1>3. Types
  BY <1>1, <1>2, Blank DEF Types
<1> QED
  BY <1>1, <1>2, <1>3, Blank DEF Inv, Owns, CheckOwns, Exclusive, UsedIsHeld

\* Every step keeps the invariant.
LEMMA StepInv == Inv /\ [Next]_vars => Inv'
<1> SUFFICES ASSUME Inv, [Next]_vars PROVE Inv'
  OBVIOUS
<1>1. ASSUME NEW c \in Clients, RelayStep(c) PROVE Inv'
  BY <1>1, GreetKeeps, LoopTopKeeps, DisconnectedKeeps, ReacquireKeeps, ForwardKeeps,
     ReadAnswerKeeps, CleanupKeeps, DrainRollbackKeeps, ResetKeeps, ReadResetKeeps
     DEF RelayStep
<1>2. ASSUME NEW c \in Clients, ClientStep(c) PROVE Inv'
  BY <1>2, ConnectKeeps, ReadMessageKeeps, TerminateKeeps, ClientGoneKeeps DEF ClientStep
<1>3. CASE CheckStep
  BY <1>3, BeginCheckKeeps, SendCheckKeeps, ReadCheckKeeps DEF CheckStep
<1>4. ASSUME NEW b \in Backends, Execute(b) \/ BackendLost(b) \/ DeadlinePasses(b) PROVE Inv'
  BY <1>4, ExecuteKeeps, BackendLostKeeps, DeadlineKeeps
<1>5. ASSUME UNCHANGED <<srv, ses, sent, hc>> PROVE Inv'
  BY <1>5 DEF Inv, Types, Owns, CheckOwns, Exclusive, UsedIsHeld
<1> QED
  BY <1>1, <1>2, <1>3, <1>4, <1>5 DEF Next, StopProxy, vars

\* The invariant holds in every reachable state.
THEOREM Invariant == Spec => []Inv
BY InitInv, StepInv, PTL DEF Spec

\* The proxy's context is cancelled once and stays so.
LEMMA ShutdownStays == [Next]_vars => shutdown' \in {shutdown, TRUE}
<1> SUFFICES ASSUME [Next]_vars PROVE shutdown' \in {shutdown, TRUE}
  OBVIOUS
<1>1. ASSUME NEW c \in Clients, RelayStep(c) PROVE shutdown' = shutdown
  BY <1>1, Zenon DEF RelayStep, Greet, LoopTop, Disconnected, Reacquire, Forward, ReadAnswer,
     cleanupBackend, DrainRollback, resetAndReturn, ReadReset
<1>2. ASSUME NEW c \in Clients, ClientStep(c) PROVE shutdown' = shutdown
  BY <1>2, Zenon DEF ClientStep, Connect, ReadMessage, Terminate, ClientGone
<1>3. CASE CheckStep
  BY <1>3, Zenon DEF CheckStep, BeginCheck, SendCheck, ReadCheck
<1>4. ASSUME NEW b \in Backends, Execute(b) \/ BackendLost(b) \/ DeadlinePasses(b)
      PROVE  shutdown' = shutdown
  BY <1>4, Zenon DEF Execute, BackendLost, DeadlinePasses
<1> QED
  BY <1>1, <1>2, <1>3, <1>4, Zenon DEF Next, StopProxy, vars

\* Every message of a set is one of a larger set.
LEMMA StreamsWiden ==
  ASSUME NEW S, NEW T, S \subseteq T, NEW q \in Seq(S)
  PROVE  q \in Seq(T)
OBVIOUS

\* Who uses a backend: one session or the check if it is in use, and nobody if it is not.
LEMMA Users ==
  ASSUME Inv, NEW b \in Backends
  PROVE  Cardinality({c \in Clients : ses[c].be = b}) + (IF hc.be = b THEN 1 ELSE 0) =
           IF srv[b].where = "used" THEN 1 ELSE 0
<1> DEFINE U == {c \in Clients : ses[c].be = b}
<1>0. b # None
  BY RelayAssumption
<1>1. CASE srv[b].where # "used"
  <2>1. U = {} /\ hc.be # b
    BY <1>0, <1>1 DEF Inv, Owns, CheckOwns
  <2> QED
    BY <1>1, <2>1, FS_EmptySet
<1>2. CASE srv[b].where = "used" /\ hc.be = b
  <2>1. U = {}
    BY <1>0, <1>2 DEF Inv, Exclusive
  <2>2. Cardinality(U) = 0
    BY <2>1, FS_EmptySet
  <2> HIDE DEF U
  <2>3. Cardinality(U) + (IF hc.be = b THEN 1 ELSE 0) = IF srv[b].where = "used" THEN 1 ELSE 0
    BY <1>2, <2>2
  <2> QED
    BY <2>3 DEF U
<1>3. CASE srv[b].where = "used" /\ hc.be # b
  <2>1. PICK c \in Clients : ses[c].be = b
    BY <1>3 DEF Inv, UsedIsHeld
  <2>2. U = {c}
    BY <1>0, <2>1 DEF Inv, Exclusive
  <2>3. Cardinality(U) = 1
    BY <2>2, FS_Singleton
  <2> HIDE DEF U
  <2>4. Cardinality(U) + (IF hc.be = b THEN 1 ELSE 0) = IF srv[b].where = "used" THEN 1 ELSE 0
    BY <1>3, <2>3
  <2> QED
    BY <2>4 DEF U
<1> QED
  BY <1>1, <1>2, <1>3

\* A backend connection is in the pool, unused, or in the hands of exactly one session or
\* of the health check: Acquire gives it to one of them, and each of the relay's ways out
\* gives it back or closes it.
THEOREM OneUser == Spec => []TypeOK
<1>1. Init => shutdown \in BOOLEAN
  BY DEF Init
<1>2. shutdown \in BOOLEAN /\ [Next]_vars => (shutdown \in BOOLEAN)'
  BY ShutdownStays
<1>3. Inv /\ shutdown \in BOOLEAN => TypeOK
  <2> SUFFICES ASSUME Inv, shutdown \in BOOLEAN PROVE TypeOK
    OBVIOUS
  <2> DEFINE R == [where : {"none", "idle", "used"}, broken : BOOLEAN, txn : {"I", "T", "E"},
                   residue : SUBSET Clients, inq : Seq(Requests), outq : Seq(Replies),
                   deadline : {"none", "set", "past"}, shut : BOOLEAN, cut : BOOLEAN]
  <2>1. ASSUME NEW v \in Servers PROVE v \in R
    <3>1. v.inq \in Seq(Messages) /\ v.outq \in Seq(Answers)
      BY Zenon DEF Servers
    <3>2. v.inq \in Seq(Requests) /\ v.outq \in Seq(Replies)
      BY <3>1, StreamsWiden DEF Messages, Answers
    <3> QED
      BY <3>2, Zenon DEF Servers
  <2>2. srv \in [Backends -> R]
    BY <2>1 DEF Inv, Types
  <2>3. /\ ses \in [Clients -> Sessions] /\ sent \in [Clients -> Nat] /\ hc \in Checks
    BY DEF Inv, Types
  <2> QED
    BY <2>2, <2>3, Users, Zenon DEF TypeOK, Sessions, Checks
<1> QED
  BY <1>1, <1>2, <1>3, Invariant, PTL DEF Spec

\* Whatever sessions, health checks and failing backends do, resetAndReturn and the
\* health check put only backends into the pool that are in no transaction, keep no
\* session's state and have nothing unread, unless an answer was cut short on them.
THEOREM PoolIsClean == Spec => []IdleIsClean
<1>1. Inv => IdleIsClean
  BY DEF Inv, IdleIsClean, Clean, Fresh, Quiet
<1> QED
  BY <1>1, Invariant, PTL

\* What the relay passes to a client answers the message this client sent last, and
\* what a health check reads answers the check's own query.
THEOREM AnswersOwned == Spec => []AnswersMatch
<1>1. Inv => AnswersMatch
  <2> SUFFICES ASSUME Inv PROVE AnswersMatch
    OBVIOUS
  <2>1. ASSUME hc.pos = "reading", Readable(hc.be), ~srv[hc.be].cut
        PROVE  Head(srv[hc.be].outq).by = None /\ Head(srv[hc.be].outq).n = hc.n
    <3>1. hc.be # None /\ srv[hc.be] \in Servers /\ srv[hc.be].outq # <<>>
      BY <2>1, CheckFacts DEF Readable
    <3>2. Exchange(srv[hc.be], {"query", "fail"}, None, hc.n)
      BY <2>1, <3>1, CheckFacts DEF Checked
    <3> QED
      BY <3>1, <3>2, ExchangeHead
  <2>2. ASSUME NEW c \in Clients, ses[c].pos = "reading", Arrived(c), ~srv[ses[c].be].cut
        PROVE  Incoming(c).by = c /\ Incoming(c).n = sent[c]
    <3>1. ses[c].be # None /\ srv[ses[c].be] \in Servers /\ srv[ses[c].be].outq # <<>>
      BY <2>2, SessionFacts DEF Placed, Arrived, Readable
    <3>2. Exchange(srv[ses[c].be], AllKinds, c, sent[c])
      BY <2>2, <3>1, SessionFacts, Zenon DEF Held
    <3> QED
      BY <3>1, <3>2, ExchangeHead DEF Incoming
  <2> QED
    BY <2>1, <2>2 DEF AnswersMatch
<1> QED
  BY <1>1, Invariant, PTL

\* The client is pinned to its backend, or knows itself in a transaction on it.
Bound(c) ==
  ses[c].pinned \/ (ses[c].pos \in {"top", "ready", "forward"} /\ ses[c].told # "I")

\* Such a session holds a backend, which is in the state the client was told.
LEMMA BoundHolds ==
  ASSUME Inv, NEW c \in Clients, Bound(c)
  PROVE  /\ ses[c].be # None
         /\ ses[c].pos \notin {"away", "greeting", "acquire"}
         /\ ses[c].pos \in {"reset", "resetting"} => ses[c].then = "away"
         /\ ses[c].pos \in {"top", "ready", "forward"} /\ ~srv[ses[c].be].cut =>
              srv[ses[c].be].txn = ses[c].told
<1>1. ses[c] \in Sessions /\ Placed(ses[c])
  BY SessionFacts
<1>2. /\ ses[c].be # None /\ ses[c].pos \notin {"away", "greeting", "acquire"}
      /\ ses[c].pos \in {"reset", "resetting"} => ses[c].then # "top"
  BY <1>1 DEF Bound, Placed
<1>3. ses[c].then \in {"top", "away"}
  BY <1>1 DEF Sessions
<1> QED
  BY <1>2, <1>3, SessionFacts, Zenon DEF Held

\* No step takes its backend from such a session.
LEMMA BoundStep ==
  ASSUME Inv, NEW c \in Clients, Bound(c), RelayStep(c) \/ ClientStep(c)
  PROVE  ses'[c].pos # "away" => ses'[c].be = ses[c].be
<1>1. ses \in [Clients -> Sessions] /\ ses[c] \in Sessions
  BY DEF Inv, Types
<1>2. ASSUME End(c) PROVE ses'[c].pos = "away"
  BY <1>1, <1>2 DEF End, Away
<1>3. ASSUME NEW p, Goto(c, p) PROVE ses'[c].be = ses[c].be
  BY <1>1, <1>3 DEF Goto, Sessions
<1>4. ~Connect(c) /\ ~Greet(c) /\ ~Reacquire(c)
  BY BoundHolds DEF Connect, Greet, Reacquire
<1>5. CASE LoopTop(c) \/ Disconnected(c) \/ cleanupBackend(c)
  BY <1>2, <1>3, <1>5 DEF LoopTop, Disconnected, cleanupBackend
<1>6. CASE Forward(c)
  BY <1>1, <1>2, <1>6 DEF Forward, Sessions
<1>7. CASE ReadAnswer(c)
  BY <1>1, <1>2, <1>3, <1>7 DEF ReadAnswer, Sessions
<1>8. CASE DrainRollback(c)
  BY <1>1, <1>2, <1>8 DEF DrainRollback, Sessions
<1>9. CASE resetAndReturn(c) \/ ReadReset(c)
  <2>1. LetGo(c) => End(c)
    BY <1>9, BoundHolds, Zenon DEF resetAndReturn, ReadReset, LetGo
  <2> QED
    BY <1>2, <1>3, <1>9, <2>1, Zenon DEF resetAndReturn, ReadReset
<1>10. CASE ReadMessage(c)
  BY <1>1, <1>10 DEF ReadMessage, Sessions
<1>11. CASE Terminate(c)
  BY <1>1, <1>2, <1>11 DEF Terminate, Sessions
<1>12. CASE ClientGone(c)
  BY <1>1, <1>12 DEF ClientGone, Sessions
<1> QED
  BY <1>4, <1>5, <1>6, <1>7, <1>8, <1>9, <1>10, <1>11, <1>12, Zenon DEF RelayStep, ClientStep

\* A step of one client's session leaves the other sessions as they are.
LEMMA OthersStay ==
  ASSUME Inv, NEW c \in Clients, NEW d \in Clients, c # d, RelayStep(d) \/ ClientStep(d)
  PROVE  ses'[c] = ses[c]
<1>1. ses \in [Clients -> Sessions]
  BY DEF Inv, Types
<1>2. CASE RelayStep(d)
  BY <1>1, <1>2, Zenon DEF RelayStep, Greet, LoopTop, Disconnected, Reacquire, Forward, ReadAnswer,
     cleanupBackend, DrainRollback, resetAndReturn, ReadReset, LetGo, End, Goto
<1>3. CASE ClientStep(d)
  BY <1>1, <1>3, Zenon DEF ClientStep, Connect, ReadMessage, Terminate, ClientGone, End
<1> QED
  BY <1>2, <1>3

\* The relay releases a backend only after resetAndReturn at the end of a transaction,
\* and not while the session is pinned: the backend of a session that is pinned, or was
\* told that it is in a transaction, is the same from message to message, in the state
\* the client was told.
THEOREM BackendKept == Spec => HeldBackendStays
<1> DEFINE Keeps ==
      \A c \in Clients :
        LET idle == ses[c].pos \in {"top", "ready", "forward"} IN
        ses[c].pinned \/ (idle /\ ses[c].told # "I") =>
          /\ ses[c].be # None
          /\ idle /\ ~srv[ses[c].be].cut => srv[ses[c].be].txn = ses[c].told
          /\ ses'[c].pos # "away" => ses'[c].be = ses[c].be
<1>1. ASSUME Inv, [Next]_vars PROVE [Keeps]_vars
  <2> SUFFICES ASSUME Next, NEW c \in Clients, Bound(c)
               PROVE  /\ ses[c].be # None
                      /\ ses[c].pos \in {"top", "ready", "forward"} /\ ~srv[ses[c].be].cut =>
                           srv[ses[c].be].txn = ses[c].told
                      /\ ses'[c].pos # "away" => ses'[c].be = ses[c].be
    BY <1>1 DEF Bound
  <2>1. /\ ses[c].be # None
        /\ ses[c].pos \in {"top", "ready", "forward"} /\ ~srv[ses[c].be].cut =>
             srv[ses[c].be].txn = ses[c].told
    BY <1>1, BoundHolds
  <2>2. ASSUME NEW d \in Clients, RelayStep(d) \/ ClientStep(d)
        PROVE  ses'[c].pos # "away" => ses'[c].be = ses[c].be
    BY <1>1, <2>2, BoundStep, OthersStay
  <2>3. ASSUME CheckStep PROVE ses' = ses
    <3>1. CASE BeginCheck
      BY <3>1 DEF BeginCheck
    <3>2. CASE SendCheck
      BY <3>2 DEF SendCheck
    <3>3. CASE ReadCheck
      BY <3>3 DEF ReadCheck
    <3> QED
      BY <2>3, <3>1, <3>2, <3>3 DEF CheckStep
  <2>4. ASSUME NEW b \in Backends, Execute(b) \/ BackendLost(b) \/ DeadlinePasses(b)
        PROVE  ses' = ses
    BY <2>4, Zenon DEF Execute, BackendLost, DeadlinePasses
  <2> QED
    BY <2>1, <2>2, <2>3, <2>4 DEF Next, StopProxy
<1> QED
  BY <1>1, Invariant, PTL DEF Spec, HeldBackendStays

=============================================================================
