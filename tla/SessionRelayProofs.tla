-------------------------- MODULE SessionRelayProofs -------------------------
(***************************************************************************)
(* Proofs about SessionRelay, for every set of protocols, logins and       *)
(* tenants and any number of queries and notices: both streams of a        *)
(* session arrive as they were sent, and a relay that ends by itself has   *)
(* delivered what it owes to the side that is still there.                 *)
(***************************************************************************)
EXTENDS SessionRelay, FiniteSetTheorems, TLAPS

-----------------------------------------------------------------------------
(* The inductive invariant *)

MessageKinds ==
  {"ssl", "startup", "response", "p", "q", "bad", "S", "N", "synthetic", "refused", "greeting",
   "R0", "R3", "R7", "R10", "R11", "R12", "Z", "E", "ok", "err", "switch", "a", "note"}

Message == [kind : MessageKinds, n : Nat]

Early == {"startup", "greet", "response", "admit"}

Talking == {"greeting", "forward", "auth", "proof", "sasl", "saslContinue", "result"}

Late == {"relay", "wait", "ended"}

Stages == {"off", "new", "proof", "sasl", "saslFinal", "gss", "up", "gone"}

TenantNames ==
  {<<>>} \cup {TenantOfStartup(login) : login \in Logins} \cup {TenantOfResponse(login) : login \in Logins}

Clients ==
  [end : {"open", "half", "gone"}, said : Seq(Message), got : Seq(Message), login : Logins,
   owes : {"none", "startup", "response", "p"}]

Servers == [stage : Stages, said : Seq(Message), got : Seq(Message), heard : Nat]

Handlers ==
  [pos : Early \cup Talking \cup Late, ssl : Nat, rc : Nat, rb : Nat, tenant : TenantNames,
   torn : BOOLEAN, first : {"", "up", "down"}, shut : BOOLEAN]

Types ==
  /\ c \in Clients /\ b \in Servers /\ px \in Handlers
  /\ up \in {"off", "copy", "done"} /\ down \in {"off", "copy", "done"}

OwnOnly(got) == \A i \in DOMAIN got : got[i].kind \in Own

\* From message n + 1 on, said asks for no TLS.
NoSSL(said, n) == \A i \in (n + 1)..Len(said) : said[i].kind # "ssl"

\* From message n + 1 on, said has neither greeting nor a kind that is the proxy's own.
ServerOnly(said, n) == \A i \in (n + 1)..Len(said) : said[i].kind \notin Own \cup {"greeting"}

\* How many messages of the server are not for the client.
Greetings == IF proto = "mysql" THEN 1 ELSE 0

\* What the position of the handler says about the goroutines and the server.
Control ==
  /\ (up # "off" \/ down # "off" \/ px.first # "") => px.pos \in Late
  /\ up = "off" <=> down = "off"
  /\ px.shut <=> px.pos \in {"wait", "ended"}
  /\ px.pos \in Early => b.stage = "off" /\ px.rb = 0
  /\ b.stage = "off" => /\ px.pos \in Early \cup {"ended"}
                        /\ b.said = <<>> /\ b.got = <<>> /\ OwnOnly(c.got)

\* A client that asks for TLS waits for the answer, so at most one message is unread.
AtStartup ==
  px.pos = "startup" =>
    /\ Len(c.said) \in {px.ssl, px.ssl + 1}
    /\ c.owes = "startup" => Len(c.said) = px.ssl
    /\ c.owes \in {"none", "startup"}

\* To the server: the requests for TLS are dropped, all else is passed on, up to where the
\* handler has read.
Upward ==
  /\ px.ssl <= Len(c.said)
  /\ Matches(b.got, {}, 0, c.said, {"ssl"}, px.ssl)
  /\ b.stage # "gone" => px.rc = px.ssl + Len(b.got)
  /\ px.pos \notin {"startup", "ended"} => c.owes # "startup" /\ NoSSL(c.said, px.ssl)

\* To the client: k messages of the proxy's own, then those of the server up to where the
\* handler has read.
DownwardFrom(k) ==
  /\ Matches(c.got, Own, k, b.said, {"greeting"}, Greetings)
  /\ px.pos = "greeting" => k = Len(c.got) /\ px.rb = 0 /\ proto = "mysql"
  /\ px.pos # "greeting" /\ (px.pos = "ended" => up # "off") /\ c.end # "gone" =>
       Len(c.got) + Greetings = k + px.rb

Downward ==
  b.stage # "off" =>
    /\ Greetings <= Len(b.said)
    /\ ServerOnly(b.said, Greetings)
    /\ \E k \in 0..Len(c.got) : DownwardFrom(k)

\* Who has ended the relay has read all that a peer said before it closed, or could not
\* write a message to a peer that is gone.
Words ==
  /\ px.first = "down" =>
       /\ down = "done"
       /\ \/ c.end = "gone" /\ px.rb < Len(b.said)
          \/ b.stage = "gone" /\ px.rb = Len(b.said)
  /\ px.first = "up" =>
       /\ up = "done"
       /\ \/ b.stage = "gone" /\ px.rc < Len(c.said)
          \/ c.end # "open" /\ px.rc = Len(c.said)

Inv == Types /\ Control /\ AtStartup /\ Upward /\ Downward /\ Words

-----------------------------------------------------------------------------
(* Streams *)

\* What the handler reads at its place and writes to the reader keeps the two streams matched.
LEMMA PassOne ==
  ASSUME NEW got \in Seq(Message), NEW said \in Seq(Message), NEW own, NEW dropped,
         NEW k \in 0..Len(got), NEW d \in 0..Len(said), NEW i \in 1..Len(said),
         i = Len(got) - k + d + 1,
         said[i].kind \notin own \cup dropped,
         Matches(got, own, k, said, dropped, d)
  PROVE  Matches(Append(got, said[i]), own, k, said, dropped, d)
PROOF
  <1>1. said[i] \in Message
    OBVIOUS
  <1>2. Len(Append(got, said[i])) = Len(got) + 1
    BY <1>1
  <1>3. \A j \in 1..Len(got) : Append(got, said[i])[j] = got[j]
    BY <1>1
  <1>4. Append(got, said[i])[Len(got) + 1] = said[i]
    BY <1>1
  <1>5. \A j \in 1..k : Append(got, said[i])[j].kind \in own
    BY <1>3 DEF Matches
  <1>6. ASSUME NEW j \in 1..(Len(got) + 1 - k)
        PROVE  /\ Append(got, said[i])[k + j] = said[d + j]
               /\ Append(got, said[i])[k + j].kind \notin own \cup dropped
    <2>1. CASE j = Len(got) + 1 - k
      <3>1. k + j = Len(got) + 1 /\ d + j = i
        BY <2>1
      <3>. QED
        BY <1>4, <3>1, SMTT(30)
    <2>2. CASE j # Len(got) + 1 - k
      <3>1. j \in 1..(Len(got) - k) /\ k + j \in 1..Len(got)
        BY <2>2
      <3>2. got[k + j] = said[d + j] /\ got[k + j].kind \notin own \cup dropped
        BY <3>1, Zenon DEF Matches
      <3>. QED
        BY <1>3, <3>1, <3>2
    <2>. QED
      BY <2>1, <2>2, SMTT(30)
  <1>7. Len(got) + 1 - k <= Len(said) - d
    OBVIOUS
  <1>. DEFINE longer == Append(got, said[i])
  <1>8. /\ \A j \in 1..k : longer[j].kind \in own
        /\ \A j \in 1..(Len(got) + 1 - k) :
             longer[k + j] = said[d + j] /\ longer[k + j].kind \notin own \cup dropped
    BY <1>5, <1>6, Zenon
  <1>9. Len(longer) = Len(got) + 1
    BY <1>2
  <1>. HIDE DEF longer
  <1>10. Matches(longer, own, k, said, dropped, d)
    <2>1. \A j \in 1..d : said[j].kind \in dropped
      BY DEF Matches
    <2>2. \A j \in 1..(Len(longer) - k) :
            longer[k + j] = said[d + j] /\ longer[k + j].kind \notin own \cup dropped
      <3>1. Len(longer) - k = Len(got) + 1 - k
        BY <1>9
      <3>. QED
        BY <1>8, <3>1, Zenon
    <2>3. Len(longer) - k <= Len(said) - d
      BY <1>7, <1>9
    <2>. QED
      BY <1>8, <2>1, <2>2, <2>3, Zenon DEF Matches
  <1>. QED
    BY <1>10 DEF longer

\* What a sender adds to its stream leaves the streams matched.
LEMMA SayMore ==
  ASSUME NEW got \in Seq(Message), NEW said \in Seq(Message), NEW own, NEW dropped,
         NEW k \in 0..Len(got), NEW d \in 0..Len(said), NEW more \in Seq(Message),
         Matches(got, own, k, said, dropped, d)
  PROVE  Matches(got, own, k, said \o more, dropped, d)
PROOF
  <1>. DEFINE longer == said \o more
  <1>1. Len(longer) \in Nat /\ Len(longer) >= Len(said) /\ \A j \in 1..Len(said) : longer[j] = said[j]
    OBVIOUS
  <1>. HIDE DEF longer
  <1>2. \A i \in 1..k : got[i].kind \in own
    BY DEF Matches
  <1>3. ASSUME NEW i \in 1..d
        PROVE  longer[i].kind \in dropped
    <2>1. i \in 1..Len(said)
      OBVIOUS
    <2>2. longer[i] = said[i]
      BY <1>1, <2>1, Zenon
    <2>3. said[i].kind \in dropped
      BY Zenon DEF Matches
    <2>. QED
      BY <2>2, <2>3, Zenon
  <1>4. Len(got) - k <= Len(said) - d
    BY DEF Matches
  <1>5. Len(got) \in Nat /\ Len(said) \in Nat
    OBVIOUS
  <1>6. Len(got) - k <= Len(longer) - d
    BY <1>1, <1>4, <1>5
  <1>7. ASSUME NEW i \in 1..(Len(got) - k)
        PROVE  got[k + i] = longer[d + i] /\ got[k + i].kind \notin own \cup dropped
    <2>1. d + i \in 1..Len(said)
      BY <1>4, <1>5
    <2>2. longer[d + i] = said[d + i]
      BY <1>1, <2>1
    <2>. QED
      BY <2>2 DEF Matches
  <1>8. Matches(got, own, k, longer, dropped, d)
    BY <1>2, <1>3, <1>6, <1>7, Zenon DEF Matches
  <1>. QED
    BY <1>8 DEF longer

\* The same for one message.
LEMMA SayOneMore ==
  ASSUME NEW got \in Seq(Message), NEW said \in Seq(Message), NEW own, NEW dropped,
         NEW k \in 0..Len(got), NEW d \in 0..Len(said), NEW m \in Message,
         Matches(got, own, k, said, dropped, d)
  PROVE  Matches(got, own, k, Append(said, m), dropped, d)
PROOF
  <1>1. Len(Append(said, m)) = Len(said) + 1
    OBVIOUS
  <1>2. \A j \in 1..Len(said) : Append(said, m)[j] = said[j]
    OBVIOUS
  <1>3. \A j \in 1..d : Append(said, m)[j].kind \in dropped
    BY <1>2 DEF Matches
  <1>4. ASSUME NEW j \in 1..(Len(got) - k)
        PROVE  got[k + j] = Append(said, m)[d + j] /\ got[k + j].kind \notin own \cup dropped
    <2>1. d + j \in 1..Len(said)
      BY DEF Matches
    <2>. QED
      BY <1>2, <2>1 DEF Matches
  <1>. DEFINE longer == Append(said, m)
  <1>5. Len(longer) = Len(said) + 1 /\ \A j \in 1..d : longer[j].kind \in dropped
    BY <1>1, <1>3
  <1>6. \A j \in 1..(Len(got) - k) : got[k + j] = longer[d + j] /\ got[k + j].kind \notin own \cup dropped
    BY <1>4, Zenon
  <1>. HIDE DEF longer
  <1>7. \A i \in 1..k : got[i].kind \in own
    BY DEF Matches
  <1>8. Len(got) - k <= Len(longer) - d
    <2>1. Len(got) - k <= Len(said) - d
      BY DEF Matches
    <2>2. Len(got) \in Nat /\ Len(said) \in Nat
      OBVIOUS
    <2>. QED
      BY <1>5, <2>1, <2>2
  <1>9. Matches(got, own, k, longer, dropped, d)
    BY <1>5, <1>6, <1>7, <1>8, Zenon DEF Matches
  <1>. QED
    BY <1>9 DEF longer

\* As long as the client has got messages of the proxy alone, they match any stream of the
\* server whose first messages are not for the client.
LEMMA OwnMatches ==
  ASSUME NEW got \in Seq(Message), NEW said \in Seq(Message), NEW d \in 0..Len(said),
         OwnOnly(got), \A i \in 1..d : said[i].kind = "greeting"
  PROVE  Matches(got, Own, Len(got), said, {"greeting"}, d)
PROOF
  BY DEF Matches, OwnOnly

\* A message of the proxy's own keeps the client's stream the proxy's own.
LEMMA OwnStays ==
  ASSUME NEW got \in Seq(Message), NEW m \in Message, OwnOnly(got), m.kind \in Own
  PROVE  OwnOnly(Append(got, m))
PROOF
  <1>1. Len(Append(got, m)) = Len(got) + 1
        /\ Append(got, m)[Len(got) + 1] = m
        /\ \A j \in 1..Len(got) : Append(got, m)[j] = got[j]
    OBVIOUS
  <1>. QED
    BY <1>1 DEF OwnOnly

\* A message that does not ask for TLS adds no request for TLS.
LEMMA NoSSLStays ==
  ASSUME NEW said \in Seq(Message), NEW n \in 0..Len(said), NEW m \in Message,
         NoSSL(said, n), m.kind # "ssl"
  PROVE  NoSSL(Append(said, m), n)
PROOF
  <1>1. Len(Append(said, m)) = Len(said) + 1
        /\ Append(said, m)[Len(said) + 1] = m
        /\ \A j \in 1..Len(said) : Append(said, m)[j] = said[j]
    OBVIOUS
  <1>. QED
    BY <1>1 DEF NoSSL

\* A server adds neither greetings nor messages of the proxy.
LEMMA ServerOnlyStays ==
  ASSUME NEW said \in Seq(Message), NEW n \in 0..Len(said), NEW more \in Seq(Message),
         ServerOnly(said, n), \A i \in 1..Len(more) : more[i].kind \notin Own \cup {"greeting"}
  PROVE  ServerOnly(said \o more, n)
PROOF
  <1>1. Len(said \o more) = Len(said) + Len(more)
        /\ (\A j \in 1..Len(said) : (said \o more)[j] = said[j])
        /\ \A j \in (Len(said) + 1)..(Len(said) + Len(more)) : (said \o more)[j] = more[j - Len(said)]
    OBVIOUS
  <1>. QED
    BY <1>1 DEF ServerOnly

\* One more request for TLS is dropped before anything is passed on.
LEMMA DropOne ==
  ASSUME NEW said \in Seq(Message), NEW d \in 0..Len(said), d + 1 <= Len(said),
         said[d + 1].kind = "ssl",
         Matches(<<>>, {}, 0, said, {"ssl"}, d)
  PROVE  Matches(<<>>, {}, 0, said, {"ssl"}, d + 1)
PROOF
  BY DEF Matches

\* A message is a record of its kind and its number.
LEMMA MsgIs ==
  \A kind \in MessageKinds, n \in Nat :
    Msg(kind, n) \in Message /\ Msg(kind, n).kind = kind /\ Msg(kind, n).n = n
PROOF
  BY DEF Msg, Message

\* The messages of a kind in a stream can be counted.
LEMMA CountIs ==
  ASSUME NEW msgs \in Seq(Message), NEW kind
  PROVE  Count(msgs, kind) \in Nat
PROOF
  <1>1. IsFiniteSet(1..Len(msgs))
    BY FS_Interval
  <1>2. IsFiniteSet({i \in DOMAIN msgs : msgs[i].kind = kind})
    BY <1>1, FS_Subset
  <1>. QED
    BY <1>2, FS_CardinalityType DEF Count

-----------------------------------------------------------------------------
(* The client *)

\* A client that says one more message it may say: it asks for TLS only while it owes its
\* startup message, and then owes nothing.
LEMMA ClientSays ==
  ASSUME Inv, ClientOpen, NEW m \in Message, NEW owes \in {"none", c.owes},
         m.kind = "ssl" => c.owes = "startup",
         px.pos = "startup" => c.owes = "startup" /\ owes = "none",
         c' = [c EXCEPT !.said = Append(@, m), !.owes = owes],
         UNCHANGED <<proto, b, px, up, down>>
  PROVE  Inv'
PROOF
  <1>1. /\ c'.end = c.end /\ c'.got = c.got /\ c'.owes = owes
        /\ c'.said = Append(c.said, m)
    BY DEF Inv, Types, Clients
  <1>2. c.said \in Seq(Message) /\ Len(c'.said) = Len(c.said) + 1
    BY <1>1 DEF Inv, Types, Clients
  <1>3. c.end = "open" /\ ~px.shut
    BY DEF ClientOpen
  <1>4. px.pos \in Early \cup Talking \cup Late /\ px.ssl \in Nat
    BY Zenon DEF Inv, Types, Handlers
  <1>5. Types'
    <2>1. Append(c.said, m) \in Seq(Message)
      BY <1>2
    <2>2. owes \in {"none", "startup", "response", "p"}
      BY DEF Inv, Types, Clients
    <2>3. c' \in Clients
      BY <2>1, <2>2, Zenon DEF Inv, Types, Clients
    <2>. QED
      BY <2>3 DEF Inv, Types
  <1>6. Control'
    BY <1>1, Zenon DEF Inv, Control
  <1>7. AtStartup'
    BY <1>1, <1>2, <1>4 DEF Inv, AtStartup
  <1>8. Upward'
    <2>1. Matches(b.got, {}, 0, Append(c.said, m), {"ssl"}, px.ssl)
      BY <1>2, <1>4, SayOneMore DEF Inv, Types, Servers, Upward
    <2>2. CASE px.pos \in {"startup", "ended"}
      BY <1>1, <1>2, <1>4, <2>1, <2>2 DEF Inv, Upward
    <2>3. CASE px.pos \notin {"startup", "ended"}
      <3>1. c.owes # "startup" /\ NoSSL(c.said, px.ssl) /\ px.ssl \in 0..Len(c.said)
        BY <1>2, <1>4, <2>3 DEF Inv, Upward
      <3>2. NoSSL(Append(c.said, m), px.ssl)
        BY <1>2, <3>1, NoSSLStays
      <3>. QED
        BY <1>1, <1>2, <1>4, <2>1, <2>3, <3>1, <3>2 DEF Inv, Upward
    <2>. QED
      BY <2>2, <2>3
  <1>9. Downward'
    BY <1>1, Zenon DEF Inv, Downward, DownwardFrom, Greetings
  <1>10. Words'
    <2>. DEFINE n == Len(c.said)
                n1 == Len(c'.said)
                r == px.rc
    <2>1. n1 = n + 1
      BY <1>2
    <2>2. n \in Nat /\ r \in Nat
      <3>1. n \in Nat
        BY <1>2
      <3>2. r \in Nat
        BY Zenon DEF Inv, Types, Handlers
      <3>. QED
        BY <3>1, <3>2
    <2>3. px.first = "up" => up = "done" /\ b.stage = "gone" /\ r < n
      BY <1>3, Zenon DEF Inv, Words
    <2>. HIDE DEF n, n1, r
    <2>4. r < n => r < n1
      BY <2>1, <2>2
    <2>5. px.first = "up" => up = "done" /\ b.stage = "gone" /\ px.rc < Len(c'.said)
      BY <2>3, <2>4, Zenon DEF n1, r
    <2>. QED
      BY <1>1, <2>5, Zenon DEF Inv, Words
  <1>. QED
    BY <1>5, <1>6, <1>7, <1>8, <1>9, <1>10 DEF Inv

\* A client that has been let in is past its startup.
LEMMA LetIn ==
  ASSUME Inv, ClientOpen, Kinds(c.got) \cap {"Z", "ok"} # {}
  PROVE  px.pos \notin Early
PROOF
  BY Zenon DEF Inv, Control, OwnOnly, Own, Kinds

\* An answer of the client, or one more query.
LEMMA ClientSpeaks ==
  ASSUME Inv, ClientAnswers \/ ClientQueries
  PROVE  Inv'
PROOF
  <1>1. CASE ClientAnswers
    <2>1. c.owes \in {"startup", "response", "p"}
      BY <1>1, Zenon DEF Inv, Types, Clients, ClientAnswers
    <2>2. PICK kind \in {c.owes} \cup (IF c.owes = "p" THEN {} ELSE {"bad"})
                          \cup (IF c.owes = "startup" THEN {"ssl"} ELSE {}) :
            c' = [c EXCEPT !.said = Append(@, Msg(kind, 0)), !.owes = "none"]
      BY <1>1, Zenon DEF ClientAnswers
    <2>3. kind \in MessageKinds /\ (kind = "ssl" => c.owes = "startup")
      <3>1. CASE c.owes = "p"
        BY <2>2, <3>1 DEF MessageKinds
      <3>2. CASE c.owes = "response"
        BY <2>2, <3>2 DEF MessageKinds
      <3>3. CASE c.owes = "startup"
        BY <2>2, <3>3 DEF MessageKinds
      <3>. QED
        BY <2>1, <3>1, <3>2, <3>3
    <2>4. Msg(kind, 0) \in Message /\ Msg(kind, 0).kind = kind
      BY <2>3, MsgIs
    <2>5. px.pos = "startup" => c.owes = "startup"
      BY <2>1 DEF Inv, AtStartup
    <2>6. ClientOpen /\ UNCHANGED <<proto, b, px, up, down>>
      BY <1>1, Zenon DEF ClientAnswers
    <2>. QED
      BY <2>2, <2>3, <2>4, <2>5, <2>6, ClientSays, Zenon
  <1>2. CASE ClientQueries
    <2>. DEFINE m == Msg("q", Count(c.said, "q") + 1)
    <2>1. Count(c.said, "q") \in Nat
      BY CountIs DEF Inv, Types, Clients
    <2>2. m \in Message /\ m.kind = "q"
      <3>1. "q" \in MessageKinds /\ Count(c.said, "q") + 1 \in Nat
        BY <2>1 DEF MessageKinds
      <3>. QED
        BY <3>1, MsgIs
    <2>3. c' = [c EXCEPT !.said = Append(@, m), !.owes = c.owes]
      BY <1>2, Zenon DEF ClientQueries, Inv, Types, Clients
    <2>4. ClientOpen /\ UNCHANGED <<proto, b, px, up, down>> /\ px.pos # "startup"
      BY <1>2, LetIn DEF ClientQueries, Early
    <2>. HIDE DEF m
    <2>. QED
      BY <2>2, <2>3, <2>4, ClientSays, Zenon
  <1>. QED
    BY <1>1, <1>2

\* A client that closes one direction or both.
LEMMA ClientEnds ==
  ASSUME Inv, ClientHalfCloses \/ ClientLeaves
  PROVE  Inv'
PROOF
  <1>1. PICK end \in {"half", "gone"} : c' = [c EXCEPT !.end = end] /\ (end = "half" => c.end = "open")
    BY DEF ClientHalfCloses, ClientLeaves, ClientOpen
  <1>2. UNCHANGED <<proto, b, px, up, down>>
    BY DEF ClientHalfCloses, ClientLeaves
  <1>3. /\ c'.end = end /\ c'.got = c.got /\ c'.owes = c.owes /\ c'.said = c.said
    BY <1>1 DEF Inv, Types, Clients
  <1>4. Types'
    BY <1>1, <1>2 DEF Inv, Types, Clients
  <1>5. Control' /\ AtStartup'
    BY <1>2, <1>3, Zenon DEF Inv, Control, AtStartup
  <1>6. Upward'
    BY <1>2, <1>3 DEF Inv, Upward
  <1>7. Downward'
    <2>1. ASSUME NEW k, DownwardFrom(k)
          PROVE  DownwardFrom(k)'
      BY <1>1, <1>2, <1>3, <2>1, Zenon DEF DownwardFrom, Greetings
    <2>. QED
      BY <1>2, <1>3, <2>1 DEF Inv, Downward, Greetings
  <1>8. Words'
    BY <1>1, <1>2, <1>3 DEF Inv, Words
  <1>. QED
    BY <1>4, <1>5, <1>6, <1>7, <1>8 DEF Inv

-----------------------------------------------------------------------------
(* The server *)

\* Kinds of messages that a server sends once it has been written to.
AnswerKinds ==
  {"R0", "R3", "R7", "R10", "R11", "R12", "Z", "E", "ok", "err", "switch", "a", "note"}

\* Messages made of their kinds alone.
LEMMA PlainIs ==
  ASSUME NEW kinds \in Seq(MessageKinds)
  PROVE  /\ Plain(kinds) \in Seq(Message) /\ Len(Plain(kinds)) = Len(kinds)
         /\ \A i \in 1..Len(kinds) : Plain(kinds)[i].kind = kinds[i]
PROOF
  <1>1. \A i \in 1..Len(kinds) : Msg(kinds[i], 0) \in Message /\ Msg(kinds[i], 0).kind = kinds[i]
    BY MsgIs
  <1>2. Plain(kinds) = [i \in 1..Len(kinds) |-> Msg(kinds[i], 0)]
    BY DEF Plain
  <1>3. Plain(kinds) \in Seq(Message) /\ Len(Plain(kinds)) = Len(kinds)
    BY <1>1, <1>2
  <1>. QED
    BY <1>1, <1>2, <1>3

\* What a server says in an authentication is neither a greeting nor the proxy's, and it stays
\* connected or is gone.
LEMMA TurnsAre ==
  ASSUME NEW stage, NEW t \in Turns(stage)
  PROVE  /\ t.say \in Seq(Message)
         /\ \A i \in 1..Len(t.say) : t.say[i].kind \in AnswerKinds
         /\ t.next \in Stages \ {"off"}
PROOF
  <1>. DEFINE Saying(kinds, next) == [say |-> Plain(kinds), next |-> next]
  <1>1. PICK kinds \in Seq(AnswerKinds), next \in Stages \ {"off"} : t = Saying(kinds, next)
    <2>1. /\ <<"err">> \in Seq(AnswerKinds) /\ <<"E">> \in Seq(AnswerKinds)
          /\ <<"ok">> \in Seq(AnswerKinds) /\ <<"R0", "Z">> \in Seq(AnswerKinds)
          /\ <<"R11">> \in Seq(AnswerKinds) /\ <<"R12", "R0", "Z">> \in Seq(AnswerKinds)
          /\ <<"R3">> \in Seq(AnswerKinds) /\ <<"R10">> \in Seq(AnswerKinds)
          /\ <<"R7">> \in Seq(AnswerKinds) /\ <<"switch">> \in Seq(AnswerKinds)
      BY DEF AnswerKinds
    <2>2. {"gone", "up", "saslFinal", "proof", "sasl", "gss"} \subseteq Stages \ {"off"}
      BY DEF Stages
    <2>3. \/ t = Saying(<<"err">>, "gone") \/ t = Saying(<<"E">>, "gone")
          \/ t = Saying(<<"ok">>, "up") \/ t = Saying(<<"R0", "Z">>, "up")
          \/ t = Saying(<<"R11">>, "saslFinal") \/ t = Saying(<<"R12", "R0", "Z">>, "up")
          \/ t = Saying(<<"R3">>, "proof") \/ t = Saying(<<"R10">>, "sasl")
          \/ t = Saying(<<"R7">>, "gss") \/ t = Saying(<<"switch">>, "proof")
      BY Zenon DEF Turns
    <2>. HIDE DEF Saying
    <2>. QED
      BY <2>1, <2>2, <2>3, Zenon
  <1>2. t.say = Plain(kinds) /\ t.next = next
    BY <1>1
  <1>3. AnswerKinds \subseteq MessageKinds /\ kinds \in Seq(MessageKinds)
    BY DEF AnswerKinds, MessageKinds
  <1>4. \A i \in 1..Len(kinds) : kinds[i] \in AnswerKinds
    OBVIOUS
  <1>. QED
    BY <1>2, <1>3, <1>4, PlainIs

\* A server that is connected says more, and may move on or leave.
LEMMA ServerSays ==
  ASSUME Inv, b.stage \notin {"off", "gone"},
         NEW more \in Seq(Message), \A i \in 1..Len(more) : more[i].kind \in AnswerKinds,
         NEW stage \in Stages \ {"off"}, NEW heard \in Nat,
         b' = [b EXCEPT !.heard = heard, !.said = @ \o more, !.stage = stage],
         UNCHANGED <<proto, c, px, up, down>>
  PROVE  Inv'
PROOF
  <1>1. /\ b'.stage = stage /\ b'.said = b.said \o more /\ b'.got = b.got
    BY DEF Inv, Types, Servers
  <1>2. b.said \in Seq(Message) /\ b.got \in Seq(Message) /\ c.got \in Seq(Message)
    BY DEF Inv, Types, Servers, Clients
  <1>3. b.said \o more \in Seq(Message) /\ Len(b.said \o more) = Len(b.said) + Len(more)
    BY <1>2
  <1>4. Types'
    <2>1. b' \in Servers
      BY <1>3, Zenon DEF Inv, Types, Servers
    <2>. QED
      BY <2>1 DEF Inv, Types
  <1>5. Control' /\ AtStartup'
    BY <1>1, Zenon DEF Inv, Control, AtStartup
  <1>6. Upward'
    BY <1>1 DEF Inv, Upward
  <1>7. Downward'
    <2>1. Greetings \in 0..Len(b.said) /\ Greetings' = Greetings
      BY <1>2 DEF Inv, Downward, Greetings
    <2>2. \A i \in 1..Len(more) : more[i].kind \notin Own \cup {"greeting"}
      BY DEF AnswerKinds, Own
    <2>3. ServerOnly(b.said \o more, Greetings)
      BY <1>2, <2>1, <2>2, ServerOnlyStays DEF Inv, Downward
    <2>4. ASSUME NEW k \in 0..Len(c.got), DownwardFrom(k)
          PROVE  DownwardFrom(k)'
      <3>1. Matches(c.got, Own, k, b.said \o more, {"greeting"}, Greetings)
        BY <1>2, <2>1, <2>4, SayMore DEF DownwardFrom
      <3>. QED
        BY <1>1, <2>1, <2>4, <3>1 DEF DownwardFrom
    <2>5. Greetings <= Len(b.said \o more)
      BY <1>2, <1>3, <2>1
    <2>. QED
      BY <1>1, <2>1, <2>3, <2>4, <2>5 DEF Inv, Downward
  <1>8. Words'
    <2>. DEFINE n == Len(b.said)
                n1 == Len(b'.said)
                l == Len(more)
                r == px.rb
    <2>1. n1 = n + l
      BY <1>1, <1>3, Zenon
    <2>2. n \in Nat /\ l \in Nat
      BY <1>2
    <2>3. r \in Nat
      BY Zenon DEF Inv, Types, Handlers
    <2>4. px.first = "down" => down = "done" /\ c.end = "gone" /\ r < n
      BY Zenon DEF Inv, Words
    <2>. HIDE DEF n, n1, l, r
    <2>5. r < n => r < n1
      BY <2>1, <2>2, <2>3
    <2>6. px.first = "down" => down = "done" /\ c.end = "gone" /\ px.rb < Len(b'.said)
      BY <2>4, <2>5, Zenon DEF n1, r
    <2>7. px.first = "up" => up = "done" /\ c.end # "open" /\ px.rc = Len(c.said)
      BY Zenon DEF Inv, Words
    <2>. QED
      BY <2>6, <2>7, Zenon DEF Words
  <1>. QED
    BY <1>4, <1>5, <1>6, <1>7, <1>8 DEF Inv

\* Every step of the server.
LEMMA ServerActs ==
  ASSUME Inv, ServerAnswers \/ ServerNotifies \/ ServerLeaves
  PROVE  Inv'
PROOF
  <1>1. /\ b.said \in Seq(Message) /\ b.got \in Seq(Message) /\ b.heard \in Nat
        /\ b.stage \in Stages
    BY DEF Inv, Types, Servers
  <1>2. ASSUME NEW kind \in {"a", "note"}, NEW n \in Nat, NEW heard \in Nat,
               b.stage \notin {"off", "gone"},
               b' = [b EXCEPT !.heard = heard, !.said = Append(@, Msg(kind, n))],
               UNCHANGED <<proto, c, px, up, down>>
        PROVE  Inv'
    <2>1. kind \in MessageKinds /\ kind \in AnswerKinds
      BY DEF MessageKinds, AnswerKinds
    <2>2. Msg(kind, n) \in Message /\ Msg(kind, n).kind = kind
      BY <2>1, MsgIs
    <2>. DEFINE m == Msg(kind, n)
    <2>. HIDE DEF m
    <2>3. <<m>> \in Seq(Message) /\ \A i \in 1..Len(<<m>>) : <<m>>[i].kind \in AnswerKinds
      BY <2>1, <2>2 DEF m
    <2>4. Append(b.said, m) = b.said \o <<m>>
      BY <1>1, <2>2, SMTT(30) DEF m
    <2>5. b' = [b EXCEPT !.heard = heard, !.said = @ \o <<m>>, !.stage = b.stage]
      BY <1>2, <2>4, Zenon DEF m, Inv, Types, Servers
    <2>6. b.stage \in Stages \ {"off"}
      BY <1>1, <1>2
    <2>. QED
      BY <1>2, <2>3, <2>5, <2>6, ServerSays, Zenon
  <1>3. CASE ServerAnswers
    <2>. DEFINE m == b.got[b.heard + 1]
    <2>1. b.stage \notin {"off", "gone"} /\ b.heard < Len(b.got) /\ UNCHANGED <<proto, c, px, up, down>>
      BY <1>3, Zenon DEF ServerAnswers
    <2>2. b.heard + 1 \in Nat /\ m \in Message /\ m.n \in Nat
      <3>1. b.heard + 1 \in 1..Len(b.got)
        BY <1>1, <2>1
      <3>2. m \in Message
        BY <1>1, <3>1
      <3>. QED
        BY <1>1, <3>2 DEF Message
    <2>3. CASE b' = [b EXCEPT !.heard = @ + 1, !.said = Append(@, Msg("a", m.n))]
      <3>1. b' = [b EXCEPT !.heard = b.heard + 1, !.said = Append(@, Msg("a", m.n))]
        BY <2>3
      <3>. HIDE DEF m
      <3>. QED
        BY <1>2, <2>1, <2>2, <3>1, Zenon
    <2>4. CASE \E t \in Turns(b.stage) :
                 b' = [b EXCEPT !.heard = @ + 1, !.said = @ \o t.say, !.stage = t.next]
      <3>1. PICK t \in Turns(b.stage) :
              b' = [b EXCEPT !.heard = b.heard + 1, !.said = @ \o t.say, !.stage = t.next]
        BY <2>4, Zenon
      <3>. QED
        BY <2>1, <2>2, <3>1, TurnsAre, ServerSays, Zenon
    <2>. QED
      BY <1>3, <2>3, <2>4, Zenon DEF ServerAnswers
  <1>4. CASE ServerNotifies
    <2>1. Count(b.said, "note") + 1 \in Nat
      BY <1>1, CountIs
    <2>2. b' = [b EXCEPT !.heard = b.heard, !.said = Append(@, Msg("note", Count(b.said, "note") + 1))]
      BY <1>4, Zenon DEF ServerNotifies, Inv, Types, Servers
    <2>3. b.stage \notin {"off", "gone"} /\ UNCHANGED <<proto, c, px, up, down>>
      BY <1>4 DEF ServerNotifies
    <2>. QED
      BY <1>1, <1>2, <2>1, <2>2, <2>3, Zenon
  <1>5. CASE ServerLeaves
    <2>1. <<>> \in Seq(Message) /\ Len(<<>>) = 0 /\ b.said \o <<>> = b.said
      BY <1>1
    <2>2. b' = [b EXCEPT !.heard = b.heard, !.said = @ \o <<>>, !.stage = "gone"]
      BY <1>5, <2>1, Zenon DEF ServerLeaves, Inv, Types, Servers
    <2>3. b.stage \notin {"off", "gone"} /\ UNCHANGED <<proto, c, px, up, down>> /\ "gone" \in Stages \ {"off"}
      BY <1>5 DEF ServerLeaves, Stages
    <2>4. \A i \in 1..Len(<<>>) : <<>>[i].kind \in AnswerKinds
      BY <2>1
    <2>. QED
      BY <1>1, <2>1, <2>2, <2>3, <2>4, ServerSays, Zenon
  <1>. QED
    BY <1>3, <1>4, <1>5

-----------------------------------------------------------------------------
(* The handler, before it has a backend connection *)

\* Before the session has a server, its handler may write messages of its own, count requests
\* for TLS that it has read, move on and end.
LEMMA EarlyKeeps ==
  ASSUME Inv, px.pos \in Early, UNCHANGED <<proto, b, up, down>>,
         c' \in Clients, OwnOnly(c'.got), c'.said = c.said,
         px' \in Handlers, px'.pos \in Early \cup {"ended"}, px'.shut <=> px'.pos = "ended",
         px'.rb = px.rb, px'.first = px.first,
         px'.rc = px'.ssl, px'.ssl <= Len(c.said), Matches(<<>>, {}, 0, c.said, {"ssl"}, px'.ssl),
         AtStartup',
         px'.pos \notin {"startup", "ended"} => c'.owes # "startup" /\ NoSSL(c.said, px'.ssl)
  PROVE  Inv'
PROOF
  <1>1. /\ b.stage = "off" /\ b.said = <<>> /\ b.got = <<>> /\ px.rb = 0
        /\ up = "off" /\ down = "off" /\ px.first = ""
    BY Zenon DEF Inv, Control, Early, Late
  <1>2. Types'
    BY DEF Inv, Types
  <1>3. Control'
    BY <1>1, Zenon DEF Control, Early, Late
  <1>4. Upward'
    <2>1. Len(b.got) = 0 /\ px'.ssl \in Nat
      BY <1>1, Zenon DEF Handlers
    <2>2. Matches(b'.got, {}, 0, c'.said, {"ssl"}, px'.ssl)
      BY <1>1, Zenon
    <2>3. px'.rc = px'.ssl + Len(b'.got)
      BY <2>1
    <2>4. NoSSL(c.said, px'.ssl) => NoSSL(c'.said, px'.ssl)
      OBVIOUS
    <2>. QED
      BY <2>2, <2>3, <2>4 DEF Upward
  <1>5. Downward'
    BY <1>1, Zenon DEF Downward
  <1>6. Words'
    BY <1>1, Zenon DEF Words
  <1>. QED
    BY <1>2, <1>3, <1>4, <1>5, <1>6 DEF Inv

\* The fields of the handler when it returns.
LEMMA EndIs ==
  ASSUME px \in Handlers
  PROVE  /\ End \in Handlers /\ End.pos = "ended" /\ End.shut = TRUE /\ End.first = px.first
         /\ End.ssl = px.ssl /\ End.rc = px.rc /\ End.rb = px.rb
PROOF
  BY Zenon DEF End, Handlers, Late

\* A message that the client hears.
LEMMA HearIs ==
  ASSUME c \in Clients, NEW m \in Message
  PROVE  /\ Hear(m) \in Clients /\ Hear(m).got = Append(c.got, m) /\ Hear(m).said = c.said
         /\ Hear(m).end = c.end /\ Hear(m).owes = Owed(m.kind) /\ Hear(m).login = c.login
PROOF
  <1>1. Owed(m.kind) \in {"none", "startup", "response", "p"}
    BY DEF Owed
  <1>2. Append(c.got, m) \in Seq(Message)
    BY DEF Clients
  <1>. QED
    BY <1>1, <1>2, Zenon DEF Hear, Clients

\* A message of the proxy's own reaches the client, or meets one that is gone.
LEMMA OwnWord ==
  ASSUME c \in Clients, OwnOnly(c.got), NEW kind \in Own, NEW ok \in BOOLEAN,
         ToClient(Msg(kind, 0), ok)
  PROVE  /\ c' \in Clients /\ OwnOnly(c'.got) /\ c'.said = c.said /\ c'.end = c.end
         /\ c'.owes \in {c.owes, Owed(kind)}
         /\ c.end = "gone" => c' = c
PROOF
  <1>1. kind \in MessageKinds
    BY DEF Own, MessageKinds
  <1>2. Msg(kind, 0) \in Message /\ Msg(kind, 0).kind = kind
    BY <1>1, MsgIs
  <1>. DEFINE m == Msg(kind, 0)
  <1>. HIDE DEF m
  <1>3. CASE c' = Hear(m)
    <2>1. OwnOnly(Append(c.got, m))
      BY <1>2, OwnStays DEF m, Clients
    <2>2. c.end # "gone" \/ c' = c
      BY DEF ToClient
    <2>. QED
      BY <1>2, <1>3, <2>1, <2>2, HearIs, Zenon DEF m
  <1>4. CASE c' = c
    BY <1>4
  <1>. QED
    BY <1>3, <1>4 DEF ToClient, m

\* What holds before the session has a server.
LEMMA EarlyIs ==
  ASSUME Inv, px.pos \in Early
  PROVE  /\ c \in Clients /\ OwnOnly(c.got) /\ px \in Handlers /\ b.got = <<>>
         /\ px.rc = px.ssl /\ px.ssl <= Len(c.said) /\ Matches(<<>>, {}, 0, c.said, {"ssl"}, px.ssl)
         /\ ~px.shut
PROOF
  <1>1. c \in Clients /\ px \in Handlers
    BY DEF Inv, Types
  <1>2. OwnOnly(c.got) /\ b.got = <<>> /\ b.stage = "off" /\ ~px.shut
    BY Zenon DEF Inv, Control, Early
  <1>3. Len(b.got) = 0 /\ px.ssl \in Nat
    BY <1>1, <1>2, Zenon DEF Handlers
  <1>4. px.rc = px.ssl
    BY <1>2, <1>3 DEF Inv, Upward
  <1>. QED
    BY <1>1, <1>2, <1>4 DEF Inv, Upward

\* The handler returns, perhaps after a message of its own.
LEMMA EarlyEnds ==
  ASSUME Inv, px.pos \in Early, UNCHANGED <<proto, b, up, down>>, px' = End,
         c' \in Clients, OwnOnly(c'.got), c'.said = c.said
  PROVE  Inv'
PROOF
  <1>1. AtStartup'
    BY EarlyIs, EndIs DEF AtStartup
  <1>2. px'.pos \in Early \cup {"ended"}
    BY EarlyIs, EndIs, Zenon
  <1>. QED
    BY <1>1, <1>2, EarlyIs, EndIs, EarlyKeeps, Zenon

\* Refusing a session, with or without a word to its client.
LEMMA EarlyRefuses ==
  ASSUME Inv, px.pos \in Early, UNCHANGED <<proto, up, down>>, Refuse
  PROVE  Inv'
PROOF
  <1>1. PICK ok \in BOOLEAN : ToClient(Msg("refused", 0), ok)
    BY DEF Refuse
  <1>2. "refused" \in Own
    BY DEF Own
  <1>3. c' \in Clients /\ OwnOnly(c'.got) /\ c'.said = c.said
    BY <1>1, <1>2, EarlyIs, OwnWord
  <1>. QED
    BY <1>3, EarlyEnds DEF Refuse

\* One turn of the loop that reads the startup message.
LEMMA ReadsStartup ==
  ASSUME Inv, readStartupMessage, UNCHANGED <<proto, up, down>>
  PROVE  Inv'
PROOF
  <1>1. px.pos \in Early /\ px.pos = "startup"
    BY DEF readStartupMessage, Early
  <1>2. CASE ClientEOF /\ px' = End /\ UNCHANGED <<c, b>>
    BY <1>1, <1>2, EarlyIs, EarlyEnds
  <1>3. ASSUME NEW m, FromClient(m)
        PROVE  /\ c.said \in Seq(Message) /\ px.ssl \in Nat /\ px.rc = px.ssl
               /\ Len(c.said) = px.ssl + 1 /\ m = c.said[px.ssl + 1] /\ c.owes = "none"
    <2>1. c.said \in Seq(Message) /\ px.ssl \in Nat /\ px.rc = px.ssl
      BY <1>1, EarlyIs, Zenon DEF Clients, Handlers
    <2>2. px.ssl < Len(c.said) /\ m = c.said[px.ssl + 1]
      BY <1>3, <2>1 DEF FromClient
    <2>3. Len(c.said) = px.ssl + 1 /\ c.owes = "none"
      BY <1>1, <2>1, <2>2 DEF Inv, AtStartup
    <2>. QED
      BY <2>1, <2>2, <2>3
  <1>4. ASSUME NEW m, FromClient(m), m.kind = "bad" /\ px' = End /\ UNCHANGED <<c, b>>
        PROVE  Inv'
    BY <1>1, <1>4, EarlyIs, EarlyEnds
  <1>5. ASSUME NEW m, FromClient(m), m.kind = "ssl", UNCHANGED b,
               NEW reply \in {"S", "N"}, NEW ok \in BOOLEAN, ToClient(Msg(reply, 0), ok),
               px' = [px EXCEPT !.ssl = @ + 1, !.rc = @ + 1] \/ px' = End
        PROVE  Inv'
    <2>1. reply \in Own /\ Owed(reply) = "startup"
      BY DEF Own, Owed
    <2>2. /\ c' \in Clients /\ OwnOnly(c'.got) /\ c'.said = c.said
          /\ c'.owes \in {c.owes, "startup"}
      BY <1>1, <1>5, <2>1, EarlyIs, OwnWord
    <2>3. CASE px' = End
      BY <1>1, <1>5, <2>2, <2>3, EarlyEnds
    <2>4. CASE px' = [px EXCEPT !.ssl = @ + 1, !.rc = @ + 1]
      <3>1. px \in Handlers /\ px.ssl \in Nat /\ px.rc = px.ssl
        BY <1>1, EarlyIs, Zenon DEF Handlers
      <3>2. /\ px' \in Handlers /\ px'.pos = "startup" /\ px'.ssl = px.ssl + 1
            /\ px'.rc = px.ssl + 1 /\ px'.rb = px.rb /\ px'.first = px.first
        <4>1. px.ssl + 1 \in Nat /\ px' = [px EXCEPT !.ssl = px.ssl + 1, !.rc = px.ssl + 1]
          BY <2>4, <3>1
        <4>. DEFINE n == px.ssl + 1
        <4>2. n \in Nat /\ px' = [px EXCEPT !.ssl = n, !.rc = n]
          BY <4>1
        <4>. HIDE DEF n
        <4>3. px' \in Handlers
          BY <3>1, <4>2, Zenon DEF Handlers
        <4>4. /\ px'.pos = "startup" /\ px'.ssl = n /\ px'.rc = n /\ px'.rb = px.rb
              /\ px'.first = px.first
          BY <1>1, <3>1, <4>2, Zenon DEF Handlers
        <4>. QED
          BY <4>3, <4>4 DEF n
      <3>3. px'.shut = px.shut
        BY <2>4, <3>1, Zenon DEF Handlers
      <3>4. /\ c.said \in Seq(Message) /\ Len(c.said) = px.ssl + 1 /\ c.said[px.ssl + 1].kind = "ssl"
            /\ c.owes = "none"
        BY <1>3, <1>5
      <3>5. Matches(<<>>, {}, 0, c.said, {"ssl"}, px.ssl + 1)
        BY <1>1, <3>1, <3>4, EarlyIs, DropOne
      <3>6. AtStartup'
        BY <2>2, <3>1, <3>2, <3>4 DEF AtStartup
      <3>7. px'.ssl <= Len(c.said) /\ px'.rc = px'.ssl /\ Matches(<<>>, {}, 0, c.said, {"ssl"}, px'.ssl)
        BY <3>1, <3>2, <3>4, <3>5
      <3>8. px'.pos \in Early \cup {"ended"} /\ (px'.shut <=> px'.pos = "ended") /\ px'.pos = "startup"
        BY <1>1, <3>2, <3>3, EarlyIs
      <3>. QED
        BY <1>1, <1>5, <2>2, <3>2, <3>6, <3>7, <3>8, EarlyKeeps
    <2>. QED
      BY <1>5, <2>3, <2>4
  <1>6. ASSUME NEW m, FromClient(m), m.kind = "startup", Refuse
        PROVE  Inv'
    BY <1>1, <1>6, EarlyRefuses
  <1>7. ASSUME NEW m, FromClient(m), m.kind = "startup",
               px' = [px EXCEPT !.pos = "admit", !.tenant = TenantOfStartup(c.login)],
               UNCHANGED <<c, b>>
        PROVE  Inv'
    <2>1. c.login \in Logins /\ px \in Handlers
      BY <1>1, EarlyIs DEF Clients
    <2>2. TenantOfStartup(c.login) \in TenantNames
      BY <2>1 DEF TenantNames
    <2>3. /\ px' \in Handlers /\ px'.pos = "admit" /\ px'.ssl = px.ssl /\ px'.rc = px.rc
          /\ px'.rb = px.rb /\ px'.first = px.first
      BY <1>7, <2>1, <2>2, Zenon DEF Handlers, Early
    <2>4. px'.shut = px.shut
      BY <1>7, <2>1, Zenon DEF Handlers
    <2>5. /\ c.said \in Seq(Message) /\ Len(c.said) = px.ssl + 1 /\ c.said[px.ssl + 1].kind = "startup"
          /\ c.owes = "none" /\ px.ssl \in Nat
      BY <1>3, <1>7
    <2>6. NoSSL(c.said, px.ssl)
      BY <2>5 DEF NoSSL
    <2>7. AtStartup' /\ px'.pos \in Early \cup {"ended"} /\ (px'.shut <=> px'.pos = "ended")
      BY <1>1, <2>3, <2>4, EarlyIs DEF AtStartup, Early
    <2>8. /\ c' \in Clients /\ OwnOnly(c'.got) /\ c'.said = c.said /\ c'.owes # "startup"
          /\ px'.rc = px'.ssl /\ px'.ssl <= Len(c.said) /\ NoSSL(c.said, px'.ssl)
          /\ Matches(<<>>, {}, 0, c.said, {"ssl"}, px'.ssl)
      BY <1>1, <1>7, <2>3, <2>5, <2>6, EarlyIs
    <2>. QED
      BY <1>1, <1>7, <2>3, <2>7, <2>8, EarlyKeeps
  <1>8. CASE \E m \in Range(c.said) : FromClient(m) /\ m.kind = "ssl" /\ UNCHANGED b
               /\ (\E reply \in {"S", "N"}, ok \in BOOLEAN : ToClient(Msg(reply, 0), ok))
               /\ (px' = [px EXCEPT !.ssl = @ + 1, !.rc = @ + 1] \/ px' = End)
    BY <1>5, <1>8
  <1>. QED
    BY <1>2, <1>4, <1>6, <1>7, <1>8 DEF readStartupMessage

\* The handler moves on within the startup, past the place where TLS is asked for.
LEMMA EarlyMoves ==
  ASSUME Inv, px.pos \in {"greet", "response"}, UNCHANGED <<proto, b, up, down>>,
         NEW pos \in {"response", "admit"}, NEW tenant \in TenantNames,
         px' = [px EXCEPT !.pos = pos, !.tenant = tenant],
         c' \in Clients, OwnOnly(c'.got), c'.said = c.said, c'.owes # "startup"
  PROVE  Inv'
PROOF
  <1>1. px.pos \in Early
    BY DEF Early
  <1>2. px \in Handlers
    BY <1>1, EarlyIs
  <1>3. /\ px' \in Handlers /\ px'.pos = pos /\ px'.ssl = px.ssl /\ px'.rc = px.rc
        /\ px'.rb = px.rb /\ px'.first = px.first
    BY <1>2, Zenon DEF Handlers, Early
  <1>4. px'.shut = px.shut
    BY <1>2, Zenon DEF Handlers
  <1>5. AtStartup' /\ px'.pos \in Early \cup {"ended"} /\ (px'.shut <=> px'.pos = "ended")
    BY <1>1, <1>3, <1>4, EarlyIs DEF AtStartup, Early
  <1>6. NoSSL(c.said, px'.ssl)
    BY <1>3 DEF Inv, Upward
  <1>7. /\ px'.rc = px'.ssl /\ px'.ssl <= Len(c.said) /\ Matches(<<>>, {}, 0, c.said, {"ssl"}, px'.ssl)
    BY <1>1, <1>3, EarlyIs
  <1>. QED
    BY <1>1, <1>3, <1>5, <1>6, <1>7, EarlyKeeps

\* The synthetic greeting, and the response to it.
LEMMA ReadsResponse ==
  ASSUME Inv, sendSyntheticHandshake \/ readHandshakeResponse, UNCHANGED <<proto, up, down>>
  PROVE  Inv'
PROOF
  <1>1. px.pos \in {"greet", "response"} /\ px.pos \in Early
    BY DEF sendSyntheticHandshake, readHandshakeResponse, Early
  <1>2. px \in Handlers /\ c \in Clients /\ OwnOnly(c.got) /\ c.login \in Logins
    BY <1>1, EarlyIs DEF Clients
  <1>3. c.owes # "startup"
    BY <1>1 DEF Inv, Upward
  <1>4. CASE sendSyntheticHandshake
    <2>1. PICK ok \in BOOLEAN : /\ ToClient(Msg("synthetic", 0), ok)
                                /\ px' = IF ok THEN [px EXCEPT !.pos = "response"] ELSE End
      BY <1>4 DEF sendSyntheticHandshake
    <2>2. "synthetic" \in Own /\ Owed("synthetic") = "response" /\ UNCHANGED b
      BY <1>4 DEF Own, Owed, sendSyntheticHandshake
    <2>3. c' \in Clients /\ OwnOnly(c'.got) /\ c'.said = c.said /\ c'.owes # "startup"
      BY <1>2, <1>3, <2>1, <2>2, OwnWord
    <2>4. CASE px' = End
      BY <1>1, <2>2, <2>3, <2>4, EarlyEnds
    <2>5. CASE px' = [px EXCEPT !.pos = "response"]
      <3>1. px' = [px EXCEPT !.pos = "response", !.tenant = px.tenant] /\ px.tenant \in TenantNames
        BY <1>2, <2>5, Zenon DEF Handlers
      <3>2. "response" \in {"response", "admit"}
        OBVIOUS
      <3>. QED
        BY <1>1, <2>2, <2>3, <3>1, <3>2, EarlyMoves, Zenon
    <2>. QED
      BY <2>1, <2>4, <2>5
  <1>5. CASE readHandshakeResponse
    <2>1. CASE px' = End /\ UNCHANGED <<c, b>>
      BY <1>1, <1>2, <2>1, EarlyEnds
    <2>2. CASE Refuse
      BY <1>1, <2>2, EarlyRefuses
    <2>3. CASE /\ px' = [px EXCEPT !.pos = "admit", !.tenant = TenantOfResponse(c.login)]
               /\ UNCHANGED <<c, b>>
      <3>1. TenantOfResponse(c.login) \in TenantNames /\ "admit" \in {"response", "admit"}
        BY <1>2 DEF TenantNames
      <3>. QED
        BY <1>1, <1>2, <1>3, <2>3, <3>1, EarlyMoves, Zenon
    <2>. QED
      BY <1>5, <2>1, <2>2, <2>3 DEF readHandshakeResponse
  <1>. QED
    BY <1>4, <1>5

-----------------------------------------------------------------------------
(* The handler, from the backend connection to the relay *)

\* The session gets its server, or is refused.
LEMMA Admits ==
  ASSUME Inv, Admit, UNCHANGED <<proto, up, down>>
  PROVE  Inv'
PROOF
  <1>1. px.pos \in Early /\ px.pos = "admit"
    BY Zenon DEF Admit, Early
  <1>2. CASE Refuse
    BY <1>1, <1>2, EarlyRefuses
  <1>3. CASE ~Refuse
    <2>. DEFINE said == IF proto = "mysql" THEN Plain(<<"greeting">>) ELSE <<>>
                pos == IF proto = "mysql" THEN "greeting" ELSE "forward"
    <2>1. PICK pinged \in BOOLEAN :
            /\ b' = [b EXCEPT !.stage = "new", !.said = said]
            /\ px' = [px EXCEPT !.pos = pos, !.torn = pinged /\ proto = "mysql"]
            /\ UNCHANGED c
      BY <1>3, Zenon DEF Admit
    <2>2. /\ c \in Clients /\ OwnOnly(c.got) /\ px \in Handlers /\ b.got = <<>> /\ b \in Servers
          /\ px.rc = px.ssl /\ px.ssl \in Nat
      BY <1>1, EarlyIs, Zenon DEF Inv, Types, Handlers
    <2>3. /\ b.stage = "off" /\ px.rb = 0 /\ up = "off" /\ down = "off" /\ px.first = ""
      BY <1>1, Zenon DEF Inv, Control, Early, Late
    <2>4. ~px.shut
      BY <1>1, EarlyIs
    <2>5. /\ said \in Seq(Message) /\ Len(said) = Greetings
          /\ \A i \in 1..Greetings : said[i].kind = "greeting"
      <3>1. "greeting" \in MessageKinds
        BY DEF MessageKinds
      <3>. DEFINE kinds == <<"greeting">>
      <3>2. kinds \in Seq(MessageKinds) /\ Len(kinds) = 1 /\ kinds[1] = "greeting"
        BY <3>1
      <3>. HIDE DEF kinds
      <3>3. Plain(kinds) \in Seq(Message) /\ Len(Plain(kinds)) = 1 /\ Plain(kinds)[1].kind = "greeting"
        BY <3>2, PlainIs
      <3>5. CASE proto = "mysql"
        BY <3>3, <3>5 DEF Greetings, kinds
      <3>6. CASE proto # "mysql"
        BY <3>6 DEF Greetings
      <3>. QED
        BY <3>5, <3>6
    <2>6. Greetings \in {0, 1} /\ Greetings' = Greetings
      BY DEF Greetings
    <2>7. pos \in {"greeting", "forward"} /\ (pos = "greeting" => proto = "mysql")
          /\ (pos = "forward" => Greetings = 0)
      BY DEF Greetings
    <2>. HIDE DEF said, pos
    <2>8. /\ b' \in Servers /\ b'.stage = "new" /\ b'.said = said /\ b'.got = <<>>
      BY <2>1, <2>2, <2>5, Zenon DEF Servers, Stages
    <2>9. (pinged /\ proto = "mysql") \in BOOLEAN
      OBVIOUS
    <2>10. /\ px' \in Handlers /\ px'.pos = pos /\ px'.ssl = px.ssl /\ px'.rc = px.rc /\ px'.rb = 0
           /\ px'.first = ""
      BY <2>1, <2>2, <2>3, <2>7, <2>9, Zenon DEF Handlers, Talking
    <2>11. px'.shut = px.shut
      BY <2>1, <2>2, Zenon DEF Handlers
    <2>12. Types'
      BY <2>1, <2>8, <2>10, Zenon DEF Inv, Types
    <2>13. Control'
      BY <2>3, <2>4, <2>7, <2>8, <2>10, <2>11, Zenon DEF Control, Early
    <2>14. AtStartup'
      BY <2>7, <2>10, Zenon DEF AtStartup
    <2>15. Upward'
      <3>1. c.owes # "startup" /\ NoSSL(c.said, px.ssl) /\ px.ssl <= Len(c.said)
            /\ Matches(<<>>, {}, 0, c.said, {"ssl"}, px.ssl)
        BY <1>1, EarlyIs DEF Inv, Upward
      <3>2. Len(b'.got) = 0 /\ px'.rc = px'.ssl + Len(b'.got)
        <4>1. Len(b'.got) = 0
          BY <2>8
        <4>2. px'.rc = px'.ssl /\ px'.ssl \in Nat
          BY <2>2, <2>10, Zenon
        <4>. QED
          BY <4>1, <4>2
      <3>3. c' = c
        BY <2>1
      <3>4. Matches(b'.got, {}, 0, c'.said, {"ssl"}, px'.ssl)
        BY <2>8, <2>10, <3>1, <3>3, Zenon
      <3>5. NoSSL(c'.said, px'.ssl) /\ c'.owes # "startup" /\ px'.ssl <= Len(c'.said)
        BY <2>10, <3>1, <3>3, Zenon
      <3>. QED
        BY <3>2, <3>4, <3>5 DEF Upward
    <2>16. Downward'
      <3>1. c' = c /\ c.got \in Seq(Message)
        BY <2>1, <2>2 DEF Clients
      <3>2. Matches(c.got, Own, Len(c.got), said, {"greeting"}, Greetings)
        BY <2>2, <2>5, <2>6, <3>1, OwnMatches
      <3>3. ServerOnly(said, Greetings)
        BY <2>5, <2>6 DEF ServerOnly
      <3>4. DownwardFrom(Len(c.got))'
        BY <2>6, <2>7, <2>8, <2>10, <3>1, <3>2, Zenon DEF DownwardFrom
      <3>5. Len(c.got) \in 0..Len(c'.got)
        BY <3>1
      <3>6. Greetings <= Len(b'.said) /\ ServerOnly(b'.said, Greetings)
        BY <2>5, <2>6, <2>8, <3>3
      <3>. QED
        BY <2>6, <3>1, <3>4, <3>5, <3>6 DEF Downward
    <2>17. Words'
      BY <2>10, Zenon DEF Words
    <2>. QED
      BY <2>12, <2>13, <2>14, <2>15, <2>16, <2>17 DEF Inv
  <1>. QED
    BY <1>2, <1>3

\* The handler returns in the middle of an authentication.
LEMMA TalkEnds ==
  ASSUME Inv, px.pos \in Talking, px' = End, UNCHANGED <<proto, c, b, up, down>>
  PROVE  Inv'
PROOF
  <1>1. px \in Handlers
    BY DEF Inv, Types
  <1>2. /\ up = "off" /\ down = "off" /\ px.first = "" /\ b.stage # "off"
    BY Zenon DEF Inv, Control, Early, Talking, Late
  <1>3. Types'
    BY <1>1, EndIs DEF Inv, Types
  <1>4. Control' /\ AtStartup'
    BY <1>1, <1>2, EndIs, Zenon DEF Inv, Control, AtStartup, Early, Late
  <1>5. Upward'
    BY <1>1, EndIs DEF Inv, Upward
  <1>6. Downward'
    BY <1>1, <1>2, EndIs, Zenon DEF Inv, Downward, DownwardFrom, Greetings
  <1>7. Words'
    BY <1>1, <1>2, EndIs, Zenon DEF Words
  <1>. QED
    BY <1>3, <1>4, <1>5, <1>6, <1>7 DEF Inv

\* Where the handler passes messages on.
Passing == (Talking \ {"greeting"}) \cup {"relay"}

\* What holds there.
LEMMA PassingIs ==
  ASSUME Inv, px.pos \in Passing
  PROVE  /\ c \in Clients /\ b \in Servers /\ px \in Handlers
         /\ c.said \in Seq(Message) /\ c.got \in Seq(Message)
         /\ b.said \in Seq(Message) /\ b.got \in Seq(Message)
         /\ px.ssl \in Nat /\ px.rc \in Nat /\ px.rb \in Nat /\ ~px.shut
         /\ b.stage # "off" /\ px.pos \notin {"startup", "ended", "greeting", "wait"}
         /\ Greetings \in 0..Len(b.said)
PROOF
  <1>1. c \in Clients /\ b \in Servers /\ px \in Handlers
    BY DEF Inv, Types
  <1>2. b.stage # "off" /\ px.pos \notin {"startup", "ended", "greeting", "wait"}
    BY Zenon DEF Inv, Control, Passing, Talking, Early
  <1>3. ~px.shut
    BY <1>2, Zenon DEF Inv, Control
  <1>4. Greetings \in 0..Len(b.said)
    BY <1>1, <1>2 DEF Inv, Downward, Greetings, Servers
  <1>. QED
    BY <1>1, <1>2, <1>3, <1>4, Zenon DEF Clients, Servers, Handlers

\* One message of the client is passed on, or met a server that is gone.
LEMMA OneUp ==
  ASSUME Inv, px.pos \in Passing, NEW m, FromClient(m), NEW ok \in BOOLEAN, ToBackend(m, ok)
  PROVE  /\ b' \in Servers /\ b'.said = b.said /\ b'.stage = b.stage
         /\ Matches(b'.got, {}, 0, c.said, {"ssl"}, px.ssl)
         /\ b.stage # "gone" => px.rc + 1 = px.ssl + Len(b'.got)
PROOF
  <1>1. CASE b.stage = "gone"
    BY <1>1, PassingIs DEF ToBackend, Inv, Upward
  <1>2. CASE b.stage # "gone"
    <2>1. px.rc = px.ssl + Len(b.got) /\ NoSSL(c.said, px.ssl) /\ px.ssl \in 0..Len(c.said)
      BY <1>2, PassingIs DEF Inv, Upward
    <2>2. px.rc + 1 \in 1..Len(c.said) /\ m = c.said[px.rc + 1] /\ px.rc + 1 \in (px.ssl + 1)..Len(c.said)
      BY <2>1, PassingIs, SMTT(30) DEF FromClient
    <2>3. m \in Message /\ m.kind # "ssl"
      BY <2>1, <2>2, PassingIs, SMTT(30) DEF NoSSL
    <2>4. Matches(Append(b.got, c.said[px.rc + 1]), {}, 0, c.said, {"ssl"}, px.ssl)
      <3>1. px.rc + 1 = Len(b.got) - 0 + px.ssl + 1 /\ 0 \in 0..Len(b.got)
        BY <2>1, PassingIs
      <3>2. c.said[px.rc + 1].kind \notin {} \cup {"ssl"}
        BY <2>2, <2>3
      <3>3. Matches(b.got, {}, 0, c.said, {"ssl"}, px.ssl)
        BY DEF Inv, Upward
      <3>. QED
        BY <2>1, <2>2, <3>1, <3>2, <3>3, PassingIs, PassOne, Zenon
    <2>5. b' = [b EXCEPT !.got = Append(b.got, m)]
      BY <1>2 DEF ToBackend
    <2>6. Append(b.got, m) \in Seq(Message) /\ Len(Append(b.got, m)) = Len(b.got) + 1
      BY <2>3, PassingIs
    <2>7. /\ b' \in Servers /\ b'.said = b.said /\ b'.stage = b.stage /\ b'.got = Append(b.got, m)
      BY <2>5, <2>6, PassingIs, Zenon DEF Servers
    <2>8. Len(b.got) \in Nat /\ px.ssl \in Nat
      BY PassingIs
    <2>9. Matches(b'.got, {}, 0, c.said, {"ssl"}, px.ssl)
      BY <2>2, <2>4, <2>7
    <2>10. px.rc + 1 = px.ssl + Len(b'.got)
      BY <2>1, <2>6, <2>7, <2>8
    <2>. QED
      BY <2>7, <2>9, <2>10
  <1>. QED
    BY <1>1, <1>2

\* The handler passes a message of the client on and goes to its next place.
LEMMA PassesUp ==
  ASSUME Inv, px.pos \in Passing, NEW m, FromClient(m), NEW ok \in BOOLEAN, ToBackend(m, ok),
         NEW next \in Passing, px.pos = "relay" => next = "relay" /\ up = "copy",
         px' = [px EXCEPT !.pos = next, !.rc = px.rc + 1], UNCHANGED <<proto, c, up, down>>
  PROVE  Inv'
PROOF
  <1>1. px.rc + 1 \in Nat /\ next \in Early \cup Talking \cup Late
    BY PassingIs DEF Passing, Late
  <1>2. /\ px' \in Handlers /\ px'.pos = next /\ px'.rc = px.rc + 1 /\ px'.rb = px.rb
        /\ px'.ssl = px.ssl /\ px'.first = px.first
    BY <1>1, PassingIs, Zenon DEF Handlers
  <1>3. px'.shut = px.shut
    BY PassingIs, Zenon DEF Handlers
  <1>4. /\ b' \in Servers /\ b'.said = b.said /\ b'.stage = b.stage
        /\ Matches(b'.got, {}, 0, c.said, {"ssl"}, px.ssl)
        /\ b.stage # "gone" => px.rc + 1 = px.ssl + Len(b'.got)
    BY OneUp
  <1>5. next \notin {"startup", "ended", "greeting", "wait"} /\ next \notin Early
    BY DEF Passing, Talking, Early
  <1>6. Types'
    BY <1>2, <1>4 DEF Inv, Types
  <1>7. Control'
    <2>1. (up # "off" \/ down # "off" \/ px.first # "") => next \in Late
      BY Zenon DEF Inv, Control, Passing, Talking, Late
    <2>. QED
      BY <1>2, <1>3, <1>4, <1>5, <2>1, PassingIs, Zenon DEF Inv, Control
  <1>8. AtStartup'
    BY <1>2, <1>5 DEF AtStartup
  <1>9. Upward'
    BY <1>2, <1>4, PassingIs DEF Inv, Upward
  <1>10. Downward'
    BY <1>2, <1>4, <1>5, PassingIs, Zenon DEF Inv, Downward, DownwardFrom, Greetings
  <1>11. Words'
    <2>1. px.first # "up"
      BY Zenon DEF Inv, Words, Control, Passing, Talking, Late
    <2>. QED
      BY <1>2, <1>4, <2>1 DEF Inv, Words
  <1>. QED
    BY <1>6, <1>7, <1>8, <1>9, <1>10, <1>11 DEF Inv

\* One message of the server is passed on, or met a client that is gone.
LEMMA OneDown ==
  ASSUME Inv, px.pos \in Passing, NEW m, FromBackend(m), NEW ok \in BOOLEAN, ToClient(m, ok)
  PROVE  /\ c' \in Clients /\ c'.said = c.said /\ c'.end = c.end /\ c'.owes # "startup"
         /\ \E k \in 0..Len(c'.got) :
              /\ Matches(c'.got, Own, k, b.said, {"greeting"}, Greetings)
              /\ c.end # "gone" => Len(c'.got) + Greetings = k + px.rb + 1
PROOF
  <1>1. PICK k \in 0..Len(c.got) : DownwardFrom(k)
    BY PassingIs DEF Inv, Downward
  <1>2. c.owes # "startup"
    BY PassingIs DEF Inv, Upward
  <1>3. CASE c.end = "gone"
    BY <1>1, <1>2, <1>3, PassingIs DEF ToClient, DownwardFrom
  <1>4. CASE c.end # "gone"
    <2>1. Len(c.got) + Greetings = k + px.rb /\ Matches(c.got, Own, k, b.said, {"greeting"}, Greetings)
      BY <1>1, <1>4, PassingIs DEF DownwardFrom
    <2>2. /\ px.rb + 1 \in 1..Len(b.said) /\ m = b.said[px.rb + 1]
          /\ px.rb + 1 \in (Greetings + 1)..Len(b.said)
          /\ px.rb + 1 = Len(c.got) - k + Greetings + 1
      <3>1. px.rb < Len(b.said) /\ m = b.said[px.rb + 1]
        BY DEF FromBackend
      <3>2. /\ px.rb \in Nat /\ Len(b.said) \in Nat /\ Len(c.got) \in Nat /\ Greetings \in Nat
            /\ k \in Nat /\ k <= Len(c.got)
        BY <1>1, PassingIs
      <3>. DEFINE r == px.rb
                  n == Len(b.said)
                  g == Len(c.got)
                  d == Greetings
      <3>3. g + d = k + r /\ r < n
        BY <2>1, <3>1, Zenon
      <3>4. r \in Nat /\ n \in Nat /\ g \in Nat /\ d \in Nat
        BY <3>2, Zenon
      <3>. HIDE DEF r, n, g, d
      <3>5. r + 1 \in 1..n /\ r + 1 \in (d + 1)..n /\ r + 1 = g - k + d + 1
        <4>1. k \in Nat
          BY <3>2, Zenon
        <4>2. k <= g
          BY <3>2, Zenon DEF g
        <4>. QED
          BY <3>3, <3>4, <4>1, <4>2
      <3>. QED
        BY <3>1, <3>5, Zenon DEF r, n, g, d
    <2>3. m \in Message
      BY <2>2, PassingIs
    <2>4. m.kind \notin Own \cup {"greeting"}
      BY <2>2, PassingIs, Zenon DEF Inv, Downward, ServerOnly
    <2>5. Matches(Append(c.got, b.said[px.rb + 1]), Own, k, b.said, {"greeting"}, Greetings)
      BY <1>1, <2>1, <2>2, <2>4, PassingIs, PassOne, Zenon
    <2>6. c' = Hear(m)
      BY <1>4 DEF ToClient
    <2>7. Owed(m.kind) # "startup"
      BY <2>4 DEF Owed, Own
    <2>8. Len(Append(c.got, m)) = Len(c.got) + 1 /\ k \in 0..(Len(c.got) + 1)
      BY <1>1, <2>3, PassingIs
    <2>9. Len(c.got) + 1 + Greetings = k + px.rb + 1
      BY <1>1, <2>1, PassingIs
    <2>10. /\ c' \in Clients /\ c'.said = c.said /\ c'.end = c.end /\ c'.owes # "startup"
           /\ c'.got = Append(c.got, m)
      BY <2>3, <2>6, <2>7, HearIs, PassingIs, SMTT(30)
    <2>11. /\ k \in 0..Len(c'.got) /\ Matches(c'.got, Own, k, b.said, {"greeting"}, Greetings)
           /\ Len(c'.got) + Greetings = k + px.rb + 1
      BY <2>2, <2>5, <2>8, <2>9, <2>10
    <2>. QED
      BY <2>10, <2>11
  <1>. QED
    BY <1>3, <1>4

\* The handler passes a message of the server on and goes to its next place, or returns.
LEMMA PassesDown ==
  ASSUME Inv, px.pos \in Passing, NEW m, FromBackend(m), NEW ok \in BOOLEAN, ToClient(m, ok),
         NEW next \in Passing, px.pos = "relay" => next = "relay" /\ down = "copy",
         \/ px' = [px EXCEPT !.pos = next, !.rb = px.rb + 1]
         \/ px.pos # "relay" /\ px' = End,
         UNCHANGED <<proto, b, up, down>>
  PROVE  Inv'
PROOF
  <1>1. px.rb + 1 \in Nat /\ next \in Early \cup Talking \cup Late
    BY PassingIs DEF Passing, Late
  <1>2. /\ px' \in Handlers /\ px'.rc = px.rc /\ px'.ssl = px.ssl /\ px'.first = px.first
        /\ (px'.pos = next /\ px'.rb = px.rb + 1) \/ (px'.pos = "ended" /\ px.pos # "relay")
    <2>1. CASE px' = [px EXCEPT !.pos = next, !.rb = px.rb + 1]
      BY <1>1, <2>1, PassingIs, Zenon DEF Handlers
    <2>2. CASE px.pos # "relay" /\ px' = End
      BY <2>2, PassingIs, EndIs, Zenon
    <2>. QED
      BY <2>1, <2>2
  <1>3. next \notin {"startup", "ended", "greeting", "wait"} /\ next \notin Early
    BY DEF Passing, Talking, Early
  <1>4. px'.shut <=> px'.pos \in {"wait", "ended"}
    <2>1. CASE px' = [px EXCEPT !.pos = next, !.rb = px.rb + 1]
      <3>1. px'.shut = px.shut /\ px'.pos = next
        BY <2>1, PassingIs, Zenon DEF Handlers
      <3>. QED
        BY <1>3, <3>1, PassingIs
    <2>2. CASE px' = End
      BY <2>2, PassingIs, EndIs, Zenon
    <2>. QED
      BY <2>1, <2>2
  <1>5. /\ c' \in Clients /\ c'.said = c.said /\ c'.end = c.end /\ c'.owes # "startup"
        /\ \E k \in 0..Len(c'.got) :
             /\ Matches(c'.got, Own, k, b.said, {"greeting"}, Greetings)
             /\ c.end # "gone" => Len(c'.got) + Greetings = k + px.rb + 1
    BY OneDown
  <1>6. px'.pos \notin {"startup", "greeting"} /\ px'.pos \notin Early
    BY <1>2, <1>3 DEF Early
  <1>7. Types'
    BY <1>2, <1>5 DEF Inv, Types
  <1>8. Control'
    <2>1. (up # "off" \/ down # "off" \/ px.first # "") => px'.pos \in Late
      BY <1>2, Zenon DEF Inv, Control, Passing, Talking, Late
    <2>. QED
      BY <1>2, <1>4, <1>6, <2>1, PassingIs, Zenon DEF Inv, Control
  <1>9. AtStartup'
    BY <1>6 DEF AtStartup
  <1>10. Upward'
    BY <1>2, <1>5, PassingIs, SMTT(30) DEF Inv, Upward
  <1>11. Downward'
    <2>1. PICK k \in 0..Len(c'.got) :
             /\ Matches(c'.got, Own, k, b.said, {"greeting"}, Greetings)
             /\ c.end # "gone" => Len(c'.got) + Greetings = k + px.rb + 1
      BY <1>5
    <2>2. Greetings' = Greetings
      BY DEF Greetings
    <2>3. DownwardFrom(k)'
      <3>1. px'.pos = "ended" => up' = "off"
        BY <1>2, <1>3, Zenon DEF Inv, Control, Passing, Talking, Late
      <3>2. c'.end # "gone" /\ px'.pos # "ended" => Len(c'.got) + Greetings = k + px'.rb
        <4>. DEFINE r == px.rb
                    r1 == px'.rb
                    g == Len(c'.got)
        <4>1. px'.pos # "ended" => r1 = r + 1
          BY <1>2, Zenon
        <4>2. c'.end # "gone" => g + Greetings = k + r + 1
          BY <1>5, <2>1, Zenon
        <4>3. g \in Nat /\ k \in Nat /\ r \in Nat /\ Greetings \in Nat
          BY <1>5, <2>1, PassingIs DEF Clients
        <4>. HIDE DEF r, r1, g
        <4>4. ASSUME g + Greetings = k + r + 1, r1 = r + 1
              PROVE  g + Greetings = k + r1
          BY <4>3, <4>4
        <4>5. c'.end # "gone" /\ px'.pos # "ended" => g + Greetings = k + r1
          BY <4>1, <4>2, <4>4, Zenon
        <4>. QED
          BY <4>5, Zenon DEF g, r1
      <3>. QED
        BY <1>6, <2>1, <2>2, <3>1, <3>2, Zenon DEF DownwardFrom
    <2>. QED
      BY <2>1, <2>2, <2>3, PassingIs DEF Inv, Downward
  <1>12. Words'
    <2>1. px.first # "down"
      BY Zenon DEF Inv, Words, Control, Passing, Talking, Late
    <2>. QED
      BY <1>2, <1>5, <2>1 DEF Inv, Words
  <1>. QED
    BY <1>7, <1>8, <1>9, <1>10, <1>11, <1>12 DEF Inv

\* The greeting of the server is read and dropped.
LEMMA DropsGreeting ==
  ASSUME Inv, ReadGreeting, UNCHANGED <<proto, up, down>>
  PROVE  Inv'
PROOF
  <1>1. px.pos = "greeting" /\ px.pos \in Talking /\ UNCHANGED <<c, b>>
    BY DEF ReadGreeting, Talking
  <1>2. CASE px' = End
    BY <1>1, <1>2, TalkEnds
  <1>3. CASE px' = [px EXCEPT !.pos = "forward", !.rb = @ + 1]
    <2>1. px \in Handlers /\ px.rb \in Nat /\ b.stage # "off" /\ px.first = "" /\ c \in Clients
      BY <1>1, Zenon DEF Inv, Types, Handlers, Control, Early, Late
    <2>2. PICK k \in 0..Len(c.got) : DownwardFrom(k)
      BY <2>1, Zenon DEF Inv, Downward
    <2>3. k = Len(c.got) /\ px.rb = 0 /\ Greetings = 1 /\ k \in Nat
      <3>1. Len(c.got) \in Nat
        <4>1. c.got \in Seq(Message)
          BY <2>1, Zenon DEF Clients
        <4>. QED
          BY <4>1
      <3>2. k = Len(c.got) /\ px.rb = 0 /\ proto = "mysql"
        BY <1>1, <2>2 DEF DownwardFrom
      <3>. QED
        BY <3>1, <3>2 DEF Greetings
    <2>4. px' = [px EXCEPT !.pos = "forward", !.rb = 1]
      BY <1>3, <2>3
    <2>5. /\ px' \in Handlers /\ px'.pos = "forward" /\ px'.rb = 1 /\ px'.rc = px.rc
          /\ px'.ssl = px.ssl /\ px'.first = ""
      BY <2>1, <2>4, Zenon DEF Handlers, Talking
    <2>6. px'.shut = px.shut
      BY <2>1, <2>4, Zenon DEF Handlers
    <2>7. Types' /\ AtStartup' /\ Words'
      BY <1>1, <2>5, Zenon DEF Inv, Types, AtStartup, Words
    <2>8. Control'
      BY <1>1, <2>1, <2>5, <2>6, Zenon DEF Inv, Control, Early, Late
    <2>9. Upward'
      BY <1>1, <2>5, Zenon DEF Inv, Upward
    <2>10. Downward'
      <3>1. DownwardFrom(k)'
        BY <1>1, <2>2, <2>3, <2>5, Zenon DEF DownwardFrom, Greetings
      <3>. QED
        BY <1>1, <2>1, <2>2, <3>1, Zenon DEF Inv, Downward, Greetings
    <2>. QED
      BY <2>7, <2>8, <2>9, <2>10 DEF Inv
  <1>. QED
    BY <1>2, <1>3 DEF ReadGreeting

\* ForwardUp, at its places.
LEMMA ForwardsUp ==
  ASSUME Inv, px.pos \in Talking \ {"greeting"}, NEW next \in Talking \ {"greeting"},
         ForwardUp(next), UNCHANGED <<proto, up, down>>
  PROVE  Inv'
PROOF
  <1>1. px.pos \in Passing /\ next \in Passing /\ px.pos # "relay" /\ px.pos \in Talking
    BY DEF Passing, Talking
  <1>2. UNCHANGED c
    BY DEF ForwardUp
  <1>3. CASE ClientEOF /\ px' = End /\ UNCHANGED b
    BY <1>1, <1>2, <1>3, TalkEnds
  <1>4. ASSUME NEW m, NEW ok \in BOOLEAN, FromClient(m), ToBackend(m, ok),
               px' = IF ok THEN [px EXCEPT !.pos = next, !.rc = @ + 1] ELSE End
        PROVE  Inv'
    <2>1. CASE ok
      <3>1. px' = [px EXCEPT !.pos = next, !.rc = px.rc + 1]
        BY <1>4, <2>1
      <3>. QED
        BY <1>1, <1>2, <1>4, <3>1, PassesUp, Zenon
    <2>2. CASE ~ok
      <3>1. px' = End /\ UNCHANGED b
        BY <1>4, <2>2 DEF ToBackend
      <3>. QED
        BY <1>1, <1>2, <3>1, TalkEnds
    <2>. QED
      BY <2>1, <2>2
  <1>. QED
    BY <1>3, <1>4 DEF ForwardUp

\* ForwardDown, at its places.
LEMMA ForwardsDown ==
  ASSUME Inv, px.pos \in Talking \ {"greeting"}, NEW after,
         \A kind \in Kinds(b.said) : after[kind] \in Passing \cup {"ended"},
         ForwardDown(after), UNCHANGED <<proto, up, down>>
  PROVE  Inv'
PROOF
  <1>1. px.pos \in Passing /\ px.pos # "relay" /\ px.pos \in Talking /\ "auth" \in Passing
    BY DEF Passing, Talking
  <1>2. UNCHANGED b
    BY Zenon DEF ForwardDown
  <1>3. CASE BackendEOF /\ px' = End /\ UNCHANGED c
    BY <1>1, <1>2, <1>3, TalkEnds
  <1>4. ASSUME NEW m, NEW ok \in BOOLEAN, FromBackend(m), ToClient(m, ok),
               px' = IF ok /\ after[m.kind] # "ended"
                       THEN [px EXCEPT !.pos = after[m.kind], !.rb = @ + 1] ELSE End
        PROVE  Inv'
    <2>1. CASE ok /\ after[m.kind] # "ended"
      <3>1. px.rb + 1 \in DOMAIN b.said /\ m = b.said[px.rb + 1]
        BY <1>1, <1>4, PassingIs DEF FromBackend
      <3>2. m.kind \in Kinds(b.said)
        BY <3>1 DEF Kinds
      <3>3. after[m.kind] \in Passing
        BY <2>1, <3>2
      <3>. DEFINE next == after[m.kind]
      <3>4. px' = [px EXCEPT !.pos = next, !.rb = px.rb + 1] /\ next \in Passing
        BY <1>4, <2>1, <3>3
      <3>. HIDE DEF next
      <3>. QED
        BY <1>1, <1>2, <1>4, <3>4, PassesDown, Zenon
    <2>2. CASE ~(ok /\ after[m.kind] # "ended")
      <3>1. px' = End
        BY <1>4, <2>2
      <3>. QED
        BY <1>1, <1>2, <1>4, <3>1, PassesDown, Zenon
    <2>. QED
      BY <2>1, <2>2
  <1>. QED
    BY <1>3, <1>4, Zenon DEF ForwardDown

\* The startup message is forwarded and the authentication relayed, to its verdict.
LEMMA Authenticates ==
  ASSUME Inv, ForwardStartup \/ relayAuth \/ ReadAuthResult, UNCHANGED <<proto, up, down>>
  PROVE  Inv'
PROOF
  <1>1. {"forward", "auth", "proof", "sasl", "saslContinue", "result"} \subseteq Talking \ {"greeting"}
    BY DEF Talking
  <1>2. {"auth", "proof", "sasl", "relay"} \subseteq Passing
    BY DEF Passing, Talking
  <1>3. CASE ForwardStartup
    <2>1. (IF proto = "mysql" THEN "result" ELSE "auth") \in Talking \ {"greeting"}
      BY <1>1
    <2>. QED
      BY <1>1, <1>3, <2>1, ForwardsUp DEF ForwardStartup
  <1>4. CASE px.pos = "auth" /\ ForwardDown([kind \in Kinds(b.said) |-> AfterAuthMessage(kind)])
    <2>. DEFINE after == [kind \in Kinds(b.said) |-> AfterAuthMessage(kind)]
    <2>1. \A kind \in Kinds(b.said) : after[kind] \in Passing \cup {"ended"}
      BY <1>2 DEF AfterAuthMessage
    <2>2. px.pos \in Talking \ {"greeting"} /\ ForwardDown(after)
      BY <1>1, <1>4
    <2>. HIDE DEF after
    <2>. QED
      BY <2>1, <2>2, ForwardsDown
  <1>5. CASE px.pos = "proof" /\ ForwardUp("auth")
    BY <1>1, <1>5, ForwardsUp
  <1>6. CASE px.pos = "sasl" /\ ForwardUp("saslContinue")
    BY <1>1, <1>6, ForwardsUp
  <1>7. CASE px.pos = "saslContinue" /\ ForwardDown([kind \in Kinds(b.said) |-> "proof"])
    <2>. DEFINE after == [kind \in Kinds(b.said) |-> "proof"]
    <2>1. \A kind \in Kinds(b.said) : after[kind] \in Passing \cup {"ended"}
      BY <1>2
    <2>2. px.pos \in Talking \ {"greeting"} /\ ForwardDown(after)
      BY <1>1, <1>7
    <2>. HIDE DEF after
    <2>. QED
      BY <2>1, <2>2, ForwardsDown
  <1>8. CASE ReadAuthResult
    <2>1. px.pos \in Talking \ {"greeting"}
      BY <1>1, <1>8 DEF ReadAuthResult
    <2>2. CASE px.torn
      BY <1>8, <2>1, <2>2, TalkEnds DEF ReadAuthResult
    <2>3. CASE ~px.torn
      <3>. DEFINE after == [kind \in Kinds(b.said) |-> IF kind = "err" THEN "ended" ELSE "relay"]
      <3>1. \A kind \in Kinds(b.said) : after[kind] \in Passing \cup {"ended"}
        BY <1>2
      <3>2. ForwardDown(after)
        BY <1>8, <2>3 DEF ReadAuthResult
      <3>. HIDE DEF after
      <3>. QED
        BY <2>1, <3>1, <3>2, ForwardsDown
    <2>. QED
      BY <2>2, <2>3
  <1>. QED
    BY <1>3, <1>4, <1>5, <1>6, <1>7, <1>8 DEF relayAuth

-----------------------------------------------------------------------------
(* The relay *)

\* Both goroutines are started; later both connections are closed, and Handle returns.
LEMMA RelayMoves ==
  ASSUME Inv, StartRelay \/ CloseBoth \/ Return
  PROVE  Inv'
PROOF
  <1>1. c \in Clients /\ b \in Servers /\ px \in Handlers
    BY DEF Inv, Types
  <1>2. px.pos \in {"relay", "wait"} /\ px.pos \in Late /\ b.stage # "off"
    BY Zenon DEF Inv, Control, Early, Late, StartRelay, CloseBoth, Return
  <1>3. CASE StartRelay
    <2>1. UNCHANGED <<proto, c, b, px>> /\ up' = "copy" /\ down' = "copy" /\ up = "off" /\ px.pos = "relay"
      BY <1>3 DEF StartRelay
    <2>2. down = "off"
      BY <2>1, Zenon DEF Inv, Control
    <2>3. px.first = ""
      BY <1>1, <2>1, <2>2, Zenon DEF Inv, Words, Handlers
    <2>. QED
      BY <1>2, <2>1, <2>3, Zenon DEF Inv, Types, Control, AtStartup, Upward, Downward, DownwardFrom, Greetings, Words
  <1>4. CASE CloseBoth \/ Return
    <2>1. UNCHANGED <<proto, c, b, up, down>>
      BY <1>4 DEF CloseBoth, Return
    <2>2. /\ px' \in Handlers /\ px'.pos \in {"wait", "ended"} /\ px'.rc = px.rc /\ px'.rb = px.rb
          /\ px'.ssl = px.ssl /\ px'.first = px.first /\ (px'.pos = "wait" => px.pos = "relay")
      <3>1. CASE CloseBoth
        <4>1. px' = [px EXCEPT !.pos = "wait", !.shut = TRUE] /\ px.pos = "relay"
          BY <3>1 DEF CloseBoth
        <4>. QED
          BY <1>1, <4>1, Zenon DEF Handlers, Late
      <3>2. CASE Return
        BY <1>1, <3>2, EndIs DEF Return
      <3>. QED
        BY <1>4, <3>1, <3>2
    <2>3. px'.shut = TRUE
      BY <1>1, <1>4, EndIs, Zenon DEF CloseBoth, Return, Handlers
    <2>4. Types' /\ AtStartup'
      BY <2>1, <2>2 DEF Inv, Types, AtStartup
    <2>5. Control'
      BY <1>2, <2>1, <2>2, <2>3, Zenon DEF Inv, Control, Early, Late
    <2>6. Upward'
      BY <1>2, <2>1, <2>2 DEF Inv, Upward
    <2>7. Downward'
      BY <1>2, <2>1, <2>2, Zenon DEF Inv, Downward, DownwardFrom, Greetings
    <2>8. Words'
      BY <2>1, <2>2 DEF Inv, Words
    <2>. QED
      BY <2>4, <2>5, <2>6, <2>7, <2>8 DEF Inv
  <1>. QED
    BY <1>3, <1>4

\* A goroutine ends and notes it if nobody has before.
LEMMA CopyEnds ==
  ASSUME Inv, NEW who \in {"up", "down"}, px' = Note(who), UNCHANGED <<proto, c, b>>,
         \/ who = "up" /\ up = "copy" /\ up' = "done" /\ UNCHANGED down
              /\ (px.shut \/ (b.stage = "gone" /\ px.rc < Len(c.said)) \/ ClientEOF)
         \/ who = "down" /\ down = "copy" /\ down' = "done" /\ UNCHANGED up
              /\ (px.shut \/ (c.end = "gone" /\ px.rb < Len(b.said)) \/ BackendEOF)
  PROVE  Inv'
PROOF
  <1>1. px \in Handlers /\ px.pos \in Late
    BY Zenon DEF Inv, Types, Control
  <1>2. /\ px' \in Handlers /\ px'.pos = px.pos /\ px'.rc = px.rc /\ px'.rb = px.rb
        /\ px'.ssl = px.ssl
        /\ px'.first = px.first \/ (px'.first = who /\ ~px.shut)
    <2>1. CASE px' = px
      BY <1>1, <2>1
    <2>2. CASE px' = [px EXCEPT !.first = who] /\ ~px.shut
      BY <1>1, <2>2, Zenon DEF Handlers
    <2>. QED
      BY <2>1, <2>2, Zenon DEF Note
  <1>3. px'.shut = px.shut
    BY <1>1, Zenon DEF Note, Handlers
  <1>4. Types' /\ AtStartup'
    BY <1>2 DEF Inv, Types, AtStartup
  <1>5. Control'
    BY <1>1, <1>2, <1>3, Zenon DEF Inv, Control
  <1>6. Upward'
    BY <1>2 DEF Inv, Upward
  <1>7. Downward'
    BY <1>2, Zenon DEF Inv, Downward, DownwardFrom, Greetings
  <1>8. Words'
    BY <1>2 DEF Inv, Words, ClientEOF, BackendEOF
  <1>. QED
    BY <1>4, <1>5, <1>6, <1>7, <1>8 DEF Inv

\* The two goroutines.
LEMMA Copies ==
  ASSUME Inv, CopyUp \/ CopyDown
  PROVE  Inv'
PROOF
  <1>1. px \in Handlers /\ "relay" \in Passing
    BY DEF Inv, Types, Passing
  <1>2. (up = "copy" \/ down = "copy") /\ ~px.shut => px.pos = "relay"
    BY Zenon DEF Inv, Control, Late
  <1>3. CASE CopyUp
    <2>1. up = "copy" /\ UNCHANGED <<proto, c, down>>
      BY <1>3 DEF CopyUp
    <2>2. CASE (px.shut \/ ClientEOF) /\ up' = "done" /\ px' = Note("up") /\ UNCHANGED b
        BY <2>1, <2>2, CopyEnds
    <2>3. ASSUME ~px.shut, NEW m, NEW ok \in BOOLEAN, FromClient(m), ToBackend(m, ok),
                 IF ok THEN px' = [px EXCEPT !.rc = @ + 1] /\ UNCHANGED up
                       ELSE px' = Note("up") /\ up' = "done"
          PROVE  Inv'
      <3>1. px.pos = "relay"
        BY <1>2, <2>1, <2>3
      <3>2. CASE ok
        <4>1. px' = [px EXCEPT !.pos = "relay", !.rc = px.rc + 1] /\ UNCHANGED up
          BY <1>1, <2>3, <3>1, <3>2, Zenon DEF Handlers
        <4>. QED
          BY <1>1, <2>1, <2>3, <3>1, <4>1, PassesUp, Zenon
      <3>3. CASE ~ok
        <4>1. /\ b.stage = "gone" /\ px.rc < Len(c.said)
              /\ UNCHANGED b /\ px' = Note("up") /\ up' = "done"
          BY <2>3, <3>3 DEF ToBackend, FromClient
        <4>. QED
          BY <2>1, <4>1, CopyEnds
      <3>. QED
        BY <3>2, <3>3
    <2>. QED
      BY <1>3, <2>2, <2>3 DEF CopyUp
  <1>4. CASE CopyDown
    <2>1. down = "copy" /\ UNCHANGED <<proto, b, up>>
      BY <1>4 DEF CopyDown
    <2>2. CASE (px.shut \/ BackendEOF) /\ down' = "done" /\ px' = Note("down") /\ UNCHANGED c
        BY <2>1, <2>2, CopyEnds
    <2>3. ASSUME ~px.shut, NEW m, NEW ok \in BOOLEAN, FromBackend(m), ToClient(m, ok),
                 IF ok THEN px' = [px EXCEPT !.rb = @ + 1] /\ UNCHANGED down
                       ELSE px' = Note("down") /\ down' = "done"
          PROVE  Inv'
      <3>1. px.pos = "relay"
        BY <1>2, <2>1, <2>3
      <3>2. CASE ok
        <4>1. px' = [px EXCEPT !.pos = "relay", !.rb = px.rb + 1] /\ UNCHANGED down
          BY <1>1, <2>3, <3>1, <3>2, Zenon DEF Handlers
        <4>. QED
          BY <1>1, <2>1, <2>3, <3>1, <4>1, PassesDown, Zenon
      <3>3. CASE ~ok
        <4>1. /\ c.end = "gone" /\ px.rb < Len(b.said)
              /\ UNCHANGED c /\ px' = Note("down") /\ down' = "done"
          BY <2>3, <3>3 DEF ToClient, FromBackend
        <4>. QED
          BY <2>1, <4>1, CopyEnds
      <3>. QED
        BY <3>2, <3>3
    <2>. QED
      BY <1>4, <2>2, <2>3 DEF CopyDown
  <1>. QED
    BY <1>3, <1>4

-----------------------------------------------------------------------------
(* The theorems *)

\* The invariant holds before the first message of a session.
LEMMA InitHolds == Init => Inv
PROOF
  <1>. SUFFICES ASSUME Init PROVE Inv
    OBVIOUS
  <1>1. PICK login \in Logins :
          c = [end |-> "open", said |-> <<>>, got |-> <<>>, login |-> login,
               owes |-> IF proto = "mysql" THEN "none" ELSE "startup"]
    BY Zenon DEF Init
  <1>2. /\ c \in Clients /\ c.said = <<>> /\ c.got = <<>>
        /\ c.owes = IF proto = "mysql" THEN "none" ELSE "startup"
    BY <1>1 DEF Clients
  <1>3. b \in Servers /\ b.stage = "off" /\ b.said = <<>> /\ b.got = <<>>
    <2>1. <<>> \in Seq(Message) /\ "off" \in Stages /\ 0 \in Nat
      BY DEF Stages
    <2>2. b = [stage |-> "off", said |-> <<>>, got |-> <<>>, heard |-> 0]
      BY Zenon DEF Init
    <2>3. [stage |-> "off", said |-> <<>>, got |-> <<>>, heard |-> 0] \in Servers
      BY <2>1 DEF Servers
    <2>. QED
      BY <2>2, <2>3
  <1>4. <<>> \in TenantNames
    BY DEF TenantNames
  <1>5. /\ px \in Handlers /\ px.pos = IF proto = "mysql" THEN "greet" ELSE "startup"
        /\ px.ssl = 0 /\ px.rc = 0 /\ px.rb = 0 /\ px.first = ""
    BY <1>4, Zenon DEF Init, Handlers, Early
  <1>6. px.shut = FALSE
    BY Zenon DEF Init
  <1>7. up = "off" /\ down = "off"
    BY Zenon DEF Init
  <1>8. Types
    BY <1>2, <1>3, <1>5, <1>7, Zenon DEF Types
  <1>9. OwnOnly(<<>>) /\ NoSSL(<<>>, 0) /\ Matches(<<>>, {}, 0, <<>>, {"ssl"}, 0)
    BY DEF OwnOnly, NoSSL, Matches
  <1>10. Control
    BY <1>2, <1>3, <1>5, <1>6, <1>7, <1>9, Zenon DEF Control, Early
  <1>11. Len(<<>>) = 0
    OBVIOUS
  <1>12. AtStartup
    BY <1>2, <1>5, <1>11, Zenon DEF AtStartup
  <1>13. Upward
    <2>1. px.ssl <= Len(c.said) /\ px.rc = px.ssl + Len(b.got)
      <3>1. Len(c.said) = 0 /\ Len(b.got) = 0
        BY <1>2, <1>3, <1>11
      <3>2. 0 <= 0 /\ 0 = 0 + 0
        OBVIOUS
      <3>. QED
        BY <1>5, <3>1, <3>2, Zenon
    <2>2. Matches(b.got, {}, 0, c.said, {"ssl"}, px.ssl) /\ NoSSL(c.said, px.ssl)
      BY <1>2, <1>3, <1>5, <1>9, Zenon
    <2>3. px.pos # "startup" => c.owes # "startup"
      BY <1>2, <1>5, Zenon
    <2>. QED
      BY <2>1, <2>2, <2>3 DEF Upward
  <1>14. Downward /\ Words
    BY <1>3, <1>5, Zenon DEF Downward, Words
  <1>. QED
    BY <1>8, <1>10, <1>12, <1>13, <1>14 DEF Inv

\* Every step of the session, its client and its server preserves the invariant.
LEMMA StepKeeps == Inv /\ [Next]_vars => Inv'
PROOF
  <1>. SUFFICES ASSUME Inv, [Next]_vars PROVE Inv'
    OBVIOUS
  <1>1. CASE HandleStep
    <2>1. UNCHANGED <<proto, up, down>>
      BY <1>1 DEF HandleStep
    <2>. QED
      BY <1>1, <2>1, ReadsStartup, ReadsResponse, Admits, DropsGreeting, Authenticates DEF HandleStep
  <1>2. CASE UNCHANGED <<proto, c, b, px, up, down>>
    <2>1. Types' /\ Control' /\ AtStartup' /\ Upward' /\ Words'
      BY <1>2, Zenon DEF Inv, Types, Control, AtStartup, Upward, Words
    <2>2. Downward'
      BY <1>2, Zenon DEF Inv, Downward, DownwardFrom, Greetings
    <2>. QED
      BY <2>1, <2>2 DEF Inv
  <1>3. CASE Shutdown \/ UNCHANGED vars
    BY <1>2, <1>3 DEF Shutdown, vars
  <1>. QED
    BY <1>1, <1>3, RelayMoves, Copies, ClientSpeaks, ClientEnds, ServerActs DEF Next, ProxyStep

\* The inductive invariant holds in every state of a session.
THEOREM Invariant == Spec => []Inv
PROOF
  BY InitHolds, StepKeeps, PTL DEF Spec

\* Both streams of a session-mode session are faithful, for every login, protocol and number
\* of messages: through startup, authentication and relay, no message is lost, repeated or
\* reordered in either direction, TLS requests and the MySQL greeting apart.
THEOREM StreamsKept == Spec => []StreamsFaithful
PROOF
  <1>1. Inv => StreamsFaithful
    <2>. SUFFICES ASSUME Inv PROVE StreamsFaithful
      OBVIOUS
    <2>1. /\ c.said \in Seq(Message) /\ c.got \in Seq(Message) /\ b.said \in Seq(Message)
          /\ b.got \in Seq(Message) /\ px.ssl \in Nat
      BY Zenon DEF Inv, Types, Clients, Servers, Handlers
    <2>2. PassedOn(b.got, {}, c.said, {"ssl"})
      <3>1. 0 \in 0..Len(b.got) /\ px.ssl \in 0..Len(c.said)
        BY <2>1 DEF Inv, Upward
      <3>. QED
        BY <3>1 DEF Inv, Upward, PassedOn
    <2>3. CASE b.stage = "off"
      <3>1. OwnOnly(c.got) /\ 0 \in 0..Len(b.said) /\ Len(c.got) \in 0..Len(c.got)
        <4>1. OwnOnly(c.got)
          BY <2>3, Zenon DEF Inv, Control
        <4>2. Len(b.said) \in Nat /\ Len(c.got) \in Nat
          BY <2>1
        <4>. QED
          BY <4>1, <4>2
      <3>2. Matches(c.got, Own, Len(c.got), b.said, {"greeting"}, 0)
        BY <2>1, <3>1, OwnMatches
      <3>. QED
        BY <2>2, <3>1, <3>2 DEF StreamsFaithful, PassedOn
    <2>4. CASE b.stage # "off"
      <3>1. PICK k \in 0..Len(c.got) : Matches(c.got, Own, k, b.said, {"greeting"}, Greetings)
        BY <2>4 DEF Inv, Downward, DownwardFrom
      <3>2. Greetings \in 0..Len(b.said)
        BY <2>1, <2>4 DEF Inv, Downward, Greetings
      <3>. QED
        BY <2>2, <3>1, <3>2 DEF StreamsFaithful, PassedOn
    <2>. QED
      BY <2>3, <2>4
  <1>. QED
    BY <1>1, Invariant, PTL

\* Why a relay ends: a copy has ended before the connections were closed, or the proxy
\* shuts down.
Caused ==
  /\ up = "done" \/ down = "done" => px.first # "" \/ px.shut
  /\ px.shut /\ up # "off" => px.first # "" \/ shutdown

\* Every step keeps the cause.
LEMMA CauseKept == Inv /\ Caused /\ [Next]_vars => Caused'
PROOF
  <1>. SUFFICES ASSUME Inv, Caused, [Next]_vars PROVE Caused'
    OBVIOUS
  <1>1. px \in Handlers
    BY DEF Inv, Types
  <1>2. CASE HandleStep
    <2>1. UNCHANGED <<up, down>>
      BY <1>2 DEF HandleStep
    <2>2. px.pos \notin Late
      BY <1>2 DEF HandleStep, readStartupMessage, sendSyntheticHandshake, readHandshakeResponse,
                  Admit, ReadGreeting, ForwardStartup, relayAuth, ReadAuthResult, Late
    <2>3. up = "off" /\ down = "off"
      BY <2>2, Zenon DEF Inv, Control
    <2>. QED
      BY <2>1, <2>3 DEF Caused
  <1>3. CASE StartRelay
    <2>1. px.shut <=> px.pos \in {"wait", "ended"}
      BY Zenon DEF Inv, Control
    <2>. QED
      BY <1>3, <2>1 DEF StartRelay, Caused
  <1>4. CASE CloseBoth \/ Return
    <2>1. px'.first = px.first /\ px'.shut = TRUE
      BY <1>1, <1>4, EndIs, Zenon DEF CloseBoth, Return, Handlers
    <2>2. UNCHANGED <<up, down, shutdown>>
      BY <1>4 DEF CloseBoth, Return
    <2>3. px.first # "" \/ shutdown
      <3>1. px.shut <=> px.pos \in {"wait", "ended"}
        BY Zenon DEF Inv, Control
      <3>. QED
        BY <1>4, <3>1 DEF CloseBoth, Return, Caused
    <2>. QED
      BY <2>1, <2>2, <2>3 DEF Caused
  <1>5. ASSUME NEW who, px' = Note(who), UNCHANGED shutdown, who # "",
               \/ up = "copy" /\ up' # "off"
               \/ up # "off" /\ up' = up
        PROVE  Caused'
    <2>1. (px'.first # "" \/ px'.shut) /\ px'.shut = px.shut /\ (px.first # "" => px'.first # "")
      BY <1>1, <1>5, Zenon DEF Note, Handlers
    <2>. QED
      BY <1>5, <2>1, Zenon DEF Caused
  <1>6. CASE CopyUp \/ CopyDown
    <2>1. UNCHANGED shutdown /\ up # "off"
      BY <1>6, Zenon DEF CopyUp, CopyDown, Inv, Control
    <2>2. CASE px' = Note("up") \/ px' = Note("down")
      <3>1. \/ up = "copy" /\ up' # "off"
            \/ up # "off" /\ up' = up
        BY <1>6, <2>1, Zenon DEF CopyUp, CopyDown
      <3>. QED
        BY <1>5, <2>1, <2>2, <3>1
    <2>3. CASE (px' = [px EXCEPT !.rc = @ + 1] \/ px' = [px EXCEPT !.rb = @ + 1]) /\ UNCHANGED <<up, down>>
      <3>1. px'.first = px.first /\ px'.shut = px.shut
        BY <1>1, <2>3, Zenon DEF Handlers
      <3>. QED
        BY <2>1, <2>3, <3>1 DEF Caused
    <2>. QED
      BY <1>6, <2>2, <2>3 DEF CopyUp, CopyDown
  <1>7. CASE \/ ClientAnswers \/ ClientQueries \/ ClientHalfCloses \/ ClientLeaves
             \/ ServerAnswers \/ ServerNotifies \/ ServerLeaves \/ UNCHANGED vars
    <2>1. UNCHANGED <<px, up, down, shutdown>>
      BY <1>7 DEF ClientAnswers, ClientQueries, ClientHalfCloses, ClientLeaves, ServerAnswers,
                  ServerNotifies, ServerLeaves, vars
    <2>. QED
      BY <2>1 DEF Caused
  <1>8. CASE Shutdown
    BY <1>8 DEF Shutdown, Caused
  <1>. QED
    BY <1>2, <1>3, <1>4, <1>6, <1>7, <1>8 DEF Next, ProxyStep

\* A relay that ends by itself has delivered what it owes, for every login, protocol and number
\* of messages: all that the server said to a client that is still there and whose messages
\* were all written; all that the client said to a server that is still there, unless a message
\* of the server met a client that is gone.
THEOREM LastWordsKept == Spec => []LastWordsArrive
PROOF
  <1>1. Init => Caused
    BY Zenon DEF Init, Caused
  <1>2. ASSUME Inv, Caused PROVE LastWordsArrive
    <2>. SUFFICES ASSUME Relayed, ~shutdown
                  PROVE  /\ c.end # "open" \/ b.stage = "gone"
                         /\ c.end = "open" /\ px.rc = Len(c.said) =>
                              Delivered(c.got, Own, b.said, {"greeting"})
                         /\ b.stage # "gone" /\ (c.end = "half" \/ px.rb = Len(b.said)) =>
                              Delivered(b.got, {}, c.said, {"ssl"})
      BY DEF LastWordsArrive
    <2>1. /\ Len(c.said) \in Nat /\ Len(c.got) \in Nat /\ Len(b.said) \in Nat /\ Len(b.got) \in Nat
          /\ px.rc \in Nat /\ px.rb \in Nat /\ px.ssl \in Nat /\ px.first \in {"", "up", "down"}
      <3>1. /\ c.said \in Seq(Message) /\ c.got \in Seq(Message)
            /\ b.said \in Seq(Message) /\ b.got \in Seq(Message)
        BY <1>2, Zenon DEF Inv, Types, Clients, Servers
      <3>2. px.rc \in Nat /\ px.rb \in Nat /\ px.ssl \in Nat /\ px.first \in {"", "up", "down"}
        BY <1>2, Zenon DEF Inv, Types, Handlers
      <3>3. /\ Len(c.said) \in Nat /\ Len(c.got) \in Nat
            /\ Len(b.said) \in Nat /\ Len(b.got) \in Nat
        BY <3>1
      <3>. QED
        BY <3>2, <3>3, Zenon
    <2>2. px.first # ""
      BY <1>2, Zenon DEF Inv, Control, Caused, Relayed
    <2>3. /\ px.first = "down" => \/ c.end = "gone" /\ px.rb < Len(b.said)
                                  \/ b.stage = "gone" /\ px.rb = Len(b.said)
          /\ px.first = "up" => \/ b.stage = "gone" /\ px.rc < Len(c.said)
                                \/ c.end # "open" /\ px.rc = Len(c.said)
      BY <1>2, Zenon DEF Inv, Words
    <2>4. ASSUME NEW n \in Nat, n < n PROVE FALSE
      BY <2>4
    <2>5. ASSUME c.end = "open", px.rc = Len(c.said)
          PROVE  Delivered(c.got, Own, b.said, {"greeting"})
      <3>1. b.stage = "gone" /\ px.rb = Len(b.said)
        BY <2>1, <2>2, <2>3, <2>4, <2>5, Zenon
      <3>2. PICK k \in 0..Len(c.got) : DownwardFrom(k)
        BY <1>2, <3>1 DEF Inv, Downward
      <3>3. Len(c.got) + Greetings = k + px.rb
        BY <2>5, <3>2, Zenon DEF DownwardFrom, Relayed
      <3>4. Matches(c.got, Own, k, b.said, {"greeting"}, Greetings)
        BY <3>2 DEF DownwardFrom
      <3>5. Greetings \in 0..Len(b.said) /\ Len(c.got) - k = Len(b.said) - Greetings
        <4>. DEFINE m == Len(c.got)
                    n == Len(b.said)
                    d == Greetings
        <4>1. m \in Nat /\ n \in Nat
          BY <2>1, Zenon
        <4>2. m + d = k + n
          BY <3>1, <3>3, Zenon
        <4>3. d <= n
          BY <1>2, <3>1, Zenon DEF Inv, Downward
        <4>4. d \in Nat /\ k \in Nat
          BY DEF Greetings
        <4>. HIDE DEF m, n, d
        <4>5. d \in 0..n /\ m - k = n - d
          BY <4>1, <4>2, <4>3, <4>4
        <4>. QED
          BY <4>5 DEF m, n, d
      <3>. QED
        BY <3>4, <3>5 DEF Delivered
    <2>6. ASSUME b.stage # "gone", c.end = "half" \/ px.rb = Len(b.said)
          PROVE  Delivered(b.got, {}, c.said, {"ssl"})
      <3>1. px.rc = Len(c.said)
        BY <2>1, <2>2, <2>3, <2>4, <2>6, Zenon
      <3>2. /\ Matches(b.got, {}, 0, c.said, {"ssl"}, px.ssl) /\ px.ssl <= Len(c.said)
            /\ px.rc = px.ssl + Len(b.got)
        BY <1>2, <2>6, Zenon DEF Inv, Upward
      <3>3. 0 \in 0..Len(b.got) /\ px.ssl \in 0..Len(c.said) /\ Len(b.got) - 0 = Len(c.said) - px.ssl
        <4>. DEFINE m == Len(b.got)
                    n == Len(c.said)
                    d == px.ssl
        <4>1. m \in Nat /\ n \in Nat /\ d \in Nat
          BY <2>1
        <4>2. n = d + m
          BY <3>1, <3>2, Zenon
        <4>. HIDE DEF m, n, d
        <4>3. 0 \in 0..m /\ d \in 0..n /\ m - 0 = n - d
          BY <4>1, <4>2
        <4>. QED
          BY <4>3 DEF m, n, d
      <3>. QED
        BY <3>2, <3>3 DEF Delivered
    <2>. QED
      BY <2>1, <2>2, <2>3, <2>5, <2>6, Zenon
  <1>. QED
    BY <1>1, <1>2, Invariant, InitHolds, StepKeeps, CauseKept, PTL DEF Spec
==============================================================================
