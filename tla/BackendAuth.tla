----------------------------- MODULE BackendAuth -----------------------------
(***************************************************************************)
(* How a transaction-mode pool authenticates a backend connection before   *)
(* it hands it out: dial with authenticatePG and authenticateMySQL of      *)
(* internal/pool/pool.go, scramSHA256Auth of internal/pool/scram.go, and   *)
(* the second authentication of warmUp.                                    *)
(*                                                                         *)
(* External: the server.  An honest one follows its protocol; a faulty one *)
(* may say anything of Sayings at any turn, stop answering, or close.      *)
(* Hashes are symbols: equal exactly if what they are made of is equal.    *)
(***************************************************************************)
EXTENDS Naturals, SequencesExt

CONSTANTS
  Password,   \* the pool's password
  Passwords,  \* the passwords an account may have
  Sayings,    \* what a faulty server may say at once: sequences of messages
  MaxTurns    \* bound on the messages a faulty server answers

ASSUME AuthAssumption ==
  /\ Password \in Passwords
  /\ \A say \in Sayings : say \in Seq(Range(say))
  /\ MaxTurns \in Nat

VARIABLES
  at,  \* the goroutine that dials
  sv   \* the server

authVars == <<at, sv>>

\* A message: its kind and the one thing in it that matters.
Packet(kind, val) == <<kind, val>>

\* A MySQL packet that carries a proof, with its sequence number.
Proof(kind, val, seq) == <<kind, val, seq>>

Kind(m) == m[1]

Val(m) == m[2]

computeMD5Password(pw, salt) == <<"md5", pw, salt>>

mysqlNativePasswordHash(pw, challenge) == <<"native", pw, challenge>>

\* The nonce that scramSHA256Auth draws when it has read message i: a new one each time.
Nonce(i) == <<"c", i>>

\* What scramSHA256Auth makes of the password and of authMessage: the client's nonce and the
\* server's first message, a record of the nonce r, the salt s and the iterations i.
ClientProof(pw, authMessage) == <<"client", pw, authMessage>>

ServerSignature(pw, authMessage) == <<"server", pw, authMessage>>

-----------------------------------------------------------------------------
(* External: the server *)

Greeted == <<Packet("R0", ""), Packet("S", ""), Packet("K", ""), Packet("Z", "I")>>

Turn(say, next) == [say |-> say, next |-> next]

Reject == Turn(<<Packet("E", "")>>, "gone")

Decide(right) == IF right THEN Turn(Greeted, "ready") ELSE Reject

\* The server's first message: its nonce continues the client's.
HonestFirst(nonce) == [r |-> nonce \o <<"s">>, s |-> "salt", i |-> 4096]

\* What an honest PostgreSQL server says to m.  A second startup message is no message to it.
HonestPG(m) ==
  CASE sv.stage = "new" /\ sv.method = "trust" -> Turn(Greeted, "ready")
    [] sv.stage = "new" /\ sv.method = "clear" -> Turn(<<Packet("R3", "")>>, "password")
    [] sv.stage = "new" /\ sv.method = "md5" -> Turn(<<Packet("R5", "salt")>>, "password")
    [] sv.stage = "new" /\ sv.method = "gss" -> Turn(<<Packet("R7", "")>>, "password")
    [] sv.stage = "new" /\ sv.method = "scram" ->
         Turn(<<Packet("R10", {"SCRAM-SHA-256", "SCRAM-SHA-256-PLUS"})>>, "sasl")
    [] sv.stage = "new" /\ sv.method = "plus" -> Turn(<<Packet("R10", {"SCRAM-SHA-256-PLUS"})>>, "sasl")
    [] sv.stage = "password" /\ sv.method = "md5" -> Decide(Val(m) = computeMD5Password(sv.password, "salt"))
    [] sv.stage = "password" /\ sv.method # "md5" -> Decide(Val(m) = sv.password)
    [] sv.stage = "sasl" -> Turn(<<Packet("R11", HonestFirst(Val(m)))>>, "saslFinal")
    [] sv.stage = "saslFinal" ->
         LET auth == <<Val(sv.got[2]), HonestFirst(Val(sv.got[2]))>>
         IN  IF Val(m) = ClientProof(sv.password, auth)
               THEN Turn(<<Packet("R12", ServerSignature(sv.password, auth))>> \o Greeted, "ready")
               ELSE Reject
    [] OTHER -> Reject

\* An honest MySQL server wants the right proof for the challenge it sent last, in sequence.
\* To an empty proof for another plugin it says what it likes.
HonestMySQL(m) ==
  LET right == Val(m) = mysqlNativePasswordHash(sv.password, sv.stage)
      OK == Turn(<<Packet("OK", "")>>, "ready")
      ERR == Turn(<<Packet("ERR", "")>>, "gone")
      Switch(plugin) == Turn(<<Packet("switch", plugin)>>, "switched")
  IN  CASE sv.stage = "new" /\ m[3] = 1 /\ sv.method = "native" -> {IF right THEN OK ELSE ERR}
        [] sv.stage = "new" /\ m[3] = 1 /\ sv.method = "sha2" -> {ERR, Switch("native"), Switch("sha2")}
        [] sv.stage = "switched" /\ m[3] = 3 -> {IF right THEN OK ELSE ERR}
        [] OTHER -> {ERR}

Answer(t) == sv' = [sv EXCEPT !.heard = @ + 1, !.said = @ \o t.say, !.stage = t.next]

ServerTurn ==
  /\ sv.stage \notin {"off", "gone"}
  /\ sv.heard < Len(sv.got)
  /\ LET m == sv.got[sv.heard + 1]
     IN  \/ at.dbType = "postgres" /\ Answer(HonestPG(m))
         \/ at.dbType = "mysql" /\ \E t \in HonestMySQL(m) : Answer(t)
         \/ /\ sv.faulty /\ sv.heard < MaxTurns
            /\ \E say \in Sayings, next \in {"lost", "gone"} : Answer(Turn(say, next))
  /\ UNCHANGED at

ServerCloses ==
  /\ sv.faulty /\ sv.stage \notin {"off", "gone"}
  /\ sv' = [sv EXCEPT !.stage = "gone"]
  /\ UNCHANGED at

-----------------------------------------------------------------------------
(* The connection, as the goroutine uses it *)

Unread == at.rd < Len(sv.said)

Incoming == sv.said[at.rd + 1]

Lost == ~Unread /\ sv.stage = "gone"

\* An error: the connection is closed.
Fail == at' = [at EXCEPT !.pos = "closed"] /\ UNCHANGED sv

\* What was read is consumed and m is sent; a write to a server that is gone fails or is lost.
Send(m, rd, next) ==
  \/ sv.stage = "gone" /\ Fail
  \/ /\ at' = [next EXCEPT !.rd = rd]
     /\ sv' = IF sv.stage = "gone" THEN sv ELSE [sv EXCEPT !.got = Append(@, m)]

Consume(next) == at' = [next EXCEPT !.rd = at.rd + 1] /\ UNCHANGED sv

\* SetAuthenticated, and what the caller does next: warmUp authenticates a PostgreSQL
\* connection again, on the connection that dial has authenticated.
Authenticated ==
  IF at.caller = "warmUp" /\ at.dbType = "postgres" /\ at.round = 1
    THEN [at EXCEPT !.auth = TRUE, !.pos = "startup", !.round = 2]
    ELSE [at EXCEPT !.auth = TRUE, !.pos = "given"]

\* The TCP connection fails or is made; a MySQL server speaks first.
dial ==
  /\ at.pos = "dial"
  /\ \/ sv.faulty /\ Fail
     \/ /\ at.dbType = "postgres"
        /\ at' = [at EXCEPT !.pos = "startup"]
        /\ sv' = [sv EXCEPT !.stage = "new"]
     \/ /\ at.dbType = "mysql"
        /\ at' = [at EXCEPT !.pos = "greeting"]
        /\ \/ sv' = [sv EXCEPT !.stage = "new", !.said = <<Packet("greeting", sv.method)>>]
           \/ /\ sv.faulty
              /\ \E say \in Sayings, next \in {"lost", "gone"} :
                   sv' = [sv EXCEPT !.stage = next, !.said = say]

-----------------------------------------------------------------------------
(* authenticatePG *)

\* The start of the SCRAM exchange: the mechanism must be offered; the client's nonce is sent.
scramSHA256Auth(mechanisms) ==
  \/ /\ "SCRAM-SHA-256" \in mechanisms
     /\ Send(Packet("p", Nonce(at.rd + 1)), at.rd + 1,
             [at EXCEPT !.pos = "saslContinue", !.nonce = Nonce(at.rd + 1)])
  \/ "SCRAM-SHA-256" \notin mechanisms /\ Fail

SendStartup ==
  /\ at.pos = "startup"
  /\ Send(Packet("startup", ""), at.rd, [at EXCEPT !.pos = "read"])

\* Variant: AuthenticationOk is taken for the end of the exchange.
ReadMessageTrustsOk ==
  /\ at.pos = "read"
  /\ \/ Lost /\ Fail
     \/ Unread /\ Kind(Incoming) = "R0" /\ Consume(Authenticated)
     \/ Unread /\ Kind(Incoming) = "R3"
               /\ Send(Packet("p", Password), at.rd + 1, at)
     \/ Unread /\ Kind(Incoming) = "R5"
               /\ Send(Packet("p", computeMD5Password(Password, Val(Incoming))), at.rd + 1, at)
     \/ Unread /\ Kind(Incoming) \notin {"R0", "R3", "R5"} /\ Fail

\* One turn of the loop.  Parameters, key data and unknown messages are passed over; "R7" is
\* any method of authentication that the code does not implement.  A ReadyForQuery has its
\* status byte (without one, the code panics when it reports the status).
ReadMessage ==
  /\ at.pos = "read"
  /\ \/ Lost /\ Fail
     \/ /\ Unread
        /\ LET m == Incoming
           IN  \/ /\ Kind(m) \notin {"R3", "R5", "R7", "R10", "R11", "R12", "Z", "E"}
                  /\ Consume(at)
               \/ Kind(m) = "R3" /\ Send(Packet("p", Password), at.rd + 1, at)
               \/ /\ Kind(m) = "R5"
                  /\ Send(Packet("p", computeMD5Password(Password, Val(m))), at.rd + 1, at)
               \/ Kind(m) = "R10" /\ scramSHA256Auth(Val(m))
               \/ Kind(m) = "Z" /\ Val(m) = "I" /\ Consume(Authenticated)
               \/ Kind(m) = "Z" /\ Val(m) # "I" /\ Fail
               \/ Kind(m) \in {"R7", "R11", "R12", "E"} /\ Fail

-----------------------------------------------------------------------------
(* scramSHA256Auth, once the mechanism is agreed and the nonce sent *)

\* The next message is the authentication message expected.
readAuthMessage(kind) == Unread /\ Kind(Incoming) = kind

\* parseServerFirst: the nonce, the salt and the number of iterations are there.
parseServerFirst(val) == val.r # <<>> /\ val.s # "" /\ val.i # 0

\* The nonce must continue the client's.
ServerFirst ==
  /\ readAuthMessage("R11")
  /\ parseServerFirst(Val(Incoming)) /\ IsPrefix(at.nonce, Val(Incoming).r)

\* Variant: the final message repeats the client's nonce, not the server's.
SaslContinueOwnNonce ==
  /\ at.pos = "saslContinue"
  /\ \/ (Lost \/ Unread) /\ ~ServerFirst /\ Fail
     \/ /\ ServerFirst
        /\ LET first == [Val(Incoming) EXCEPT !.r = at.nonce]
           IN  Send(Packet("p", ClientProof(Password, <<at.nonce, first>>)), at.rd + 1,
                    [at EXCEPT !.pos = "saslFinal", !.first = first])

\* The server's first message is checked and the proof sent.
SaslContinue ==
  /\ at.pos = "saslContinue"
  /\ \/ (Lost \/ Unread) /\ ~ServerFirst /\ Fail
     \/ /\ ServerFirst
        /\ Send(Packet("p", ClientProof(Password, <<at.nonce, Val(Incoming)>>)), at.rd + 1,
                [at EXCEPT !.pos = "saslFinal", !.first = Val(Incoming)])

\* Variant: the signature of the server is not compared.
SaslFinalUnverified ==
  /\ at.pos = "saslFinal"
  /\ LET signed == readAuthMessage("R12")
     IN  \/ (Lost \/ Unread) /\ ~signed /\ Fail
         \/ signed /\ Consume([at EXCEPT !.pos = "read"])

\* The server's final message must be the signature that the password gives.
SaslFinal ==
  /\ at.pos = "saslFinal"
  /\ LET signed == /\ readAuthMessage("R12")
                   /\ Val(Incoming) = ServerSignature(Password, <<at.nonce, at.first>>)
     IN  \/ (Lost \/ Unread) /\ ~signed /\ Fail
         \/ signed /\ Consume([at EXCEPT !.pos = "read"])

-----------------------------------------------------------------------------
(* authenticateMySQL *)

\* mysqlNativePasswordHash for the challenge of a stage, or nothing for another plugin.
NativeProof(plugin, challenge) ==
  IF plugin = "native" THEN mysqlNativePasswordHash(Password, challenge) ELSE <<"none", "", "">>

\* The greeting is read and the handshake response sent.
ReadServerHandshake ==
  /\ at.pos = "greeting"
  /\ \/ (Lost \/ (Unread /\ Kind(Incoming) # "greeting")) /\ Fail
     \/ /\ Unread /\ Kind(Incoming) = "greeting"
        /\ Send(Proof("response", NativeProof(Val(Incoming), "new"), 1), at.rd + 1,
                [at EXCEPT !.pos = "result"])

\* The verdict: OK, a request to switch to a plugin, an error, or something else.
ReadResult ==
  /\ at.pos = "result"
  /\ \/ (Lost \/ (Unread /\ Kind(Incoming) \notin {"OK", "switch"})) /\ Fail
     \/ Unread /\ Kind(Incoming) = "OK" /\ Consume(Authenticated)
     \/ Unread /\ Kind(Incoming) = "switch" /\ Val(Incoming) # "native" /\ Fail
     \/ /\ Unread /\ Kind(Incoming) = "switch" /\ Val(Incoming) = "native"
        /\ Send(Proof("switch", NativeProof("native", "switched"), 3), at.rd + 1,
                [at EXCEPT !.pos = "switchResult"])

ReadSwitchResult ==
  /\ at.pos = "switchResult"
  /\ \/ (Lost \/ (Unread /\ Kind(Incoming) # "OK")) /\ Fail
     \/ Unread /\ Kind(Incoming) = "OK" /\ Consume(Authenticated)

-----------------------------------------------------------------------------

AuthInit ==
  /\ \E dbType \in {"postgres", "mysql"}, caller \in {"Acquire", "warmUp"} :
       at = [dbType |-> dbType, caller |-> caller, pos |-> "dial", round |-> 1, rd |-> 0,
             nonce |-> <<>>, first |-> <<>>, auth |-> FALSE]
  /\ \E method \in IF at.dbType = "postgres" THEN {"trust", "clear", "md5", "gss", "scram", "plus"}
                                             ELSE {"native", "sha2"},
        password \in Passwords, faulty \in BOOLEAN :
       sv = [method |-> method, password |-> password, faulty |-> faulty, stage |-> "off",
             said |-> <<>>, got |-> <<>>, heard |-> 0]

AuthStep ==
  \/ dial \/ SendStartup \/ ReadMessage \/ SaslContinue \/ SaslFinal
  \/ ReadServerHandshake \/ ReadResult \/ ReadSwitchResult

AuthNext == AuthStep \/ ServerTurn \/ ServerCloses

\* The goroutine runs.  An honest server answers; a faulty one need not, and no deadline is set.
AuthFairness == WF_authVars(AuthStep) /\ WF_authVars(~sv.faulty /\ ServerTurn)

AuthSpec == AuthInit /\ [][AuthNext]_authVars /\ AuthFairness

-----------------------------------------------------------------------------
(* Properties *)

\* A connection that is handed out is one whose server has finished its startup, and all it
\* said has been read: the first query of a session meets neither a server that still
\* authenticates nor an answer that belongs to the startup.
GivenIsReady ==
  (at.pos = "given" /\ ~sv.faulty) =>
     sv.stage = "ready" /\ at.rd = Len(sv.said) /\ sv.heard = Len(sv.got)

\* Message i offers SCRAM, and the two that follow it complete the exchange: a nonce that
\* continues the one drawn for it, and the signature of the password over this exchange.
Proved(i) ==
  /\ i + 2 <= at.rd
  /\ Kind(sv.said[i + 1]) = "R11" /\ IsPrefix(Nonce(i), Val(sv.said[i + 1]).r)
  /\ Kind(sv.said[i + 2]) = "R12"
  /\ Val(sv.said[i + 2]) = ServerSignature(Password, <<Nonce(i), Val(sv.said[i + 1])>>)

\* A connection is handed out only if in every SCRAM exchange that the server began on it, the
\* server has proved that it knows the password, and has proved it for that very exchange.
GivenIsProved ==
  at.pos = "given" => \A i \in 1 .. at.rd : Kind(sv.said[i]) = "R10" => Proved(i)

\* The pool's password is right and its method is one that the code implements.
Welcome ==
  /\ ~sv.faulty /\ sv.password = Password
  /\ sv.method \in {"trust", "clear", "md5", "scram", "native"}

\* Acquire gets a connection from an honest server that knows the password, by whatever method
\* of those implemented; from an honest one otherwise, and from one that closes, it gets an
\* error in the end.
AuthEnds ==
  /\ (Welcome /\ at.caller = "Acquire") ~> (at.pos = "given")
  /\ (~sv.faulty \/ sv.stage = "gone") ~> (at.pos \in {"given", "closed"})

\* "warmUp pre-creates minConns idle connections so the pool is ready for traffic": with an
\* honest server and the right password, the warm-up's connection becomes an idle one.
WarmUpReady == (Welcome /\ at.caller = "warmUp") ~> (at.pos = "given")

=============================================================================
