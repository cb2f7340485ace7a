----------------------------- MODULE MCHandshake -----------------------------
(***************************************************************************)
(* Instances of SessionRelay and BackendAuth for TLC: how a session-mode   *)
(* client and how a transaction-mode pool come to an authenticated server. *)
(* The two share no state, so a behaviour takes steps of one of them while *)
(* the other is at rest in its initial state.                              *)
(***************************************************************************)
EXTENDS SessionRelay, BackendAuth

VARIABLE which  \* the one that takes steps

Word(key, val) == [key |-> key, val |-> val]

Login(options, tenant_id, user, database) ==
  [options |-> options, tenant_id |-> tenant_id, user |-> user, database |-> database]

MCTenants == {<<"t">>, <<"u">>}

\* A tenant named by everything at once, and differently; by the database alone; by nothing.
MCLogins ==
  {Login(<<Word("x", <<"1">>), Word("-c", <<>>), Word("tenant_id", <<"u">>)>>, <<"t">>,
         <<"t", "_", "_", "x">>, <<"u">>),
   Login(<<>>, <<>>, <<"x">>, <<"u">>),
   Login(<<>>, <<>>, <<"_", "_", "t">>, <<"d">>)}

Offer == Packet("R10", {"SCRAM-SHA-256"})

Signed(i) == Packet("R12", ServerSignature(Password, <<Nonce(i), HonestFirst(Nonce(i))>>))

\* What a faulty server may say: nothing; an error; that it is ready; a transaction status or
\* a method the code does not take; a new SCRAM exchange, and for the one that begins with
\* message 8, a second one on its connection, a right and a wrong nonce, no salt, no iterations,
\* a signature that is right, made up, or that of the first exchange; and messages of the
\* other protocol.
MCSayings ==
  {<<>>, <<Packet("E", "")>>, Greeted, <<Packet("Z", "T")>>, <<Packet("R7", "")>>, <<Offer>>,
   <<Packet("R11", HonestFirst(Nonce(8)))>>, <<Packet("R11", HonestFirst(<<"d", 8>>))>>,
   <<Packet("R11", [HonestFirst(Nonce(8)) EXCEPT !.s = ""])>>,
   <<Packet("R11", [HonestFirst(Nonce(8)) EXCEPT !.i = 0])>>,
   <<Signed(8)>> \o Greeted, <<Signed(1)>> \o Greeted,
   <<Packet("R12", ServerSignature("guess", <<>>))>> \o Greeted,
   <<Packet("MORE", "")>>, <<Packet("ERR", "")>>, <<Packet("switch", "sha2")>>}

HandshakeInit ==
  /\ Init /\ AuthInit
  /\ \/ /\ which = "session"
        /\ at.dbType = "mysql" /\ at.caller = "Acquire"
        /\ sv.method = "native" /\ sv.password = Password /\ sv.faulty
     \/ /\ which = "auth"
        /\ proto = "mysql" /\ c.login.database = <<"d">>

allVars == <<vars, authVars, which>>

OfSession(A) == which = "session" /\ A /\ UNCHANGED <<authVars, which>>

OfAuth(A) == which = "auth" /\ A /\ UNCHANGED <<vars, which>>

HandshakeNext ==
  \/ OfSession(Next)
  \/ OfAuth(AuthNext)

\* Fairness of SessionRelay and AuthFairness of BackendAuth.  As only one of the two takes
\* steps, their conditions can be paired; it spares TLC a case split for each.
HandshakeFair ==
  /\ HandshakeInit /\ [][HandshakeNext]_allVars
  /\ WF_allVars(OfSession(ProxyStep) \/ OfAuth(AuthStep))
  /\ WF_allVars(OfSession(ServerAnswers) \/ OfAuth(~sv.faulty /\ ServerTurn))
  /\ WF_allVars(OfSession(CopyUp))
  /\ WF_allVars(OfSession(CopyDown))
=============================================================================
