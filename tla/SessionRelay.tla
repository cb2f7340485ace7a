---------------------------- MODULE SessionRelay ----------------------------
(***************************************************************************)
(* A session in session mode, from the first message of its client to the  *)
(* end of its relay: Handle of internal/proxy/postgres.go with             *)
(* readStartupMessage and relayAuth, Handle of internal/proxy/mysql.go     *)
(* with its synthetic greeting, and relay of internal/proxy/handler.go     *)
(* with its two copying goroutines.  What lies between the startup and the *)
(* backend connection is in TenantLifecycle and TenantPool; here it lets   *)
(* the session pass or not.                                                *)
(*                                                                         *)
(* External: the client and the server.  A message is its kind and, in the *)
(* data phase, its number.  A stream is what its sender has said so far    *)
(* and how much of it the proxy has read; what the proxy writes to an open *)
(* peer arrives.                                                           *)
(***************************************************************************)
EXTENDS Integers, FiniteSets, SequencesExt

CONSTANTS
  Protocols,  \* of the listeners: "postgres", "mysql"
  Logins,     \* what clients put into their startup message
  Tenants,    \* the tenants that the router resolves
  MaxQueries, \* bound: queries a client sends
  MaxNotices  \* bound: messages a server sends unasked

maxSSLAttempts == 3

VARIABLES
  proto,     \* the protocol of the session
  c,         \* the client
  b,         \* the server at the other end of the backend connection
  px,        \* Handle
  up, down,  \* the goroutines that copy to the backend and to the client
  shutdown   \* the context of the proxy is cancelled

vars == <<proto, c, b, px, up, down, shutdown>>

Msg(kind, n) == [kind |-> kind, n |-> n]

Plain(kinds) == [i \in DOMAIN kinds |-> Msg(kinds[i], 0)]

Kinds(msgs) == {msgs[i].kind : i \in DOMAIN msgs}

Count(msgs, kind) == Cardinality({i \in DOMAIN msgs : msgs[i].kind = kind})

-----------------------------------------------------------------------------
(* The tenant that a login names.  A name is a sequence of letters.        *)

\* What stands before the first ".." or, failing that, the first "__".
ExtractTenantFromUsername(user) ==
  LET At(sep) == {i \in 1..(Len(user) - 1) : user[i] = sep /\ user[i + 1] = sep}
      Before(sep) == IF At(sep) = {} THEN <<>> ELSE SubSeq(user, 1, Min(At(sep)) - 1)
  IN  IF Before(".") # <<>> THEN Before(".") ELSE Before("_")

\* The options are words: "-c", or a key with its value.  A "-c" looks ahead at the next word.
parseTenantFromOptions(words) ==
  LET Names(i) == i \in DOMAIN words /\ words[i].key = "tenant_id"
      Hits == {i \in DOMAIN words : Names(i) \/ (words[i].key = "-c" /\ Names(i + 1))}
      first == Min(Hits)
  IN  IF Hits = {} THEN <<>> ELSE words[IF Names(first) THEN first ELSE first + 1].val

\* readStartupMessage: the options, then the parameter, then the user name.
TenantOfStartup(login) ==
  LET options == parseTenantFromOptions(login.options)
  IN  IF options # <<>> THEN options
      ELSE IF login.tenant_id # <<>> THEN login.tenant_id
      ELSE ExtractTenantFromUsername(login.user)

\* readHandshakeResponse: the user name, then a database with the name of a tenant.
TenantOfResponse(login) ==
  LET user == ExtractTenantFromUsername(login.user)
  IN  IF user # <<>> THEN user
      ELSE IF login.database \in Tenants THEN login.database ELSE <<>>

-----------------------------------------------------------------------------
(* External: the client *)

\* What a message makes a client owe in return.
Owed(kind) ==
  CASE kind \in {"S", "N"} -> "startup"
    [] kind = "synthetic" -> "response"
    [] kind \in {"R3", "R7", "R10", "R11", "switch"} -> "p"
    [] OTHER -> "none"

Hear(m) == [c EXCEPT !.got = Append(@, m), !.owes = Owed(m.kind)]

ClientOpen == c.end = "open" /\ ~px.shut

ClientAnswers ==
  /\ ClientOpen
  /\ c.owes # "none"
  /\ \E kind \in {c.owes} \cup (IF c.owes = "p" THEN {} ELSE {"bad"})
                          \cup (IF c.owes = "startup" THEN {"ssl"} ELSE {}) :
       c' = [c EXCEPT !.said = Append(@, Msg(kind, 0)), !.owes = "none"]
  /\ UNCHANGED <<proto, b, px, up, down, shutdown>>

\* Once it is let in, a client sends without waiting for answers.
ClientQueries ==
  /\ ClientOpen
  /\ Kinds(c.got) \cap {"Z", "ok"} # {}
  /\ Count(c.said, "q") < MaxQueries
  /\ c' = [c EXCEPT !.said = Append(@, Msg("q", Count(c.said, "q") + 1))]
  /\ UNCHANGED <<proto, b, px, up, down, shutdown>>

ClientHalfCloses ==
  /\ ClientOpen
  /\ Kinds(c.got) \cap {"Z", "ok"} # {}
  /\ c' = [c EXCEPT !.end = "half"]
  /\ UNCHANGED <<proto, b, px, up, down, shutdown>>

ClientLeaves ==
  /\ c.end # "gone"
  /\ c' = [c EXCEPT !.end = "gone"]
  /\ UNCHANGED <<proto, b, px, up, down, shutdown>>

-----------------------------------------------------------------------------
(* External: the server *)

\* What a server may say to the next message of an authentication, and where that leads.
Turns(stage) ==
  LET Turn(kinds, next) == [say |-> Plain(kinds), next |-> next]
      Reject == IF proto = "mysql" THEN Turn(<<"err">>, "gone") ELSE Turn(<<"E">>, "gone")
      Accept == IF proto = "mysql" THEN Turn(<<"ok">>, "up") ELSE Turn(<<"R0", "Z">>, "up")
  IN  CASE stage = "sasl" -> {Reject, Turn(<<"R11">>, "saslFinal")}
        [] stage = "saslFinal" -> {Reject, Turn(<<"R12", "R0", "Z">>, "up")}
        [] stage = "new" /\ proto = "postgres" ->
             {Reject, Accept, Turn(<<"R3">>, "proof"), Turn(<<"R10">>, "sasl"), Turn(<<"R7">>, "gss")}
        [] stage = "new" /\ proto = "mysql" -> {Reject, Accept, Turn(<<"switch">>, "proof")}
        [] OTHER -> {Reject, Accept}

\* It takes the messages it got in order; each query of the data phase has one answer.
ServerAnswers ==
  /\ b.stage \notin {"off", "gone"}
  /\ b.heard < Len(b.got)
  /\ LET m == b.got[b.heard + 1]
     IN  \/ /\ b.stage = "up"
            /\ b' = [b EXCEPT !.heard = @ + 1, !.said = Append(@, Msg("a", m.n))]
         \/ /\ b.stage # "up"
            /\ \E t \in Turns(b.stage) :
                 b' = [b EXCEPT !.heard = @ + 1, !.said = @ \o t.say, !.stage = t.next]
  /\ UNCHANGED <<proto, c, px, up, down, shutdown>>

\* It may speak unasked (a notice, a notification), and it may close at any time.
ServerNotifies ==
  /\ b.stage = "up" /\ ~px.shut
  /\ Count(b.said, "note") < MaxNotices
  /\ b' = [b EXCEPT !.said = Append(@, Msg("note", Count(b.said, "note") + 1))]
  /\ UNCHANGED <<proto, c, px, up, down, shutdown>>

ServerLeaves ==
  /\ b.stage \notin {"off", "gone"}
  /\ b' = [b EXCEPT !.stage = "gone"]
  /\ UNCHANGED <<proto, c, px, up, down, shutdown>>

-----------------------------------------------------------------------------
(* Handle: reading from and writing to the two connections *)

\* The handler returns; its deferred calls close both connections.
End == [px EXCEPT !.pos = "ended", !.shut = TRUE]

FromClient(m) == px.rc < Len(c.said) /\ m = c.said[px.rc + 1]

ClientEOF == px.rc = Len(c.said) /\ c.end # "open"

FromBackend(m) == px.rb < Len(b.said) /\ m = b.said[px.rb + 1]

BackendEOF == px.rb = Len(b.said) /\ b.stage = "gone"

\* A write to a peer that is gone fails or is lost.
ToClient(m, ok) ==
  \/ c.end # "gone" /\ ok /\ c' = Hear(m)
  \/ c.end = "gone" /\ UNCHANGED c

ToBackend(m, ok) ==
  \/ b.stage # "gone" /\ ok /\ b' = [b EXCEPT !.got = Append(@, m)]
  \/ b.stage = "gone" /\ UNCHANGED b

\* One message of the client is forwarded; then the handler is at next.
ForwardUp(next) ==
  /\ UNCHANGED c
  /\ \/ ClientEOF /\ px' = End /\ UNCHANGED b
     \/ \E m \in Range(c.said), ok \in BOOLEAN :
          /\ FromClient(m) /\ ToBackend(m, ok)
          /\ px' = IF ok THEN [px EXCEPT !.pos = next, !.rc = @ + 1] ELSE End

\* One message of the server is forwarded; where the handler goes depends on its kind.
ForwardDown(after) ==
  /\ UNCHANGED b
  /\ \/ BackendEOF /\ px' = End /\ UNCHANGED c
     \/ \E m \in Range(b.said), ok \in BOOLEAN :
          /\ FromBackend(m) /\ ToClient(m, ok)
          /\ px' = IF ok /\ after[m.kind] # "ended"
                     THEN [px EXCEPT !.pos = after[m.kind], !.rb = @ + 1] ELSE End

\* The handler refuses the session: it tells the client and returns.
Refuse == px' = End /\ UNCHANGED b /\ \E ok \in BOOLEAN : ToClient(Msg("refused", 0), ok)

-----------------------------------------------------------------------------
(* Handle: the startup *)

\* One turn of the loop of readStartupMessage.
readStartupMessage ==
  /\ px.pos = "startup"
  /\ \/ ClientEOF /\ px' = End /\ UNCHANGED <<c, b>>
     \/ \E m \in Range(c.said) :
          /\ FromClient(m)
          /\ \/ m.kind = "bad" /\ px' = End /\ UNCHANGED <<c, b>>
             \/ /\ m.kind = "ssl"
                /\ UNCHANGED b
                /\ \E reply \in {"S", "N"}, ok \in BOOLEAN : ToClient(Msg(reply, 0), ok)
                /\ \/ px.ssl < maxSSLAttempts /\ px' = [px EXCEPT !.ssl = @ + 1, !.rc = @ + 1]
                   \/ px' = End   \* too many attempts, or the TLS handshake fails
             \/ /\ m.kind = "startup"
                /\ \/ TenantOfStartup(c.login) = <<>> /\ Refuse
                   \/ /\ TenantOfStartup(c.login) # <<>>
                      /\ px' = [px EXCEPT !.pos = "admit", !.tenant = TenantOfStartup(c.login)]
                      /\ UNCHANGED <<c, b>>

sendSyntheticHandshake ==
  /\ px.pos = "greet"
  /\ UNCHANGED b
  /\ \E ok \in BOOLEAN : /\ ToClient(Msg("synthetic", 0), ok)
                         /\ px' = IF ok THEN [px EXCEPT !.pos = "response"] ELSE End

readHandshakeResponse ==
  /\ px.pos = "response"
  /\ \/ ClientEOF /\ px' = End /\ UNCHANGED <<c, b>>
     \/ \E m \in Range(c.said) :
          /\ FromClient(m)
          /\ \/ m.kind = "bad" /\ px' = End /\ UNCHANGED <<c, b>>
             \/ m.kind = "response" /\ TenantOfResponse(c.login) = <<>> /\ Refuse
             \/ /\ m.kind = "response" /\ TenantOfResponse(c.login) # <<>>
                /\ px' = [px EXCEPT !.pos = "admit", !.tenant = TenantOfResponse(c.login)]
                /\ UNCHANGED <<c, b>>

\* The tenant is unknown, paused or unhealthy, or its pool has no connection.  Or the pool
\* gives one: dialled now, or dialled by the warm-up and pinged by Acquire, which reads and
\* drops a byte if there is one.  A MySQL server has sent its greeting by then.
Admit ==
  /\ px.pos = "admit"
  /\ \/ Refuse
     \/ /\ px.tenant \in Tenants
        /\ b' = [b EXCEPT !.stage = "new",
                          !.said = IF proto = "mysql" THEN Plain(<<"greeting">>) ELSE <<>>]
        /\ \E pinged \in BOOLEAN :
             px' = [px EXCEPT !.pos = IF proto = "mysql" THEN "greeting" ELSE "forward",
                              !.torn = pinged /\ proto = "mysql"]
        /\ UNCHANGED c

\* The greeting of the server is read and dropped.  Without its first byte its header reads
\* as that of an empty packet.
ReadGreeting ==
  /\ px.pos = "greeting"
  /\ UNCHANGED <<c, b>>
  /\ \/ BackendEOF /\ px' = End
     \/ \E m \in Range(b.said) : FromBackend(m) /\ px' = [px EXCEPT !.pos = "forward", !.rb = @ + 1]

\* The startup message, or the handshake response, goes to the server as it came.
ForwardStartup ==
  /\ px.pos = "forward"
  /\ ForwardUp(IF proto = "mysql" THEN "result" ELSE "auth")

-----------------------------------------------------------------------------
(* Handle: the authentication *)

\* Where relayAuth goes after a message of the server.  Of the authentication requests only
\* cleartext, MD5 (both R3 here) and SASL make it read from the client.
AfterAuthMessage(kind) ==
  CASE kind = "E" -> "ended"
    [] kind = "Z" -> "relay"
    [] kind = "R3" -> "proof"
    [] kind = "R10" -> "sasl"
    [] OTHER -> "auth"

\* Variant: AuthenticationOk is taken note of before it is forwarded, and is not forwarded.
RelayAuthKeepsOk ==
  \/ /\ px.pos = "auth"
     /\ IF FromBackend(Msg("R0", 0)) THEN px' = [px EXCEPT !.rb = @ + 1] /\ UNCHANGED <<c, b>>
                                     ELSE ForwardDown([kind \in Kinds(b.said) |-> AfterAuthMessage(kind)])
  \/ px.pos = "proof" /\ ForwardUp("auth")
  \/ px.pos = "sasl" /\ ForwardUp("saslContinue")
  \/ px.pos = "saslContinue" /\ ForwardDown([kind \in Kinds(b.said) |-> "proof"])

relayAuth ==
  \/ px.pos = "auth" /\ ForwardDown([kind \in Kinds(b.said) |-> AfterAuthMessage(kind)])
  \/ px.pos = "proof" /\ ForwardUp("auth")
  \/ px.pos = "sasl" /\ ForwardUp("saslContinue")
  \/ px.pos = "saslContinue" /\ ForwardDown([kind \in Kinds(b.said) |-> "proof"])

\* The server's verdict.  After a torn greeting its remains are read as the header of a packet
\* of megabytes, which does not end.
ReadAuthResult ==
  /\ px.pos = "result"
  /\ IF px.torn THEN b.stage = "gone" /\ px' = End /\ UNCHANGED <<c, b>>
                ELSE ForwardDown([kind \in Kinds(b.said) |->
                                     IF kind = "err" THEN "ended" ELSE "relay"])

-----------------------------------------------------------------------------
(* relay *)

StartRelay ==
  /\ px.pos = "relay" /\ up = "off"
  /\ up' = "copy" /\ down' = "copy"
  /\ UNCHANGED <<proto, c, b, px, shutdown>>

\* Who ended the relay (history, for the proofs).
Note(who) == IF px.first = "" /\ ~px.shut THEN [px EXCEPT !.first = who] ELSE px

\* Client to backend.  A copy that ends also calls CloseWrite on the side it wrote to; this
\* shows only in what that side does before CloseBoth, which is free here.
CopyUp ==
  /\ up = "copy"
  /\ \/ (px.shut \/ ClientEOF) /\ up' = "done" /\ px' = Note("up") /\ UNCHANGED b
     \/ /\ ~px.shut
        /\ \E m \in Range(c.said), ok \in BOOLEAN :
             /\ FromClient(m) /\ ToBackend(m, ok)
             /\ IF ok THEN px' = [px EXCEPT !.rc = @ + 1] /\ UNCHANGED up
                      ELSE px' = Note("up") /\ up' = "done"
  /\ UNCHANGED <<proto, c, down, shutdown>>

\* Variant: a copy ends as soon as its source has closed.
CopyDownCutsShort ==
  /\ down = "copy"
  /\ \/ (px.shut \/ b.stage = "gone") /\ down' = "done" /\ px' = Note("down") /\ UNCHANGED c
     \/ /\ ~px.shut
        /\ \E m \in Range(b.said), ok \in BOOLEAN :
             /\ FromBackend(m) /\ ToClient(m, ok)
             /\ IF ok THEN px' = [px EXCEPT !.rb = @ + 1] /\ UNCHANGED down
                      ELSE px' = Note("down") /\ down' = "done"
  /\ UNCHANGED <<proto, b, up, shutdown>>

\* Backend to client.
CopyDown ==
  /\ down = "copy"
  /\ \/ (px.shut \/ BackendEOF) /\ down' = "done" /\ px' = Note("down") /\ UNCHANGED c
     \/ /\ ~px.shut
        /\ \E m \in Range(b.said), ok \in BOOLEAN :
             /\ FromBackend(m) /\ ToClient(m, ok)
             /\ IF ok THEN px' = [px EXCEPT !.rb = @ + 1] /\ UNCHANGED down
                      ELSE px' = Note("down") /\ down' = "done"
  /\ UNCHANGED <<proto, b, up, shutdown>>

\* Variant: relay closes the backend connection only.
CloseBackendOnly ==
  /\ px.pos = "relay" /\ up # "off"
  /\ shutdown \/ up = "done" \/ down = "done"
  /\ px' = [px EXCEPT !.pos = "wait"]
  /\ b' = [b EXCEPT !.stage = "gone"]
  /\ UNCHANGED <<proto, c, up, down, shutdown>>

\* The context is cancelled, or one of the copies has ended: both connections are closed.
CloseBoth ==
  /\ px.pos = "relay" /\ up # "off"
  /\ shutdown \/ up = "done" \/ down = "done"
  /\ px' = [px EXCEPT !.pos = "wait", !.shut = TRUE]
  /\ UNCHANGED <<proto, c, b, up, down, shutdown>>

\* wg.Wait, and the return of Handle.
Return ==
  /\ px.pos = "wait" /\ up = "done" /\ down = "done"
  /\ px' = End
  /\ UNCHANGED <<proto, c, b, up, down, shutdown>>

Shutdown ==
  /\ ~shutdown
  /\ shutdown' = TRUE
  /\ UNCHANGED <<proto, c, b, px, up, down>>

-----------------------------------------------------------------------------

Init ==
  /\ proto \in Protocols
  /\ \E login \in Logins :
       c = [end |-> "open", said |-> <<>>, got |-> <<>>, login |-> login,
            owes |-> IF proto = "mysql" THEN "none" ELSE "startup"]
  /\ b = [stage |-> "off", said |-> <<>>, got |-> <<>>, heard |-> 0]
  /\ px = [pos |-> IF proto = "mysql" THEN "greet" ELSE "startup", ssl |-> 0, rc |-> 0, rb |-> 0,
           tenant |-> <<>>, torn |-> FALSE, first |-> "", shut |-> FALSE]
  /\ up = "off" /\ down = "off"
  /\ shutdown = FALSE

HandleStep ==
  /\ \/ readStartupMessage \/ sendSyntheticHandshake \/ readHandshakeResponse
     \/ Admit \/ ReadGreeting \/ ForwardStartup \/ relayAuth \/ ReadAuthResult
  /\ UNCHANGED <<proto, up, down, shutdown>>

ProxyStep == HandleStep \/ StartRelay \/ CloseBoth \/ Return

Next ==
  \/ ProxyStep \/ CopyUp \/ CopyDown \/ Shutdown
  \/ ClientAnswers \/ ClientQueries \/ ClientHalfCloses \/ ClientLeaves
  \/ ServerAnswers \/ ServerNotifies \/ ServerLeaves

\* The Go scheduler runs every goroutine that can take a step; a server answers what it got.
\* Nothing makes a client speak, and no deadline is set on either connection.
Fairness ==
  /\ WF_vars(ProxyStep) /\ WF_vars(CopyUp) /\ WF_vars(CopyDown) /\ WF_vars(ServerAnswers)

Spec == Init /\ [][Next]_vars /\ Fairness

-----------------------------------------------------------------------------
(* Properties *)

\* After k messages of the proxy's own, got goes on with what said has after d messages that are
\* not for the reader; neither kind occurs among the messages passed on.
Matches(got, own, k, said, dropped, d) ==
  /\ \A i \in 1..k : got[i].kind \in own
  /\ \A i \in 1..d : said[i].kind \in dropped
  /\ Len(got) - k <= Len(said) - d
  /\ \A i \in 1..(Len(got) - k) :
       got[k + i] = said[d + i] /\ got[k + i].kind \notin own \cup dropped

PassedOn(got, own, said, dropped) ==
  \E k \in 0..Len(got), d \in 0..Len(said) : Matches(got, own, k, said, dropped, d)

\* What the proxy itself says to a client.
Own == {"S", "N", "synthetic", "refused"}

\* What the server got is what the client said, startup included and TLS negotiation apart,
\* up to some message; what the client got from the server is what that said, its MySQL
\* greeting apart, up to some message.  The two goroutines, the authentication exchange before
\* them and the changes between them neither lose, repeat nor reorder a message.
StreamsFaithful ==
  /\ PassedOn(b.got, {}, c.said, {"ssl"})
  /\ PassedOn(c.got, Own, b.said, {"greeting"})

\* All of said has arrived, and nothing else.
Delivered(got, own, said, dropped) ==
  \E k \in 0..Len(got), d \in 0..Len(said) :
    Matches(got, own, k, said, dropped, d) /\ Len(got) - k = Len(said) - d

Relayed == px.pos = "ended" /\ up # "off"

\* What a relay that was not shut down has delivered at its end, though it closes both
\* connections as soon as one of its copies ends.  It ends only because a side has closed.
\* A client that is still there has got all that the server said, its last error included,
\* if all its own messages were written (a write that fails ends the relay before the
\* server's last words are read).  A server that is still there has got all that the client
\* said, if the client only closed its sending side or no write to the client was due.
LastWordsArrive ==
  Relayed /\ ~shutdown =>
    /\ c.end # "open" \/ b.stage = "gone"
    /\ c.end = "open" /\ px.rc = Len(c.said) => Delivered(c.got, Own, b.said, {"greeting"})
    /\ b.stage # "gone" /\ (c.end = "half" \/ px.rb = Len(b.said)) =>
         Delivered(b.got, {}, c.said, {"ssl"})

\* A session whose client is gone ends, with both goroutines ended and both connections
\* closed; so does a relay whose server is gone or whose proxy shuts down.  Two waits are
\* the exception: the server wants an exchange that relayAuth does not know, or the greeting
\* has lost the byte that Ping read.  Both end when the server closes.
Unwaited == b.stage = "gone" \/ ~(px.torn \/ b.stage = "gss")

SessionEnds ==
  /\ (c.end = "gone") ~> ((px.pos = "ended" /\ up # "copy" /\ down # "copy") \/ ~Unwaited)
  /\ (px.pos = "relay" /\ (shutdown \/ b.stage = "gone")) ~> (px.pos = "ended")

=============================================================================
