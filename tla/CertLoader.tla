----------------------------- MODULE CertLoader -----------------------------
(***************************************************************************)
(* Hot reload of the TLS certificate (certLoader in                        *)
(* internal/proxy/server.go): the load at the start and the one a          *)
(* handshake makes when the certificate file is newer than the time noted  *)
(* at the last load.  mu lets one handshake in at a time, so there is one  *)
(* (hs); the files change under it between any two of its system calls.    *)
(*                                                                         *)
(* External: whoever renews the pair, one file after the other in either   *)
(* order, the file system's clock, and tls.LoadX509KeyPair, which reads    *)
(* the certificate, then the key, and refuses a pair that does not match.  *)
(* A file is the number of its generation.                                 *)
(***************************************************************************)
EXTENDS Naturals

CONSTANTS
  MaxRenewals,  \* bound: renewals of the pair
  MaxTime       \* bound: ticks of the clock

VARIABLES
  certFile, certTime,  \* the certificate file and its modification time
  keyFile,
  now,
  cert, modTime,       \* certLoader's fields; generation 0 is a nil certificate
  hs,                  \* newCertLoader, then the handshakes
  calm,                \* history: no file has changed since the handshake began
  missed               \* history: a change that the times cannot show

certVars == <<certFile, certTime, keyFile, now, cert, modTime, hs, calm, missed>>

Whole == certFile = keyFile

-----------------------------------------------------------------------------
(* The files *)

\* A certificate written in the tick of the last load has that load's time.
RenewCert ==
  /\ certFile < MaxRenewals /\ certFile <= keyFile
  /\ certFile' = certFile + 1 /\ certTime' = now
  /\ calm' = FALSE
  /\ missed' = (missed \/ now <= modTime)
  /\ UNCHANGED <<keyFile, now, cert, modTime, hs>>

RenewKey ==
  /\ keyFile < MaxRenewals /\ keyFile <= certFile
  /\ keyFile' = keyFile + 1
  /\ calm' = FALSE
  /\ UNCHANGED <<certFile, certTime, now, cert, modTime, hs, missed>>

Tick ==
  /\ now < MaxTime
  /\ now' = now + 1
  /\ UNCHANGED <<certFile, certTime, keyFile, cert, modTime, hs, calm, missed>>

-----------------------------------------------------------------------------
(* certLoader *)

\* getCertificate begins with a Stat; an unchanged time leaves cert as it is.
getCertificate ==
  /\ hs.pos = "idle"
  /\ hs' = [hs EXCEPT !.pos = IF certTime > modTime THEN "load" ELSE "serve"]
  /\ calm' = TRUE
  /\ UNCHANGED <<certFile, certTime, keyFile, now, cert, modTime, missed>>

\* loadLocked: LoadX509KeyPair reads the certificate ...
ReadCert ==
  /\ hs.pos = "load"
  /\ hs' = [pos |-> "key", read |-> certFile]
  /\ UNCHANGED <<certFile, certTime, keyFile, now, cert, modTime, calm, missed>>

\* Variant: the time is noted also when the pair is refused.
ReadKeyStamps ==
  /\ hs.pos = "key"
  /\ IF hs.read = keyFile
       THEN hs' = [hs EXCEPT !.pos = "stamp"] /\ cert' = hs.read /\ UNCHANGED modTime
       ELSE hs' = [hs EXCEPT !.pos = "serve"] /\ modTime' = certTime /\ UNCHANGED cert
  /\ UNCHANGED <<certFile, certTime, keyFile, now, calm, missed>>

\* ... and the key; a mismatch keeps the old certificate and the old time.
ReadKey ==
  /\ hs.pos = "key"
  /\ IF hs.read = keyFile
       THEN hs' = [hs EXCEPT !.pos = "stamp"] /\ cert' = hs.read
       ELSE hs' = [hs EXCEPT !.pos = "serve"] /\ UNCHANGED cert
  /\ UNCHANGED <<certFile, certTime, keyFile, now, modTime, calm, missed>>

\* The Stat after the load: the certificate may have changed since it was read.
Stamp ==
  /\ hs.pos = "stamp"
  /\ modTime' = certTime
  /\ missed' = (cert # certFile)
  /\ hs' = [hs EXCEPT !.pos = "serve"]
  /\ UNCHANGED <<certFile, certTime, keyFile, now, cert, calm>>

Serve ==
  /\ hs.pos = "serve"
  /\ hs' = [pos |-> "idle", read |-> 0]
  /\ UNCHANGED <<certFile, certTime, keyFile, now, cert, modTime, calm, missed>>

\* newCertLoader's own load, which NewServer makes after a first one has succeeded.
CertInit ==
  /\ certFile = 1 /\ keyFile = 1 /\ certTime = 1 /\ now = 1
  /\ cert = 0 /\ modTime = 0
  /\ hs = [pos |-> "load", read |-> 0]
  /\ calm = TRUE /\ missed = FALSE

HandshakeStep == getCertificate \/ ReadCert \/ ReadKey \/ Stamp \/ Serve

CertNext == RenewCert \/ RenewKey \/ Tick \/ HandshakeStep

CertSpec == CertInit /\ [][CertNext]_certVars

-----------------------------------------------------------------------------
(* Properties *)

\* A handshake during which the files do not change, and are a pair, is served that
\* pair: a renewal caught between its two files is tried again, and an older
\* certificate never comes back.  Exempt is a renewal that the modification time
\* cannot show, written between a load and the Stat after it, or in its tick.
HandshakeServesFiles ==
  hs.pos = "serve" /\ calm /\ Whole /\ ~missed => cert = certFile
=============================================================================
