---------------------------- MODULE ReloadProofs ----------------------------
(***************************************************************************)
(* Proofs about the two hot reloads: CertLoader for any number of renewals *)
(* and ticks, ConfigWatcher for any contents of the file, any number of    *)
(* timers that fire and any number of edits.                               *)
(***************************************************************************)
EXTENDS ConfigWatcher, CertLoader, TLAPS

(***************************************************************************)
(* The certificate.  HandshakeServesFiles speaks of the end of a           *)
(* handshake; what a later one relies on is that certLoader's time shows   *)
(* every renewal that has not been loaded (Shown), and, within a           *)
(* handshake, that the certificate read is the file's (ReadIsCurrent).     *)
(***************************************************************************)

CertTypeOK ==
  /\ certFile \in Nat /\ certTime \in Nat /\ keyFile \in Nat /\ now \in Nat
  /\ cert \in Nat /\ modTime \in Nat
  /\ hs \in [pos : {"idle", "load", "key", "stamp", "serve"}, read : Nat]
  /\ calm \in BOOLEAN /\ missed \in BOOLEAN

\* No time is ahead of the clock, and a handshake loads only what looks newer.
TimesFit ==
  /\ certTime <= now /\ modTime <= now
  /\ hs.pos \in {"load", "key", "stamp"} => certTime > modTime

\* A certificate that does not look newer is the one in memory.
Shown == ~missed /\ certTime <= modTime => cert = certFile

\* While no file changes, the certificate that a handshake has read is the file.
ReadIsCurrent == calm /\ hs.pos = "key" => hs.read = certFile

CertInv == CertTypeOK /\ TimesFit /\ Shown /\ ReadIsCurrent /\ HandshakeServesFiles

\* newCertLoader's state satisfies the invariant.
LEMMA CertInitially == CertInit => CertInv
<1> SUFFICES ASSUME CertInit PROVE CertInv
  OBVIOUS
<1>1. calm /\ ~missed /\ calm \in BOOLEAN /\ missed \in BOOLEAN
  BY Zenon DEF CertInit
<1> QED
  BY <1>1 DEF CertInit, CertInv, CertTypeOK, TimesFit, Shown, ReadIsCurrent, HandshakeServesFiles

\* A change of a file keeps the invariant, whenever it comes.
LEMMA FilesKeep ==
  ASSUME CertInv, RenewCert \/ RenewKey \/ Tick
  PROVE  CertInv'
<1> USE DEF CertInv, CertTypeOK, TimesFit, Shown, ReadIsCurrent, HandshakeServesFiles, Whole
<1>1. CASE RenewCert
  <2>1. ~calm' /\ calm' \in BOOLEAN
    BY <1>1, Zenon DEF RenewCert
  <2>2. missed' \in BOOLEAN /\ (~missed' => ~missed /\ ~(now <= modTime))
    BY <1>1, Zenon DEF RenewCert
  <2> QED
    BY <1>1, <2>1, <2>2 DEF RenewCert
<1>2. CASE RenewKey
  <2>1. ~calm' /\ calm' \in BOOLEAN
    BY <1>2, Zenon DEF RenewKey
  <2> QED
    BY <1>2, <2>1 DEF RenewKey
<1>3. CASE Tick
  BY <1>3 DEF Tick
<1> QED
  BY <1>1, <1>2, <1>3

\* So does every step of certLoader.
LEMMA HandshakeKeeps ==
  ASSUME CertInv, HandshakeStep
  PROVE  CertInv'
<1> USE DEF CertInv, CertTypeOK, TimesFit, Shown, ReadIsCurrent, HandshakeServesFiles, Whole
<1>1. CASE getCertificate
  BY <1>1 DEF getCertificate
<1>2. CASE ReadCert
  BY <1>2 DEF ReadCert
<1>3. CASE ReadKey
  BY <1>3 DEF ReadKey
<1>4. CASE Stamp
  BY <1>4, Zenon DEF Stamp
<1>5. CASE Serve
  BY <1>5 DEF Serve
<1> QED
  BY <1>1, <1>2, <1>3, <1>4, <1>5 DEF HandshakeStep

\* getCertificate serves the pair on disk to every handshake during which the files
\* stay a pair, however renewals, ticks and earlier handshakes were interleaved.
THEOREM CertificateServed == CertSpec => []HandshakeServesFiles
<1>1. CertInv /\ [CertNext]_certVars => CertInv'
  <2> SUFFICES ASSUME CertInv, [CertNext]_certVars PROVE CertInv'
    OBVIOUS
  <2>1. CASE UNCHANGED certVars
    BY <2>1 DEF certVars, CertInv, CertTypeOK, TimesFit, Shown, ReadIsCurrent,
                HandshakeServesFiles, Whole
  <2> QED
    BY <2>1, FilesKeep, HandshakeKeeps DEF CertNext
<1>2. CertInv => HandshakeServesFiles
  BY DEF CertInv
<1> QED
  BY CertInitially, <1>1, <1>2, PTL DEF CertSpec

-----------------------------------------------------------------------------
(***************************************************************************)
(* The configuration: what Load makes of a file that it accepts.           *)
(***************************************************************************)

\* substituteEnvVars keeps everything but the hosts of tenants.
LEMMA SubstituteKeeps ==
  ASSUME NEW raw, IsFile(raw)
  PROVE  LET cfg == substituteEnvVars(raw)
         IN  /\ DOMAIN cfg = DOMAIN EmptyFile
             /\ cfg.set = raw.set /\ cfg.set \in [Settings -> Int]
             /\ DOMAIN cfg.tenants = DOMAIN raw.tenants
             /\ \A id \in DOMAIN cfg.tenants : IsTenant(cfg.tenants[id])
<1> DEFINE cfg == substituteEnvVars(raw)
<1>1. DOMAIN cfg = DOMAIN EmptyFile /\ cfg.set = raw.set /\ cfg.set \in [Settings -> Int]
  BY DEF substituteEnvVars, IsFile, EmptyFile
<1>2. cfg.tenants = [id \in DOMAIN raw.tenants |-> SubstituteHost(raw.tenants[id])]
  BY DEF substituteEnvVars, IsFile, EmptyFile
<1> HIDE DEF cfg
<1>3. ASSUME NEW id \in DOMAIN raw.tenants
      PROVE  IsTenant(SubstituteHost(raw.tenants[id]))
  <2>1. IsTenant(raw.tenants[id])
    BY DEF IsFile
  <2> QED
    BY <2>1 DEF IsTenant, SubstituteHost
<1> QED
  BY <1>1, <1>2, <1>3 DEF cfg

\* applyDefaults fills the settings that are 0 and the two texts, and nothing else.
LEMMA DefaultsFill ==
  ASSUME NEW cfg, DOMAIN cfg = DOMAIN EmptyFile, cfg.set \in [Settings -> Int]
  PROVE  LET d == applyDefaults(cfg)
         IN  /\ d.set \in [Settings -> Int] /\ d.tenants = cfg.tenants
             /\ \A f \in Settings : /\ cfg.set[f] = 0 => d.set[f] = Default[f]
                                    /\ cfg.set[f] # 0 => d.set[f] = cfg.set[f]
             /\ d.api_bind # "" /\ d.pool_mode # ""
             /\ cfg.pool_mode # "" => d.pool_mode = cfg.pool_mode
             /\ cfg.pool_mode = "" => d.pool_mode = "session"
<1> DEFINE d == applyDefaults(cfg)
<1>1. \A f \in Settings : Default[f] \in Int
  BY DEF Default, Settings
<1>2. d.set = [f \in Settings |-> IF cfg.set[f] = 0 THEN Default[f] ELSE cfg.set[f]]
  BY DEF applyDefaults, EmptyFile
<1>3. d.tenants = cfg.tenants /\ d.api_bind # "" /\ d.pool_mode # ""
  BY Zenon DEF applyDefaults, EmptyFile
<1>4. /\ cfg.pool_mode # "" => d.pool_mode = cfg.pool_mode
      /\ cfg.pool_mode = "" => d.pool_mode = "session"
  BY Zenon DEF applyDefaults, EmptyFile
<1> HIDE DEF d
<1>5. d.set \in [Settings -> Int]
  BY <1>1, <1>2
<1>6. \A f \in Settings : /\ cfg.set[f] = 0 => d.set[f] = Default[f]
                          /\ cfg.set[f] # 0 => d.set[f] = cfg.set[f]
  BY <1>2
<1> QED
  BY <1>3, <1>4, <1>5, <1>6, Zenon DEF d

\* No default is 0, and the defaults of the ports are ports.
LEMMA DefaultsUsable ==
  /\ \A f \in Settings : Default[f] # 0
  /\ \A p \in Ports : p \in Settings /\ ValidPort(Default[p])
  /\ {"min_connections", "max_connections"} \subseteq Settings
BY DEF Settings, Default, Ports, ValidPort

\* A file that Load accepts becomes a complete configuration.
LEMMA LoadCompletes ==
  ASSUME NEW raw, IsFile(raw), Loads(raw)
  PROVE  Complete(Load(raw), raw)
<1> DEFINE cfg == substituteEnvVars(raw)
           d == applyDefaults(cfg)
<1>1. /\ DOMAIN cfg = DOMAIN EmptyFile /\ cfg.set \in [Settings -> Int]
      /\ \A id \in DOMAIN cfg.tenants : IsTenant(cfg.tenants[id])
      /\ cfg.set = raw.set /\ DOMAIN cfg.tenants = DOMAIN raw.tenants
  BY SubstituteKeeps
<1>2. validate(cfg)
  BY DEF Loads
<1> HIDE DEF cfg
<1>3. /\ d.set \in [Settings -> Int] /\ d.tenants = cfg.tenants
      /\ \A f \in Settings : /\ cfg.set[f] = 0 => d.set[f] = Default[f]
                             /\ cfg.set[f] # 0 => d.set[f] = cfg.set[f]
      /\ d.api_bind # "" /\ d.pool_mode # ""
      /\ cfg.pool_mode # "" => d.pool_mode = cfg.pool_mode
      /\ cfg.pool_mode = "" => d.pool_mode = "session"
  BY <1>1, DefaultsFill, Zenon
<1> HIDE DEF d
<1>4. Filled(d)
  BY <1>1, <1>3, DefaultsUsable, Zenon DEF Filled
<1>5. \A p \in Ports : ValidPort(d.set[p])
  BY <1>2, <1>3, DefaultsUsable, Zenon DEF validate
<1>6. d.set["min_connections"] <= d.set["max_connections"] \/ Uncompared(raw)
  <2>1. CASE cfg.set["min_connections"] = 0 \/ cfg.set["max_connections"] = 0
    BY <2>1, <1>1 DEF Uncompared
  <2>2. CASE cfg.set["min_connections"] # 0 /\ cfg.set["max_connections"] # 0
    <3>1. /\ d.set["min_connections"] = cfg.set["min_connections"]
          /\ d.set["max_connections"] = cfg.set["max_connections"]
          /\ cfg.set["min_connections"] \in Int /\ cfg.set["max_connections"] \in Int
      BY <2>2, <1>1, <1>3, DefaultsUsable, Zenon
    <3>2. cfg.set["max_connections"] > 0 =>
            cfg.set["min_connections"] <= cfg.set["max_connections"]
      BY <1>2, Zenon DEF validate
    <3> QED
      BY <1>1, <2>2, <3>1, <3>2 DEF Uncompared
  <2> QED
    BY <2>1, <2>2
<1>7. d.pool_mode \in PoolModes
  BY <1>2, <1>3, Zenon DEF validate, PoolModes
<1>8. ASSUME NEW id \in DOMAIN d.tenants
      PROVE  CompleteTenant(d.tenants[id], d, raw)
  <2> DEFINE t == d.tenants[id]
  <2>1. IsTenant(t) /\ ValidTenant(t)
    BY <1>1, <1>2, <1>3, Zenon DEF validate
  <2> HIDE DEF t
  <2>2. EffectivePoolMode(t, d) \in PoolModes
    BY <2>1, <1>7, Zenon DEF EffectivePoolMode, ValidTenant
  <2>3. CASE {"min_connections", "max_connections"} \subseteq DOMAIN t.over
    <3>1. Ordered(t, d)
      BY <2>1, <2>3, Zenon DEF ValidTenant, Ordered, Effective
    <3> QED
      BY <3>1, <2>1, <2>2, Zenon DEF CompleteTenant, ValidTenant, t
  <2>4. CASE {"min_connections", "max_connections"} \cap DOMAIN t.over = {}
    <3>1. Ordered(t, d) \/ Uncompared(raw)
      BY <2>4, <1>6 DEF Ordered, Effective
    <3> QED
      BY <3>1, <2>1, <2>2, <2>4, Zenon DEF CompleteTenant, ValidTenant, t
  <2>5. CASE ("min_connections" \in DOMAIN t.over) # ("max_connections" \in DOMAIN t.over)
    BY <2>1, <2>2, <2>5, Zenon DEF CompleteTenant, ValidTenant, t
  <2> QED
    BY <2>3, <2>4, <2>5
<1>9. \A id \in DOMAIN d.tenants : ValidateTenantID(id)
  BY <1>2, <1>3, Zenon DEF validate
<1>10. Complete(d, raw)
  BY <1>1, <1>3, <1>4, <1>5, <1>6, <1>8, <1>9, Zenon DEF Complete
<1> QED
  BY <1>10 DEF Load, d, cfg

-----------------------------------------------------------------------------
(***************************************************************************)
(* The watcher.  A reload may be overtaken by edits at any point and by    *)
(* other timers before it has the lock.  The invariant says what each      *)
(* position under Watcher.mu knows: what was read is accepted, not newer   *)
(* than the file, and not older than what the two halves have.             *)
(***************************************************************************)

FileStates == [rev : Nat, raw : Contents \cup {EmptyFile}]

Configurations == {InUse(f) : f \in FileStates}

Accepted == {InUse(f) : f \in {g \in FileStates : Loads(g.raw)}}

UnderLock == {"load", "router", "manager"}

WatcherTypeOK ==
  /\ file \in FileStates
  /\ router \in Configurations /\ manager \in Configurations
  /\ mu \in Reloaders \cup {Nobody}
  /\ rel \in [Reloaders -> [pos : {"none", "lock"} \cup UnderLock, got : Configurations]]

\* The reloads begin with the watcher, and the watcher after the first Load.
NothingEarly ==
  main = "begin" =>
    loop = "off" /\ ~armed /\ mu = Nobody /\ \A r \in Reloaders : rel[r].pos = "none"

\* Watcher.mu is held exactly from Lock to the end of the reload.
LockHeld == \A r \in Reloaders : mu = r <=> rel[r].pos \in UnderLock

\* What has been read, and what is in use, is not newer than the file.
NotAhead ==
  /\ router.rev <= file.rev /\ manager.rev <= file.rev
  /\ \A r \in Reloaders : rel[r].pos \in {"router", "manager"} => rel[r].got.rev <= file.rev

\* What the holder of the lock has read is at least as new as what is in use.
NotBehind ==
  /\ mu = Nobody => router = manager
  /\ \A r \in Reloaders :
       /\ rel[r].pos \in {"load", "router"} => router = manager
       /\ rel[r].pos = "router" => router.rev <= rel[r].got.rev
       /\ rel[r].pos = "manager" => router = rel[r].got /\ manager.rev <= router.rev

\* Only what Load has accepted is applied.
OnlyAccepted ==
  /\ main # "begin" => router \in Accepted
  /\ \A r \in Reloaders : rel[r].pos \in {"router", "manager"} => rel[r].got \in Accepted

WatcherInv ==
  WatcherTypeOK /\ NothingEarly /\ LockHeld /\ NotAhead /\ NotBehind /\ OnlyAccepted

\* What is in use has the revision of its file.
LEMMA InUseTypes ==
  /\ \A f \in FileStates : InUse(f) \in Configurations /\ InUse(f).rev = f.rev
  /\ \A f \in FileStates : Loads(f.raw) => InUse(f) \in Accepted
  /\ \A c \in Configurations : c.rev \in Nat
  /\ NotRunning.pos = "none" /\ NotRunning.got \in Configurations
  /\ NotRunning.got.rev = 0 /\ NotRunning = [pos |-> "none", got |-> NotRunning.got]
<1>1. \A f \in FileStates : InUse(f) \in Configurations /\ InUse(f).rev = f.rev
  BY DEF Configurations, InUse
<1>2. \A f \in FileStates : f.rev \in Nat
  BY DEF FileStates
<1>3. [rev |-> 0, raw |-> EmptyFile] \in FileStates
  BY DEF FileStates
<1>4. \A f \in FileStates : Loads(f.raw) => InUse(f) \in Accepted
  BY DEF Accepted
<1>5. \A c \in Configurations : c.rev \in Nat
  BY <1>1, <1>2 DEF Configurations
<1> QED
  BY <1>1, <1>3, <1>4, <1>5 DEF NotRunning

\* The invariant holds before main's first Load.
LEMMA WatcherInitially == Init => WatcherInv
<1> SUFFICES ASSUME Init PROVE WatcherInv
  OBVIOUS
<1>1. file \in FileStates /\ file.rev = 0
  BY DEF Init, FileStates
<1>2. /\ router = NotRunning.got /\ manager = NotRunning.got
      /\ rel = [r \in Reloaders |-> NotRunning] /\ mu = Nobody
      /\ main = "begin" /\ loop = "off" /\ ~armed
  BY DEF Init
<1>3. WatcherTypeOK
  BY <1>1, <1>2, InUseTypes DEF WatcherTypeOK
<1> QED
  BY <1>1, <1>2, <1>3, InUseTypes, WatcherAssumption
  DEF WatcherInv, NothingEarly, LockHeld, NotAhead, NotBehind, OnlyAccepted, UnderLock

\* Edits of the file keep it, whatever main and the reloads are doing.
LEMMA EditsKeep ==
  ASSUME WatcherInv, BeginSave \/ FinishSave \/ RenameOver
  PROVE  WatcherInv'
<1>1. file' \in FileStates /\ file'.rev = file.rev + 1
  BY DEF WatcherInv, WatcherTypeOK, BeginSave, FinishSave, RenameOver, Edit, FileStates
<1>2. UNCHANGED <<main, loop, armed, mu, rel, router, manager>>
  BY DEF BeginSave, FinishSave, RenameOver
<1>3. WatcherTypeOK'
  BY <1>1, <1>2 DEF WatcherInv, WatcherTypeOK
<1>4. NotAhead'
  BY <1>1, <1>2, InUseTypes DEF WatcherInv, WatcherTypeOK, NotAhead, FileStates, UnderLock
<1> QED
  BY <1>2, <1>3, <1>4 DEF WatcherInv, NothingEarly, LockHeld, NotBehind, OnlyAccepted

\* So do the steps of main and of Watcher.run.
LEMMA MainKeeps ==
  ASSUME WatcherInv, FirstLoad \/ NewWatcher \/ Stop \/ CloseWatcher \/ RunStep
  PROVE  WatcherInv'
<1> USE DEF WatcherInv
<1>1. CASE FirstLoad
  <2>1. /\ router' = InUse(file) /\ manager' = InUse(file)
        /\ UNCHANGED <<file, loop, armed, mu, rel>> /\ Loads(file.raw)
        /\ main = "begin" /\ main' = "loaded"
    BY <1>1 DEF FirstLoad
  <2>2. \A r \in Reloaders : rel[r].pos = "none"
    BY <2>1 DEF NothingEarly
  <2>3. WatcherTypeOK'
    BY <2>1, InUseTypes DEF WatcherTypeOK
  <2>4. NotAhead'
    BY <2>1, <2>2, InUseTypes DEF WatcherTypeOK, NotAhead, FileStates
  <2> QED
    BY <2>1, <2>2, <2>3, <2>4, InUseTypes
    DEF WatcherTypeOK, NothingEarly, LockHeld, NotBehind, OnlyAccepted
<1>2. CASE NewWatcher \/ Stop \/ CloseWatcher \/ RunStep
  <2>1. UNCHANGED <<file, mu, rel, router, manager>>
    BY <1>2 DEF NewWatcher, Stop, CloseWatcher, RunStep, HandleEvent, RunEnds
  <2>2. (main' = "begin") <=> (main = "begin")
    BY <1>2 DEF NewWatcher, Stop, CloseWatcher, RunStep, HandleEvent, RunEnds
  <2>3. main = "begin" => UNCHANGED <<loop, armed>>
    BY <1>2 DEF NothingEarly, NewWatcher, Stop, CloseWatcher, RunStep, HandleEvent, RunEnds
  <2> QED
    BY <2>1, <2>2, <2>3
    DEF WatcherTypeOK, NothingEarly, LockHeld, NotAhead, NotBehind, OnlyAccepted
<1> QED
  BY <1>1, <1>2

\* So does every step of a reload: the lock keeps the others out of what it relates.
LEMMA ReloadKeeps ==
  ASSUME WatcherInv, NEW r \in Reloaders, ReloadStep(r)
  PROVE  WatcherInv'
<1> USE DEF WatcherInv, UnderLock
<1>1. CASE TimerFires(r)
  <2>1. /\ rel' = [rel EXCEPT ![r].pos = "lock"] /\ rel[r].pos = "none" /\ armed
        /\ UNCHANGED <<file, main, loop, mu, router, manager>>
    BY <1>1 DEF TimerFires
  <2>2. WatcherTypeOK'
    BY <2>1 DEF WatcherTypeOK
  <2> QED
    BY <2>1, <2>2 DEF WatcherTypeOK, NothingEarly, LockHeld, NotAhead, NotBehind, OnlyAccepted
<1>2. CASE Lock(r)
  <2>1. /\ rel' = [rel EXCEPT ![r].pos = "load"] /\ rel[r].pos = "lock"
        /\ mu = Nobody /\ mu' = r
        /\ UNCHANGED <<file, main, loop, armed, router, manager>>
    BY <1>2 DEF Lock
  <2>2. WatcherTypeOK'
    BY <2>1 DEF WatcherTypeOK
  <2>3. \A q \in Reloaders : q # r => rel[q].pos \notin UnderLock /\ rel'[q] = rel[q]
    BY <2>1, WatcherAssumption DEF WatcherTypeOK, LockHeld
  <2> QED
    BY <2>1, <2>2, <2>3, WatcherAssumption
    DEF WatcherTypeOK, NothingEarly, LockHeld, NotAhead, NotBehind, OnlyAccepted
<1>3. CASE LoadFile(r)
  <2>1. rel[r].pos = "load" /\ mu = r /\ router = manager
    BY <1>3 DEF LoadFile, LockHeld, NotBehind
  <2>2. \A q \in Reloaders : q # r => rel[q].pos \notin UnderLock
    BY <2>1 DEF LockHeld
  <2>3. CASE Loads(file.raw)
    <3>1. /\ rel' = [rel EXCEPT ![r] = [pos |-> "router", got |-> InUse(file)]]
          /\ UNCHANGED <<file, main, loop, armed, mu, router, manager>>
      BY <1>3, <2>3 DEF LoadFile
    <3>2. /\ InUse(file) \in Configurations /\ InUse(file) \in Accepted
          /\ InUse(file).rev = file.rev /\ file.rev \in Nat
      BY <2>3, InUseTypes DEF WatcherTypeOK, FileStates
    <3>3. WatcherTypeOK'
      BY <3>1, <3>2 DEF WatcherTypeOK
    <3>4. /\ rel'[r].pos = "router" /\ rel'[r].got = InUse(file)
          /\ \A q \in Reloaders : q # r => rel'[q] = rel[q]
      BY <3>1 DEF WatcherTypeOK
    <3> QED
      BY <2>1, <2>2, <3>1, <3>2, <3>3, <3>4
      DEF WatcherTypeOK, NothingEarly, LockHeld, NotAhead, NotBehind, OnlyAccepted
  <2>4. CASE ~Loads(file.raw)
    <3>1. /\ rel' = [rel EXCEPT ![r] = NotRunning] /\ mu' = Nobody
          /\ UNCHANGED <<file, main, loop, armed, router, manager>>
      BY <1>3, <2>4 DEF LoadFile
    <3>2. WatcherTypeOK'
      BY <3>1, InUseTypes DEF WatcherTypeOK
    <3>3. /\ rel'[r].pos = "none"
          /\ \A q \in Reloaders : q # r => rel'[q] = rel[q]
      BY <3>1, InUseTypes DEF WatcherTypeOK
    <3> QED
      BY <2>1, <2>2, <3>1, <3>2, <3>3, WatcherAssumption
      DEF WatcherTypeOK, NothingEarly, LockHeld, NotAhead, NotBehind, OnlyAccepted
  <2> QED
    BY <2>3, <2>4
<1>4. CASE ReloadRouter(r)
  <2>1. /\ rel[r].pos = "router" /\ mu = r /\ router' = rel[r].got
        /\ rel' = [rel EXCEPT ![r].pos = "manager"]
        /\ UNCHANGED <<file, main, loop, armed, mu, manager>>
    BY <1>4 DEF ReloadRouter, LockHeld
  <2>2. \A q \in Reloaders : q # r => rel[q].pos \notin UnderLock
    BY <2>1 DEF LockHeld
  <2>3. WatcherTypeOK'
    BY <2>1 DEF WatcherTypeOK
  <2>4. /\ rel'[r].pos = "manager" /\ rel'[r].got = rel[r].got
        /\ \A q \in Reloaders : q # r => rel'[q] = rel[q]
    BY <2>1 DEF WatcherTypeOK
  <2> QED
    BY <2>1, <2>2, <2>3, <2>4, WatcherAssumption
    DEF WatcherTypeOK, NothingEarly, LockHeld, NotAhead, NotBehind, OnlyAccepted
<1>5. CASE UpdateDefaults(r)
  <2>1. /\ rel[r].pos = "manager" /\ mu = r /\ manager' = rel[r].got /\ router = rel[r].got
        /\ rel' = [rel EXCEPT ![r] = NotRunning] /\ mu' = Nobody
        /\ UNCHANGED <<file, main, loop, armed, router>>
    BY <1>5 DEF UpdateDefaults, LockHeld, NotBehind
  <2>2. \A q \in Reloaders : q # r => rel[q].pos \notin UnderLock
    BY <2>1 DEF LockHeld
  <2>3. WatcherTypeOK'
    BY <2>1, InUseTypes DEF WatcherTypeOK
  <2>4. /\ rel'[r].pos = "none"
        /\ \A q \in Reloaders : q # r => rel'[q] = rel[q]
    BY <2>1, InUseTypes DEF WatcherTypeOK
  <2> QED
    BY <2>1, <2>2, <2>3, <2>4, WatcherAssumption
    DEF WatcherTypeOK, NothingEarly, LockHeld, NotAhead, NotBehind, OnlyAccepted
<1> QED
  BY <1>1, <1>2, <1>3, <1>4, <1>5 DEF ReloadStep

\* The invariant holds in every state.
LEMMA WatcherInvariant == Spec => []WatcherInv
<1>1. WatcherInv /\ [Next]_vars => WatcherInv'
  <2> SUFFICES ASSUME WatcherInv, [Next]_vars PROVE WatcherInv'
    OBVIOUS
  <2>1. CASE UNCHANGED vars
    BY <2>1 DEF vars, WatcherInv, WatcherTypeOK, NothingEarly, LockHeld, NotAhead, NotBehind,
                OnlyAccepted
  <2> QED
    BY <2>1, EditsKeep, MainKeeps, ReloadKeeps DEF Next
<1> QED
  BY WatcherInitially, <1>1, PTL DEF Spec

\* Watcher.reload and main's callback never put an older revision in place of a newer
\* one, and leave router and manager with the same configuration, for any number of
\* overlapping timers and of edits.
THEOREM OverlapsInOrder == Spec => ReloadsInOrder
<1>1. ASSUME WatcherInv, WatcherInv', [Next]_vars
      PROVE  [router'.rev >= router.rev /\ manager'.rev >= manager.rev /\ HalvesAgree']_vars
  <2> USE DEF WatcherInv
  <2>1. HalvesAgree'
    BY <1>1 DEF HalvesAgree, NotBehind, LockHeld, UnderLock
  <2>2. router.rev \in Nat /\ manager.rev \in Nat
    BY <1>1, InUseTypes DEF WatcherTypeOK
  <2>3. \/ UNCHANGED <<router, manager>>
        \/ FirstLoad
        \/ \E r \in Reloaders : ReloadRouter(r) \/ UpdateDefaults(r)
    BY <1>1 DEF Next, vars, BeginSave, FinishSave, RenameOver, NewWatcher, Stop, CloseWatcher,
           RunStep, HandleEvent, RunEnds, ReloadStep, TimerFires, Lock, LoadFile
  <2>4. CASE FirstLoad
    BY <1>1, <2>1, <2>2, <2>4, InUseTypes DEF FirstLoad, NotAhead, WatcherTypeOK, FileStates
  <2>5. ASSUME NEW r \in Reloaders, ReloadRouter(r) \/ UpdateDefaults(r)
        PROVE  router'.rev >= router.rev /\ manager'.rev >= manager.rev
    <3>1. rel[r].got.rev \in Nat
      BY <1>1, InUseTypes DEF WatcherTypeOK
    <3> QED
      BY <1>1, <2>2, <2>5, <3>1 DEF ReloadRouter, UpdateDefaults, NotBehind
  <2> QED
    BY <2>1, <2>2, <2>3, <2>4, <2>5
<1> QED
  BY WatcherInvariant, <1>1, PTL DEF Spec, ReloadsInOrder

\* Whatever the file was made to contain and however often it was read half written,
\* what Load and the reloads put in use is complete: every tenant of the file that was read
\* has what validate asks for, every setting a value, and bounds are out of order only
\* where validate does not compare them.
THEOREM CompleteInUse == Spec => []InUseIsComplete
<1>1. ASSUME WatcherInv PROVE InUseIsComplete
  <2>1. \A f \in FileStates : IsFile(f.raw)
    <3>1. IsFile(EmptyFile)
      BY DEF IsFile, EmptyFile
    <3> QED
      BY <3>1, WatcherAssumption DEF FileStates
  <2>2. ASSUME NEW f \in FileStates, Loads(f.raw)
        PROVE  Complete(InUse(f).cfg, InUse(f).raw)
    BY <2>1, <2>2, LoadCompletes DEF InUse
  <2> QED
    BY <1>1, <2>2 DEF WatcherInv, OnlyAccepted, Accepted, InUseIsComplete
<1> QED
  BY WatcherInvariant, <1>1, PTL

=============================================================================
