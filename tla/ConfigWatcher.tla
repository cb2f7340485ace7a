---------------------------- MODULE ConfigWatcher ----------------------------
(***************************************************************************)
(* Hot reload of the configuration file (Watcher in                        *)
(* internal/config/config.go) and what main.go does around it: the first   *)
(* Load, the watch that begins later, the event loop with its debounce     *)
(* timer, the reloads that fired timers run, and Stop.                     *)
(*                                                                         *)
(* External: whoever edits the file, in place (an empty file first, then   *)
(* its text) or by renaming another file over it, and fsnotify, which      *)
(* watches the inode: a rename ends the watch and is reported as a         *)
(* removal.  A file is its raw content and the number of its revision.     *)
(***************************************************************************)
EXTENDS ConfigFile, Sequences

CONSTANTS
  Contents,   \* what the file may be made to contain
  Reloaders,  \* goroutines of fired timers
  MaxEdits,   \* bound: times the file is saved
  Nobody

ASSUME WatcherAssumption ==
  /\ MaxEdits \in Nat /\ Nobody \notin Reloaders
  /\ \A raw \in Contents : IsFile(raw)

VARIABLES
  file,     \* the file's content
  saving,   \* an edit in place is half done
  edits,    \* saves so far
  caught,   \* history: the last change of the file was reported
  main,     \* how far main has come
  watched,  \* the inode at the path has a watch
  events,   \* what Watcher.Events has yet to deliver
  closed,   \* fsnotify's Close has been called
  stopCh,   \* Watcher.stopCh is closed
  loop,     \* Watcher.run
  armed,    \* the last debounce timer is running
  mu,       \* holder of Watcher.mu
  rel,      \* each fired timer's reload
  router,   \* the configuration the router has
  manager   \* the one the pool manager has its defaults from

vars == <<file, saving, edits, caught, main, watched, events, closed, stopCh, loop, armed,
          mu, rel, router, manager>>

\* A configuration in use, with the revision and the file it was made from (history).
InUse(f) == [rev |-> f.rev, raw |-> f.raw, cfg |-> Load(f.raw)]

NotRunning == [pos |-> "none", got |-> InUse([rev |-> 0, raw |-> EmptyFile])]

-----------------------------------------------------------------------------
(* The file *)

Edit(raw) ==
  /\ file' = [rev |-> file.rev + 1, raw |-> raw]
  /\ caught' = watched
  /\ events' = IF watched THEN Append(events, "write") ELSE events

BeginSave ==
  /\ ~saving /\ edits < MaxEdits
  /\ Edit(EmptyFile)
  /\ saving' = TRUE /\ edits' = edits + 1
  /\ UNCHANGED <<main, watched, closed, stopCh, loop, armed, mu, rel, router, manager>>

FinishSave ==
  /\ saving
  /\ \E raw \in Contents : Edit(raw)
  /\ saving' = FALSE
  /\ UNCHANGED <<edits, main, watched, closed, stopCh, loop, armed, mu, rel, router, manager>>

RenameOver ==
  /\ ~saving /\ edits < MaxEdits
  /\ \E raw \in Contents : file' = [rev |-> file.rev + 1, raw |-> raw]
  /\ caught' = FALSE
  /\ events' = IF watched THEN Append(events, "remove") ELSE events
  /\ watched' = FALSE
  /\ edits' = edits + 1
  /\ UNCHANGED <<saving, main, closed, stopCh, loop, armed, mu, rel, router, manager>>

-----------------------------------------------------------------------------
(* main *)

\* main exits when its Load fails.
FirstLoad ==
  /\ main = "begin" /\ Loads(file.raw)
  /\ main' = "loaded"
  /\ router' = InUse(file) /\ manager' = InUse(file)
  /\ UNCHANGED <<file, saving, edits, caught, watched, events, closed, stopCh, loop, armed,
                 mu, rel>>

\* NewWatcher, or its failure, after which main goes on without a watcher.
NewWatcher ==
  /\ main = "loaded"
  /\ \/ main' = "watching" /\ watched' = TRUE /\ loop' = "select"
     \/ main' = "unwatched" /\ UNCHANGED <<watched, loop>>
  /\ UNCHANGED <<file, saving, edits, caught, events, closed, stopCh, armed, mu, rel,
                 router, manager>>

Stop ==
  /\ main = "watching"
  /\ main' = "closing"
  /\ stopCh' = TRUE
  /\ UNCHANGED <<file, saving, edits, caught, watched, events, closed, loop, armed, mu, rel,
                 router, manager>>

CloseWatcher ==
  /\ main = "closing"
  /\ main' = "stopped"
  /\ closed' = TRUE /\ watched' = FALSE
  /\ UNCHANGED <<file, saving, edits, caught, events, stopCh, loop, armed, mu, rel, router,
                 manager>>

-----------------------------------------------------------------------------
(* Watcher.run *)

\* Variant: a write is ignored while a reload is at work.
HandleEventUnlessBusy ==
  /\ loop = "select" /\ events # <<>>
  /\ events' = Tail(events)
  /\ armed' = (armed \/ (Head(events) = "write" /\ \A r \in Reloaders : rel[r].pos = "none"))
  /\ UNCHANGED <<file, saving, edits, caught, main, watched, closed, stopCh, loop, mu, rel,
                 router, manager>>

\* A write stops the last timer, unless it has fired, and arms another.
HandleEvent ==
  /\ loop = "select" /\ events # <<>>
  /\ events' = Tail(events)
  /\ armed' = (armed \/ Head(events) = "write")
  /\ UNCHANGED <<file, saving, edits, caught, main, watched, closed, stopCh, loop, mu, rel,
                 router, manager>>

\* Variant: a closed channel is taken for one with an event.
RunEndsNever ==
  /\ loop = "select" /\ closed
  /\ UNCHANGED vars

\* The loop ends at a closed channel; select may take another event first.
RunEnds ==
  /\ loop = "select"
  /\ stopCh \/ (closed /\ events = <<>>)
  /\ loop' = "gone"
  /\ UNCHANGED <<file, saving, edits, caught, main, watched, events, closed, stopCh, armed,
                 mu, rel, router, manager>>

TimerFires(r) ==
  /\ armed /\ rel[r].pos = "none"
  /\ armed' = FALSE
  /\ rel' = [rel EXCEPT ![r].pos = "lock"]
  /\ UNCHANGED <<file, saving, edits, caught, main, watched, events, closed, stopCh, loop, mu,
                 router, manager>>

-----------------------------------------------------------------------------
(* Watcher.reload with main's callback, under Watcher.mu *)

Lock(r) ==
  /\ rel[r].pos = "lock" /\ mu = Nobody
  /\ mu' = r
  /\ rel' = [rel EXCEPT ![r].pos = "load"]
  /\ UNCHANGED <<file, saving, edits, caught, main, watched, events, closed, stopCh, loop,
                 armed, router, manager>>

\* Variant: the lock covers Load only.
LoadFileUnlocks(r) ==
  /\ rel[r].pos = "load"
  /\ rel' = [rel EXCEPT ![r] = IF Loads(file.raw) THEN [pos |-> "router", got |-> InUse(file)]
                               ELSE NotRunning]
  /\ mu' = Nobody
  /\ UNCHANGED <<file, saving, edits, caught, main, watched, events, closed, stopCh, loop,
                 armed, router, manager>>

LoadFile(r) ==
  /\ rel[r].pos = "load"
  /\ IF Loads(file.raw)
       THEN /\ rel' = [rel EXCEPT ![r] = [pos |-> "router", got |-> InUse(file)]]
            /\ UNCHANGED mu
       ELSE /\ rel' = [rel EXCEPT ![r] = NotRunning]
            /\ mu' = Nobody
  /\ UNCHANGED <<file, saving, edits, caught, main, watched, events, closed, stopCh, loop,
                 armed, router, manager>>

ReloadRouter(r) ==
  /\ rel[r].pos = "router"
  /\ router' = rel[r].got
  /\ rel' = [rel EXCEPT ![r].pos = "manager"]
  /\ UNCHANGED <<file, saving, edits, caught, main, watched, events, closed, stopCh, loop,
                 armed, mu, manager>>

UpdateDefaults(r) ==
  /\ rel[r].pos = "manager"
  /\ manager' = rel[r].got
  /\ rel' = [rel EXCEPT ![r] = NotRunning]
  /\ mu' = Nobody
  /\ UNCHANGED <<file, saving, edits, caught, main, watched, events, closed, stopCh, loop,
                 armed, router>>

-----------------------------------------------------------------------------
Init ==
  /\ \E raw \in Contents : file = [rev |-> 0, raw |-> raw]
  /\ saving = FALSE /\ edits = 0 /\ caught = FALSE
  /\ main = "begin" /\ watched = FALSE /\ events = <<>>
  /\ closed = FALSE /\ stopCh = FALSE /\ loop = "off" /\ armed = FALSE
  /\ mu = Nobody /\ rel = [r \in Reloaders |-> NotRunning]
  /\ router = NotRunning.got /\ manager = NotRunning.got

RunStep == HandleEvent \/ RunEnds

ReloadStep(r) ==
  TimerFires(r) \/ Lock(r) \/ LoadFile(r) \/ ReloadRouter(r) \/ UpdateDefaults(r)

Next ==
  \/ BeginSave \/ FinishSave \/ RenameOver
  \/ FirstLoad \/ NewWatcher \/ Stop \/ CloseWatcher
  \/ RunStep \/ \E r \in Reloaders : ReloadStep(r)

Spec == Init /\ [][Next]_vars

\* Events are handled, timers fire and reloads go on; nobody need edit the file or
\* stop the process.
Fairness ==
  /\ WF_vars(RunStep) /\ WF_vars(\E r \in Reloaders : TimerFires(r))
  /\ \A r \in Reloaders : SF_vars(Lock(r)) /\ WF_vars(LoadFile(r) \/ ReloadRouter(r)
                                                      \/ UpdateDefaults(r))

FairSpec == Spec /\ Fairness

-----------------------------------------------------------------------------
(* Properties *)

HalvesAgree ==
  /\ mu = Nobody => router = manager
  /\ \A r \in Reloaders : rel[r].pos \in {"load", "router", "manager"} => mu = r

\* Though the reloads of several timers overlap, a reload never puts an older revision in
\* place of a newer one, in the router or in the manager; and the two have the same
\* configuration whenever no reload is at work.  Each reload reads the file under the lock
\* with which it applies both halves of main's callback.
ReloadsInOrder ==
  [][router'.rev >= router.rev /\ manager'.rev >= manager.rev /\ HalvesAgree']_vars

Filled(cfg) == \A f \in Settings : cfg.set[f] # 0

Ordered(t, cfg) ==
  Effective(t, cfg, "min_connections") <= Effective(t, cfg, "max_connections")

\* The file leaves out one of the two default bounds (or says 0), or its maximum is below
\* zero: validate compares neither.
Uncompared(raw) == raw.set["min_connections"] = 0 \/ raw.set["max_connections"] <= 0

CompleteTenant(t, cfg, raw) ==
  /\ t.db_type \in {"postgres", "mysql"} /\ t.dbname # "" /\ t.username # ""
  /\ t.host # "" /\ ~SplitHostPort(t.host) /\ ValidPort(t.port)
  /\ EffectivePoolMode(t, cfg) \in PoolModes
  /\ \/ Ordered(t, cfg)
     \/ ("min_connections" \in DOMAIN t.over) # ("max_connections" \in DOMAIN t.over)
     \/ {"min_connections", "max_connections"} \cap DOMAIN t.over = {} /\ Uncompared(raw)

Complete(cfg, raw) ==
  /\ Filled(cfg) /\ cfg.api_bind # "" /\ \A p \in Ports : ValidPort(cfg.set[p])
  /\ cfg.set["min_connections"] <= cfg.set["max_connections"] \/ Uncompared(raw)
  /\ DOMAIN cfg.tenants = DOMAIN raw.tenants
  /\ \A id \in DOMAIN cfg.tenants :
       ValidateTenantID(id) /\ CompleteTenant(cfg.tenants[id], cfg, raw)

\* Whatever was saved, and whatever a reload read half written, the configuration in use
\* is complete: every setting has a value, and every tenant of the file it was read from
\* has a usable ID, all that a connection to its database needs and one of the two pool
\* modes.  A minimum above the maximum can only come from a bound that this file leaves
\* out, from a maximum below zero in it, or from a tenant that sets one of the two bounds.
\* (A file read half written may be empty, and then no tenant is left until the next load.)
InUseIsComplete == main # "begin" => Complete(router.cfg, router.raw)

Good == Loads(file.raw)

\* A valid file whose last change was reported is loaded, even if it was read half
\* written before, unless it changes again or the watcher is stopped.
ReportedIsLoaded == (Good /\ caught) ~> (router.rev = file.rev \/ ~caught \/ ~Good \/ stopCh)

\* After Stop the loop ends and the last timers run out: nothing is reloaded any
\* more, though a timer armed before Stop still reloads.
StopSettles ==
  stopCh ~> [](loop = "gone" /\ ~armed /\ \A r \in Reloaders : rel[r].pos = "none")

=============================================================================
