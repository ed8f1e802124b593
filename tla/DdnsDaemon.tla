---------------------------- MODULE DdnsDaemon ----------------------------
(* The DDNS daemon of wg-quick-op: the goroutine of daemon.Run, which loads *)
(* the followed interfaces and then re-resolves them pass after pass; the   *)
(* updateLoop goroutine (the loader), which retries what is pending; and    *)
(* the watcher goroutine, which turns file events of /etc/wireguard into    *)
(* changes of the two collections.  d.lock guards runIfaces and             *)
(* pendingIfaces once the goroutines run.                                   *)
EXTENDS Naturals, Sequences

CONSTANTS
  Ifaces,     \* names of interfaces: <name>.conf in /etc/wireguard
  Contents,   \* what a configuration file may hold
  Valid,      \* the contents UnmarshalText accepts
  Scannable,  \* the contents GetUnresolvedEndpoints accepts
  Lists,      \* the choices of conf.DDNS.IfaceOnly and IfaceSkip
  QueueCap,   \* file events the kernel and fsnotify hold before they overflow
  NoList, Absent, Nil, None

ASSUME ContentAssumption == /\ Valid \subseteq Contents
                            /\ Scannable \subseteq Contents
                            /\ Absent \notin Contents
                            /\ Nil \notin Contents
ASSUME LoadedAssumption == None \notin [cfg : Valid, eps : Scannable \cup {Nil}] \cup [iface : Ifaces, cfg : Valid]
ASSUME ListAssumption ==
  Lists \subseteq [only : (SUBSET Ifaces) \cup {NoList}, skip : SUBSET Ifaces]
ASSUME QueueAssumption == QueueCap \in Nat \ {0}

VARIABLES
  lists,    \* the configured lists, read when the process starts
  file,     \* file[i]: content of /etc/wireguard/i.conf, or Absent
  run,      \* runIfaces: run[i] is the loaded ddns of i, or None
  pending,  \* pendingIfaces
  lock,     \* who holds d.lock across steps: "free", "main" or "loader"
  mainPc,   \* the Run goroutine: "find", "init", "sleep" or "pass"
  watch,    \* the inotify watch: "off", "on", or "deaf" when Add failed
  events,   \* file events not yet handled, the one in hand included
  todo,     \* todo[p]: what is left of the range loop p is in
  reading,  \* the newDDNS call between its two reads of the file, or None
  loaded,   \* updateLoop's deleteList
  missed    \* history: interfaces whose latest edit left no event behind, or
            \* which the listing at start-up did not show

vars == <<lists, file, run, pending, lock, mainPc, watch, events, todo, reading,
          loaded, missed>>
collections == <<run, pending, loaded>>
environment == <<lists, file, watch, events>>

Loaded == [cfg : Valid, eps : Scannable \cup {Nil}]
Op == {"update", "remove"}
Threads == {"main", "loader"}

\* What the file of i looks like to os.ReadFile.
Exists(i) == file[i] # Absent

\* Fault: the content is kept although it could not be read.
EndpointsOf_Unchecked(c) == c

\* unresolvedEndpoints as read from content c; newDDNS only logs the error of
\* a malformed file and keeps the nil map.
EndpointsOf(c) == IF c \in Scannable THEN c ELSE Nil

\* What newDDNS returns when both its reads see content c.  A second os.ReadFile
\* that fails is only logged as well, and leaves the nil map of any content.
Yields(c) == {[cfg |-> c, eps |-> e] : e \in {EndpointsOf(c), Nil}}

\* Fault: the only list is forgotten at start-up.
FindIface_NoOnly == {i \in Ifaces : Exists(i) /\ i \notin lists.skip}

\* utils.FindIface when it can list the directory: a non-nil only list is
\* returned as it is, skip or no skip.
FindIface == IF lists.only # NoList THEN lists.only
             ELSE {i \in Ifaces : Exists(i) /\ i \notin lists.skip}

\* The filter both callbacks apply before they touch the collections.
Followed(i) == (lists.only # NoList => i \in lists.only) /\ i \notin lists.skip

----------------------------------------------------------------------------

Init ==
  /\ lists \in Lists
  /\ file \in [Ifaces -> Contents \cup {Absent}]
  /\ run = [i \in Ifaces |-> None]
  /\ pending = {}
  /\ lock = "free"
  /\ mainPc = "find"
  /\ watch = "off"
  /\ events = <<>>
  /\ todo = [p \in Threads |-> {}]
  /\ reading = None
  /\ loaded = {}
  /\ missed = {}

\* The process ends, wherever it is, and the init system starts another: all it
\* knew is gone, waiting events included.  The files are still there; the lists
\* are those of config.toml by now.
Restart ==
  /\ lists' \in Lists
  /\ run' = [i \in Ifaces |-> None]
  /\ pending' = {}
  /\ lock' = "free"
  /\ mainPc' = "find"
  /\ watch' = "off"
  /\ events' = <<>>
  /\ todo' = [p \in Threads |-> {}]
  /\ reading' = None
  /\ loaded' = {}
  /\ missed' = {}
  /\ UNCHANGED file

\* Run: list the interfaces to prepare.  Edits made before this are seen by it.
RunFind ==
  /\ mainPc = "find"
  /\ mainPc' = "init"
  /\ todo' = [todo EXCEPT !["main"] = FindIface]
  /\ missed' = {}
  /\ UNCHANGED <<environment, collections, lock, reading>>

\* Run: /etc/wireguard cannot be listed; FindIface logs it and returns nothing.
RunFindFails ==
  /\ mainPc = "find" /\ lists.only = NoList
  /\ mainPc' = "init"
  /\ todo' = [todo EXCEPT !["main"] = {}]
  /\ missed' = Ifaces
  /\ UNCHANGED <<environment, collections, lock, reading>>

\* newDDNS is called by the first loop of Run, without the lock, and by
\* updateLoop under it.
Loading(p) == IF p = "main" THEN mainPc = "init" ELSE lock = "loader"

\* newDDNS, first half, failing: GetConfig cannot read or parse the file, which
\* may be none of the file's fault.  Run puts the interface on the pending list;
\* updateLoop leaves it there.
ReadConfigFails(p, i) ==
  /\ Loading(p) /\ reading = None
  /\ i \in todo[p]
  /\ todo' = [todo EXCEPT ![p] = @ \ {i}]
  /\ pending' = pending \cup {i}
  /\ missed' = IF p = "main" THEN missed \ {i} ELSE missed
  /\ UNCHANGED <<environment, run, loaded, lock, mainPc, reading>>

\* newDDNS, first half: GetConfig reads the file and resolves its endpoints.
ReadConfig(p, i) ==
  /\ Loading(p) /\ reading = None
  /\ i \in todo[p]
  /\ file[i] \in Valid
  /\ reading' = [iface |-> i, cfg |-> file[i]]
  /\ missed' = IF p = "main" THEN missed \ {i} ELSE missed
  /\ UNCHANGED <<environment, collections, lock, mainPc, todo>>

\* Fault: the list is walked from its start after every load.
ReadEndpoints_Restart(p, i) ==
  /\ Loading(p) /\ reading # None
  /\ i = reading.iface
  /\ \E eps \in {EndpointsOf(file[i]), Nil} :
       run' = [run EXCEPT ![i] = [cfg |-> reading.cfg, eps |-> eps]]
  /\ todo' = [todo EXCEPT ![p] = IF p = "loader" THEN pending ELSE @ \ {i}]
  /\ loaded' = IF p = "loader" THEN loaded \cup {i} ELSE loaded
  /\ reading' = None
  /\ UNCHANGED <<environment, pending, lock, mainPc, missed>>

\* newDDNS, second half: GetUnresolvedEndpoints reads the file again, if it can,
\* and the result goes into runIfaces; updateLoop also notes it in deleteList.
ReadEndpoints(p, i) ==
  /\ Loading(p) /\ reading # None
  /\ i = reading.iface
  /\ \E eps \in {EndpointsOf(file[i]), Nil} :
       run' = [run EXCEPT ![i] = [cfg |-> reading.cfg, eps |-> eps]]
  /\ todo' = [todo EXCEPT ![p] = @ \ {i}]
  /\ loaded' = IF p = "loader" THEN loaded \cup {i} ELSE loaded
  /\ reading' = None
  /\ UNCHANGED <<environment, pending, lock, mainPc, missed>>

\* Run: registerWatch and go updateLoop; from here on all goroutines run.
RunStarted ==
  /\ mainPc = "init"
  /\ todo["main"] = {} /\ reading = None
  /\ mainPc' = "sleep"
  /\ UNCHANGED <<environment, collections, lock, todo, reading, missed>>

Started == mainPc \in {"sleep", "pass"}
----------------------------------------------------------------------------

\* Watch: the directory is added to the watcher some time after Run spawned
\* the goroutine.  The error of Add is dropped: the loop then waits for ever.
WatcherAdd ==
  /\ Started
  /\ watch = "off"
  /\ watch' \in {"on", "deaf"}
  /\ UNCHANGED <<lists, file, events, collections, lock, mainPc, todo, reading, missed>>

\* An event the callbacks filter out.
WatcherIgnore ==
  /\ events # <<>> /\ ~Followed(Head(events).iface)
  /\ events' = Tail(events)
  /\ UNCHANGED <<lists, file, watch, collections, lock, mainPc, todo, reading, missed>>

\* Fault: the callback does not take the lock.
UpdateCallback_NoLock ==
  /\ events # <<>> /\ Followed(Head(events).iface)
  /\ Head(events).op = "update"
  /\ pending' = pending \cup {Head(events).iface}
  /\ events' = Tail(events)
  /\ UNCHANGED <<lists, file, watch, run, loaded, lock, mainPc, todo, reading, missed>>

\* Fault: an interface that runs already is not loaded again.
UpdateCallback_OnlyNew ==
  /\ events # <<>> /\ Followed(Head(events).iface)
  /\ Head(events).op = "update"
  /\ lock = "free"
  /\ pending' = pending \cup {i \in {Head(events).iface} : run[i] = None}
  /\ events' = Tail(events)
  /\ UNCHANGED <<lists, file, watch, run, loaded, lock, mainPc, todo, reading, missed>>

\* UpdateCallback, which takes and releases the lock.
UpdateCallback ==
  /\ events # <<>> /\ Followed(Head(events).iface)
  /\ Head(events).op = "update"
  /\ lock = "free"
  /\ pending' = pending \cup {Head(events).iface}
  /\ events' = Tail(events)
  /\ UNCHANGED <<lists, file, watch, run, loaded, lock, mainPc, todo, reading, missed>>

\* Fault: the callback does not take the lock.
RemoveCallback_NoLock ==
  /\ events # <<>> /\ Followed(Head(events).iface)
  /\ Head(events).op = "remove"
  /\ run' = [run EXCEPT ![Head(events).iface] = None]
  /\ pending' = pending \ {Head(events).iface}
  /\ events' = Tail(events)
  /\ UNCHANGED <<lists, file, watch, loaded, lock, mainPc, todo, reading, missed>>

\* Fault: only pendingIfaces is cleaned up.
RemoveCallback_PendingOnly ==
  /\ events # <<>> /\ Followed(Head(events).iface)
  /\ Head(events).op = "remove"
  /\ lock = "free"
  /\ pending' = pending \ {Head(events).iface}
  /\ events' = Tail(events)
  /\ UNCHANGED <<lists, file, watch, run, loaded, lock, mainPc, todo, reading, missed>>

\* RemoveCallback, which takes and releases the lock.
RemoveCallback ==
  /\ events # <<>> /\ Followed(Head(events).iface)
  /\ Head(events).op = "remove"
  /\ lock = "free"
  /\ run' = [run EXCEPT ![Head(events).iface] = None]
  /\ pending' = pending \ {Head(events).iface}
  /\ events' = Tail(events)
  /\ UNCHANGED <<lists, file, watch, loaded, lock, mainPc, todo, reading, missed>>
----------------------------------------------------------------------------

\* updateLoop takes the lock and walks over pendingIfaces.
LoaderLock ==
  /\ Started
  /\ lock = "free"
  /\ lock' = "loader"
  /\ todo' = [todo EXCEPT !["loader"] = pending]
  /\ loaded' = {}
  /\ UNCHANGED <<environment, run, pending, mainPc, reading, missed>>

\* Fault: the whole of pendingIfaces is cleared, failed loads included.
LoaderUnlock_ClearAll ==
  /\ lock = "loader"
  /\ todo["loader"] = {} /\ reading = None
  /\ pending' = {}
  /\ loaded' = {}
  /\ lock' = "free"
  /\ UNCHANGED <<environment, run, mainPc, todo, reading, missed>>

\* updateLoop drops what it loaded from pendingIfaces and releases the lock.
LoaderUnlock ==
  /\ lock = "loader"
  /\ todo["loader"] = {} /\ reading = None
  /\ pending' = pending \ loaded
  /\ loaded' = {}
  /\ lock' = "free"
  /\ UNCHANGED <<environment, run, mainPc, todo, reading, missed>>

\* Fault: the pass does not wait for the lock.
RunLock_NoWait ==
  /\ mainPc = "sleep"
  /\ lock' = "main"
  /\ mainPc' = "pass"
  /\ todo' = [todo EXCEPT !["main"] = {i \in Ifaces : run[i] # None}]
  /\ UNCHANGED <<environment, collections, reading, missed>>

\* Run: a pass takes the lock and walks over runIfaces.
RunLock ==
  /\ mainPc = "sleep"
  /\ lock = "free"
  /\ lock' = "main"
  /\ mainPc' = "pass"
  /\ todo' = [todo EXCEPT !["main"] = {i \in Ifaces : run[i] # None}]
  /\ UNCHANGED <<environment, collections, reading, missed>>

\* Run: one interface of the pass.
PassIface(i) ==
  /\ mainPc = "pass"
  /\ i \in todo["main"]
  /\ todo' = [todo EXCEPT !["main"] = @ \ {i}]
  /\ UNCHANGED <<environment, collections, lock, mainPc, reading, missed>>

\* Run: the pass is over.
RunUnlock ==
  /\ mainPc = "pass"
  /\ todo["main"] = {}
  /\ lock' = "free"
  /\ mainPc' = "sleep"
  /\ UNCHANGED <<environment, collections, todo, reading, missed>>
----------------------------------------------------------------------------

\* The kernel queues an event when the directory is watched and the queue has
\* room; an overflow reaches watcher.Errors and is only logged.
Notify(i, op) ==
  \/ /\ watch = "on" /\ Len(events) < QueueCap
     /\ events' = Append(events, [iface |-> i, op |-> op])
     /\ missed' = missed \ {i}
  \/ /\ watch # "on" \/ Len(events) >= QueueCap
     /\ missed' = missed \cup {i}
     /\ UNCHANGED events

\* The administrator writes, creates or renames onto a configuration file.
WriteFile(i, c) ==
  /\ file' = [file EXCEPT ![i] = c]
  /\ Notify(i, "update")
  /\ UNCHANGED <<lists, watch, collections, lock, mainPc, todo, reading>>

\* The administrator removes it or renames it away.
RemoveFile(i) ==
  /\ Exists(i)
  /\ file' = [file EXCEPT ![i] = Absent]
  /\ Notify(i, "remove")
  /\ UNCHANGED <<lists, watch, collections, lock, mainPc, todo, reading>>
----------------------------------------------------------------------------

NewDdns(p) == \E i \in Ifaces : \/ ReadConfigFails(p, i)
                                \/ ReadConfig(p, i)
                                \/ ReadEndpoints(p, i)

Main == \/ RunFind \/ RunFindFails \/ NewDdns("main") \/ RunStarted
        \/ RunLock \/ (\E i \in Ifaces : PassIface(i)) \/ RunUnlock

Watcher == WatcherAdd \/ WatcherIgnore \/ UpdateCallback \/ RemoveCallback

Loader == LoaderLock \/ NewDdns("loader") \/ LoaderUnlock

Administrator == \E i \in Ifaces : RemoveFile(i) \/ \E c \in Contents : WriteFile(i, c)

Work == Main \/ Watcher \/ Loader \/ Administrator

Next == Work \/ Restart

\* No goroutine stops: the loops are endless, DNS queries and netlink calls
\* time out, and sleeps end.  Strong fairness where d.lock is taken: a Go mutex
\* hands itself over to a goroutine that has waited for more than a millisecond.
\* And where the loader reads a file: one that can be read is read at last.
Fairness == /\ WF_vars(Main) /\ SF_vars(RunLock)
            /\ WF_vars(Watcher) /\ SF_vars(UpdateCallback \/ RemoveCallback)
            /\ WF_vars(Loader) /\ SF_vars(LoaderLock)
            /\ \A i \in Ifaces : SF_vars(ReadConfig("loader", i))

Spec == Init /\ [][Next]_vars
FairSpec == Spec /\ Fairness
----------------------------------------------------------------------------

\* Type invariant of the daemon's state.
TypeOK ==
  /\ lists \in Lists
  /\ file \in [Ifaces -> Contents \cup {Absent}]
  /\ run \in [Ifaces -> Loaded \cup {None}]
  /\ pending \in SUBSET Ifaces
  /\ lock \in {"free", "main", "loader"}
  /\ mainPc \in {"find", "init", "sleep", "pass"}
  /\ watch \in {"off", "on", "deaf"}
  /\ events \in Seq([iface : Ifaces, op : Op])
  /\ Len(events) <= QueueCap
  /\ todo \in [Threads -> SUBSET Ifaces]
  /\ reading \in [iface : Ifaces, cfg : Valid] \cup {None}
  /\ loaded \in SUBSET Ifaces
  /\ missed \in SUBSET Ifaces

\* No event of i waits for its callback.
Quiet(i) == \A k \in 1..Len(events) : events[k].iface # i

\* A load of i is still to come: it is pending and not just loaded, or Run has
\* not come to it, or newDDNS is between its two reads.
Owed(i) == \/ i \in pending \ loaded
           \/ mainPc = "find"
           \/ mainPc = "init" /\ i \in todo["main"]

\* The loaded configuration is one that a load of the file as it is may yield.
Mirrors(i) == IF file[i] \in Valid THEN run[i] \in Yields(file[i])
              ELSE file[i] = Absent /\ run[i] = None

\* No edit is lost: whenever the latest edit of a followed interface produced
\* an event and that event has been handled, the daemon either holds what the
\* file says (both reads of newDDNS of the same content, unless the second could
\* not be made, and no leftover of a removed file) or still has the interface on a list it will load from.
\* Threatened by the two reads, by a load that races an edit, by the removal of
\* deleteList from pendingIfaces, and by events handled during a load.
NoLostUpdate ==
  \A i \in Ifaces :
    Followed(i) /\ i \notin missed /\ Quiet(i) =>
      Mirrors(i) \/ Owed(i)

\* A removed file does not live on: once its removal has been handled, the
\* interface is out of runIfaces, whatever load was under way when it vanished.
NoGhost ==
  \A i \in Ifaces :
    Followed(i) /\ i \notin missed /\ Quiet(i) /\ ~Exists(i) => run[i] = None

\* The maps are not changed under a loop that walks over them: runIfaces
\* during a pass (a concurrent map write is fatal in Go), pendingIfaces during
\* the loader's loop (DeleteFunc shifts the slice in place).
LoopsUndisturbed ==
  [][/\ mainPc = "pass" /\ mainPc' # "find" => run' = run
     /\ lock = "loader" /\ lock' = "loader" => pending' = pending]_vars

\* d.lock comes free: every step of the goroutine that holds it takes an interface
\* off its loop, or begins to read one, and no other step adds to the loop.  Names
\* are resolved and files read under the lock, and the callbacks wait for it.
LockComesFree ==
  [][lock # "free" /\ lock' = lock =>
       /\ todo'[lock] \subseteq todo[lock]
       /\ Main \/ Loader => todo'[lock] # todo[lock] \/ (reading = None /\ reading' # None)]_vars

\* What config-sample.toml says of the lists: if the only list is set, the skip
\* list is ignored.
Listed(i) == IF lists.only # NoList THEN i \in lists.only ELSE i \notin lists.skip

\* Nothing outside the lists is ever loaded or retried, neither by FindIface nor
\* by the callbacks, nor what an earlier process followed under other lists.  The
\* converse does not hold of the callbacks: they pass over an interface that is
\* on both lists, which is loaded at the start and whose edits are not followed
\* (daemon.go:116); NoLostUpdate and EditFollowed say nothing of it.
OnlyListed == \A i \in Ifaces : run[i] # None \/ i \in pending => Listed(i)

\* Every edit is followed, be it seen by the first load or by an event: the
\* daemon comes to run the new content, unless the file changes again, its event
\* is lost, or the process is started anew.
EditFollowed ==
  \A i \in Ifaces : \A c \in Valid :
    (Followed(i) /\ i \notin missed /\ file[i] = c)
      ~> (run[i] \in Yields(c) \/ file[i] # c \/ i \in missed \/ mainPc = "find")

\* So is a removal.
RemovalFollowed ==
  \A i \in Ifaces :
    (Followed(i) /\ i \notin missed /\ ~Exists(i))
      ~> (run[i] = None \/ Exists(i) \/ i \in missed)

\* Who may be where: nothing is watched and nobody locks before the goroutines
\* are spawned, a pass holds the lock, deleteList and a read in progress belong
\* to a loader, and a loader walks over pending interfaces it has not loaded.
Protocol ==
  /\ ~Started => lock = "free" /\ watch = "off"
  /\ watch # "on" => events = <<>>
  /\ lock = "main" <=> mainPc = "pass"
  /\ lock # "loader" => loaded = {}
  /\ lock = "loader" => todo["loader"] \subseteq pending \ loaded
  /\ reading # None => \/ mainPc = "init" /\ reading.iface \in todo["main"]
                       \/ lock = "loader" /\ reading.iface \in todo["loader"]
  /\ mainPc = "find" => \A i \in Ifaces : run[i] = None
  /\ mainPc = "init" => \A i \in todo["main"] : run[i] = None

\* The last waiting event of an interface tells whether its file exists.
TruthfulEvents ==
  \A k \in 1..Len(events) :
    LET i == events[k].iface IN
      \/ i \in missed
      \/ \E m \in k+1..Len(events) : events[m].iface = i
      \/ events[k].op = "remove" <=> ~Exists(i)

\* A configuration read but not yet stored is the file's, or an edit of the
\* file is known to the queue.
FreshRead ==
  reading # None =>
    \/ ~Followed(reading.iface)
    \/ file[reading.iface] = reading.cfg
    \/ reading.iface \in missed
    \/ ~Quiet(reading.iface)

\* The three facts that make NoLostUpdate inductive: the protocol of lock and
\* loops, the truth of the last event, and the freshness of a read in progress.
Bookkeeping == Protocol /\ TruthfulEvents /\ FreshRead

\* The promise of ConfigCache: an interface is dirty while it is not followed,
\* while its latest edit left no event, an event of it waits, or a load is owed.
\* A clean interface holds what its file says and no step of any goroutine
\* touches it: the pass, the loader and the callbacks change runIfaces only
\* where an edit asked for it.
Dirty == {i \in Ifaces : ~Followed(i) \/ i \in missed \/ ~Quiet(i) \/ Owed(i)}
Cache == INSTANCE ConfigCache WITH
           Files <- Contents \cup {Absent},
           Entries <- Loaded \cup {None},
           Faithful <- (UNION {{c} \X Yields(c) : c \in Valid}) \cup {<<Absent, None>>},
           dirty <- Dirty
ImplementsCache == Cache!Spec
============================================================================
