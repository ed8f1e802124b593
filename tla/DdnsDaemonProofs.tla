------------------------- MODULE DdnsDaemonProofs -------------------------
(* Proofs about DdnsDaemon, for any interfaces, contents, lists and queue   *)
(* capacity.                                                                *)
EXTENDS DdnsDaemon, TLAPS

Event == [iface : Ifaces, op : Op]

\* What Append does to a queue of events.
LEMMA AppendFacts ==
  ASSUME NEW s \in Seq(Event), NEW e \in Event
  PROVE  /\ Append(s, e) \in Seq(Event)
         /\ Len(Append(s, e)) = Len(s) + 1
         /\ \A k \in 1..Len(s) : Append(s, e)[k] = s[k]
         /\ Append(s, e)[Len(s) + 1] = e
OBVIOUS

\* What handling the head does to a queue of events.
LEMMA TailFacts ==
  ASSUME NEW s \in Seq(Event), s # <<>>
  PROVE  /\ Len(s) \in Nat \ {0}
         /\ Head(s) = s[1] /\ Head(s) \in Event
         /\ Tail(s) \in Seq(Event)
         /\ Len(Tail(s)) = Len(s) - 1
         /\ \A k \in 1..Len(Tail(s)) : Tail(s)[k] = s[k + 1]
OBVIOUS

\* FindIface yields interfaces, whatever the lists.
LEMMA FoundIfaces == TypeOK => FindIface \subseteq Ifaces
BY ListAssumption DEF TypeOK, FindIface

\* The lists stay what they were when the process started.
LEMMA ListsKept == [Work]_vars => UNCHANGED lists
BY DEF Work, Main, Watcher, Loader, Administrator, NewDdns, RunFind, RunFindFails,
   ReadConfigFails, ReadConfig, ReadEndpoints, RunStarted, RunLock, PassIface, RunUnlock,
   WatcherAdd, WatcherIgnore, UpdateCallback, RemoveCallback, LoaderLock, LoaderUnlock,
   WriteFile, RemoveFile, environment, vars

\* A load keeps the types.
LEMMA NewTypes == ASSUME TypeOK, NEW p \in Threads, NewDdns(p) PROVE TypeOK'
<1> PICK i \in Ifaces : ReadConfigFails(p, i) \/ ReadConfig(p, i) \/ ReadEndpoints(p, i)
  BY DEF NewDdns
<1> USE DEF TypeOK, environment, collections
<1>1. CASE ReadConfigFails(p, i) \/ ReadConfig(p, i)
  BY <1>1 DEF ReadConfigFails, ReadConfig
<1>2. CASE ReadEndpoints(p, i)
  <2>1. PICK eps \in {EndpointsOf(file[i]), Nil} :
          run' = [run EXCEPT ![i] = [cfg |-> reading.cfg, eps |-> eps]]
    BY <1>2 DEF ReadEndpoints
  <2>2. reading.cfg \in Valid /\ eps \in Scannable \cup {Nil}
    BY <1>2 DEF ReadEndpoints, EndpointsOf
  <2>3. run' \in [Ifaces -> Loaded \cup {None}]
    BY <2>1, <2>2 DEF Loaded
  <2> QED BY <1>2, <2>3 DEF ReadEndpoints
<1> QED BY <1>1, <1>2

\* The type invariant of DdnsDaemon is preserved by every step but a restart.
LEMMA TypeStep == TypeOK /\ [Work]_vars => TypeOK'
<1> SUFFICES ASSUME TypeOK, [Work]_vars PROVE TypeOK'
  OBVIOUS
<1> USE DEF TypeOK, environment, collections, Threads
<1>1. CASE Main
  <2>1. CASE RunFind \/ RunFindFails
    <3>1. todo'["main"] \subseteq Ifaces
      BY <2>1, FoundIfaces DEF RunFind, RunFindFails
    <3>2. todo' \in [Threads -> SUBSET Ifaces]
      BY <2>1, <3>1 DEF RunFind, RunFindFails
    <3> QED BY <2>1, <3>2 DEF RunFind, RunFindFails
  <2>2. CASE NewDdns("main")
    BY <2>2, NewTypes
  <2>3. CASE RunStarted
    BY <2>3 DEF RunStarted
  <2>4. CASE RunLock
    BY <2>4 DEF RunLock
  <2>5. CASE \E i \in Ifaces : PassIface(i)
    BY <2>5 DEF PassIface
  <2>6. CASE RunUnlock
    BY <2>6 DEF RunUnlock
  <2> QED BY <1>1, <2>1, <2>2, <2>3, <2>4, <2>5, <2>6 DEF Main
<1>2. CASE Watcher
  <2>0. ASSUME events # <<>>, events' = Tail(events)
        PROVE  /\ Head(events) \in Event
               /\ events' \in Seq(Event) /\ Len(events') <= QueueCap
    <3>1. events \in Seq(Event) /\ Len(events) <= QueueCap
      BY DEF Event
    <3>2. /\ Len(events) \in Nat \ {0}
          /\ Head(events) \in Event /\ Tail(events) \in Seq(Event)
          /\ Len(Tail(events)) = Len(events) - 1
      BY <3>1, <2>0, TailFacts
    <3> QED BY <3>1, <3>2, <2>0, QueueAssumption
  <2>1. CASE WatcherAdd
    BY <2>1 DEF WatcherAdd
  <2>2. CASE WatcherIgnore
    BY <2>2, <2>0 DEF WatcherIgnore, Event
  <2>3. CASE UpdateCallback
    BY <2>3, <2>0 DEF UpdateCallback, Event
  <2>4. CASE RemoveCallback
    BY <2>4, <2>0 DEF RemoveCallback, Event
  <2> QED BY <1>2, <2>1, <2>2, <2>3, <2>4 DEF Watcher
<1>3. CASE Loader
  <2>1. CASE LoaderLock
    BY <2>1 DEF LoaderLock
  <2>2. CASE NewDdns("loader")
    BY <2>2, NewTypes
  <2>3. CASE LoaderUnlock
    BY <2>3 DEF LoaderUnlock
  <2> QED BY <1>3, <2>1, <2>2, <2>3 DEF Loader
<1>4. CASE Administrator
  <2>1. ASSUME NEW i \in Ifaces, NEW op \in Op, Notify(i, op)
        PROVE  /\ events' \in Seq(Event) /\ Len(events') <= QueueCap
               /\ missed' \in SUBSET Ifaces
    <3>1. events \in Seq(Event) /\ Len(events) <= QueueCap /\ Len(events) \in Nat
      BY DEF Event
    <3>2. [iface |-> i, op |-> op] \in Event
      BY <2>1 DEF Event
    <3>3. /\ Append(events, [iface |-> i, op |-> op]) \in Seq(Event)
          /\ Len(Append(events, [iface |-> i, op |-> op])) = Len(events) + 1
      BY <3>1, <3>2, AppendFacts
    <3>4. QueueCap \in Nat
      BY QueueAssumption
    <3>5. CASE /\ Len(events) < QueueCap
               /\ events' = Append(events, [iface |-> i, op |-> op])
               /\ missed' = missed \ {i}
      <4> HIDE DEF TypeOK
      <4>1. Len(events') <= QueueCap
        BY <3>1, <3>3, <3>4, <3>5
      <4> QED BY <3>3, <3>5, <4>1 DEF TypeOK
    <3>6. CASE missed' = missed \cup {i} /\ UNCHANGED events
      BY <3>1, <3>6
    <3> QED BY <2>1, <3>5, <3>6 DEF Notify
  <2>2. ASSUME NEW i \in Ifaces, NEW c \in Contents, WriteFile(i, c) PROVE TypeOK'
    <3>1. Notify(i, "update") /\ "update" \in Op
      BY <2>2 DEF WriteFile, Op
    <3> QED BY <3>1, <2>1, <2>2 DEF WriteFile, Event
  <2>3. ASSUME NEW i \in Ifaces, RemoveFile(i) PROVE TypeOK'
    <3>1. Notify(i, "remove") /\ "remove" \in Op
      BY <2>3 DEF RemoveFile, Op
    <3> QED BY <3>1, <2>1, <2>3 DEF RemoveFile, Event
  <2> QED BY <1>4, <2>2, <2>3 DEF Administrator
<1>5. CASE UNCHANGED vars
  BY <1>5 DEF vars
<1> QED BY <1>1, <1>2, <1>3, <1>4, <1>5 DEF Work

\* A new process starts from an initial state.
LEMMA RestartInit == TypeOK /\ Restart => Init'
BY DEF TypeOK, Restart, Init

\* Type correctness of the daemon's state.
THEOREM TypeCorrect == Spec => []TypeOK
<1>1. Init => TypeOK
  BY QueueAssumption DEF Init, TypeOK, Threads
<1>2. TypeOK /\ [Next]_vars => TypeOK'
  BY <1>1, RestartInit, TypeStep, PTL DEF Next
<1> QED BY <1>1, <1>2, PTL DEF Spec
----------------------------------------------------------------------------

\* The protocol of lock and loops is preserved by every step but a restart.
LEMMA ProtocolStep == TypeOK /\ Protocol /\ [Work]_vars => Protocol'
<1> SUFFICES ASSUME TypeOK, Protocol, [Work]_vars PROVE Protocol'
  OBVIOUS
<1> USE DEF Protocol, Started, environment, collections
<1>0. /\ todo \in [Threads -> SUBSET Ifaces] /\ "main" \in Threads /\ "loader" \in Threads
      /\ run \in [Ifaces -> Loaded \cup {None}]
  BY DEF TypeOK, Threads
<1>1. CASE RunFind \/ RunFindFails
  <2>1. /\ mainPc = "find" /\ mainPc' = "init" /\ todo'["loader"] = todo["loader"]
        /\ UNCHANGED <<run, pending, loaded, watch, events, lock, reading>>
    BY <1>0, <1>1 DEF RunFind, RunFindFails
  <2>2. todo'["main"] \subseteq Ifaces
    BY <1>0, <1>1, FoundIfaces DEF RunFind, RunFindFails
  <2> QED BY <2>1, <2>2
<1>2. ASSUME NEW p \in Threads, NEW i \in Ifaces,
             ReadConfigFails(p, i) \/ ReadConfig(p, i) PROVE Protocol'
  BY <1>0, <1>2, LoadedAssumption DEF ReadConfigFails, ReadConfig, Loading, Threads, TypeOK
<1>3. ASSUME NEW p \in Threads, NEW i \in Ifaces, ReadEndpoints(p, i) PROVE Protocol'
  BY <1>0, <1>3 DEF ReadEndpoints, Loading, Threads
<1>4. CASE RunStarted
  BY <1>0, <1>4 DEF RunStarted
<1>5. CASE RunLock
  BY <1>0, <1>5 DEF RunLock
<1>6. ASSUME NEW i \in Ifaces, PassIface(i) PROVE Protocol'
  BY <1>0, <1>6 DEF PassIface
<1>7. CASE RunUnlock
  BY <1>7 DEF RunUnlock
<1>8. CASE WatcherAdd
  BY <1>8 DEF WatcherAdd
<1>9. CASE WatcherIgnore \/ UpdateCallback \/ RemoveCallback
  BY <1>9 DEF WatcherIgnore, UpdateCallback, RemoveCallback
<1>10. CASE LoaderLock
  BY <1>0, <1>10 DEF LoaderLock
<1>11. CASE LoaderUnlock
  BY <1>11 DEF LoaderUnlock
<1>12. ASSUME NEW i \in Ifaces, RemoveFile(i) \/ \E c \in Contents : WriteFile(i, c)
       PROVE Protocol'
  BY <1>12 DEF WriteFile, RemoveFile, Notify
<1>13. CASE UNCHANGED vars
  BY <1>13 DEF vars
<1> HIDE DEF Protocol, Started, environment, collections
<1>14. ASSUME NEW p \in Threads, NewDdns(p) PROVE Protocol'
  BY <1>2, <1>3, <1>14 DEF NewDdns
<1>15. CASE Main
  BY <1>0, <1>1, <1>14, <1>4, <1>5, <1>6, <1>7, <1>15 DEF Main
<1>16. CASE Watcher
  BY <1>8, <1>9, <1>16 DEF Watcher
<1>17. CASE Loader
  BY <1>0, <1>10, <1>11, <1>14, <1>17 DEF Loader
<1>18. CASE Administrator
  BY <1>12, <1>18 DEF Administrator
<1> QED BY <1>13, <1>15, <1>16, <1>17, <1>18 DEF Work
----------------------------------------------------------------------------

\* Handling the first event leaves the other interfaces' events as they were.
LEMMA Handled ==
  ASSUME TypeOK, events # <<>>, events' = Tail(events)
  PROVE  /\ Len(events) \in Nat \ {0}
         /\ Head(events) = events[1] /\ Head(events).iface \in Ifaces
         /\ Head(events).op \in Op
         /\ Len(events') = Len(events) - 1
         /\ \A k \in 1..Len(events') : events'[k] = events[k + 1]
         /\ \A i \in Ifaces : Quiet(i) => Quiet(i)'
         /\ \A i \in Ifaces : i # Head(events).iface /\ Quiet(i)' => Quiet(i)
<1>1. events \in Seq(Event)
  BY DEF TypeOK, Event
<1>2. /\ Len(events) \in Nat \ {0}
      /\ Head(events) = events[1] /\ Head(events) \in Event
      /\ Len(events') = Len(events) - 1
      /\ \A k \in 1..Len(events') : events'[k] = events[k + 1]
  BY <1>1, TailFacts
<1>3. ASSUME NEW i \in Ifaces, Quiet(i) PROVE Quiet(i)'
  BY <1>2, <1>3 DEF Quiet
<1>4. ASSUME NEW i \in Ifaces, i # Head(events).iface, Quiet(i)' PROVE Quiet(i)
  <2> SUFFICES ASSUME NEW k \in 1..Len(events) PROVE events[k].iface # i
    BY DEF Quiet
  <2>1. CASE k = 1
    BY <1>2, <1>4, <2>1
  <2>2. CASE k # 1
    <3>1. k - 1 \in 1..Len(events') /\ events'[k - 1] = events[k]
      BY <1>2, <2>2
    <3> QED BY <1>4, <3>1 DEF Quiet
  <2> QED BY <2>1, <2>2
<1> QED BY <1>2, <1>3, <1>4 DEF Event

\* An edit is known to the queue or noted as missed, and concerns its own
\* interface only.
LEMMA Noted ==
  ASSUME TypeOK, NEW i \in Ifaces, NEW op \in Op, Notify(i, op)
  PROVE  /\ i \in missed' \/ ~Quiet(i)'
         /\ \A j \in Ifaces : j # i => /\ Quiet(j)' <=> Quiet(j)
                                       /\ j \in missed' <=> j \in missed
<1> DEFINE e == [iface |-> i, op |-> op]
<1>1. events \in Seq(Event) /\ Len(events) \in Nat /\ e \in Event
  BY DEF TypeOK, Event
<1>2. CASE events' = Append(events, e) /\ missed' = missed \ {i}
  <2>1. /\ Len(events') = Len(events) + 1
        /\ \A k \in 1..Len(events) : events'[k] = events[k]
        /\ events'[Len(events) + 1] = e
    BY <1>1, <1>2, AppendFacts
  <2>2. ~Quiet(i)'
    BY <1>1, <2>1 DEF Quiet
  <2>3. ASSUME NEW j \in Ifaces, j # i PROVE Quiet(j)' <=> Quiet(j)
    BY <1>1, <2>1, <2>3 DEF Quiet
  <2> QED BY <1>2, <2>2, <2>3
<1>3. CASE events' = events /\ missed' = missed \cup {i}
  BY <1>3 DEF Quiet
<1> QED BY <1>2, <1>3 DEF Notify

\* The last waiting event of an interface stays true of its file.
LEMMA TruthStep ==
  TypeOK /\ Protocol /\ TruthfulEvents /\ [Work]_vars => TruthfulEvents'
<1> SUFFICES ASSUME TypeOK, Protocol, TruthfulEvents, [Work]_vars PROVE TruthfulEvents'
  OBVIOUS
<1>1. ASSUME UNCHANGED <<events, file, missed>> PROVE TruthfulEvents'
  BY <1>1 DEF TruthfulEvents, Exists
<1>2. ASSUME mainPc \in {"find", "init"}, UNCHANGED events PROVE TruthfulEvents'
  <2>1. events = <<>>
    BY <1>2 DEF Protocol, Started
  <2>2. Len(events') = 0
    BY <1>2, <2>1
  <2> QED BY <2>2 DEF TruthfulEvents
<1>3. ASSUME events # <<>>, events' = Tail(events), UNCHANGED <<file, missed>>
      PROVE  TruthfulEvents'
  <2> SUFFICES ASSUME NEW k \in 1..Len(events'), events'[k].iface \notin missed',
                      \A m \in k+1..Len(events') : events'[m].iface # events'[k].iface
               PROVE  events'[k].op = "remove" <=> file'[events'[k].iface] = Absent
    BY DEF TruthfulEvents, Exists
  <2>1. /\ Len(events) \in Nat \ {0} /\ Len(events') = Len(events) - 1
        /\ \A m \in 1..Len(events') : events'[m] = events[m + 1]
    BY <1>3, Handled
  <2>2. k + 1 \in 1..Len(events) /\ events'[k] = events[k + 1]
    BY <2>1
  <2>3. ASSUME NEW m \in k+2..Len(events) PROVE events[m].iface # events[k + 1].iface
    <3>1. m - 1 \in k+1..Len(events') /\ m - 1 \in 1..Len(events')
      BY <2>1, <2>3
    <3>2. events'[m - 1] = events[m]
      BY <2>1, <2>3, <3>1
    <3> QED BY <2>2, <3>1, <3>2
  <2>4. (k + 1) + 1 = k + 2
    OBVIOUS
  <2>5. events[k + 1].op = "remove" <=> ~Exists(events[k + 1].iface)
    BY <1>3, <2>2, <2>3, <2>4 DEF TruthfulEvents
  <2> QED BY <1>3, <2>2, <2>5 DEF Exists
<1>4. ASSUME NEW i \in Ifaces, NEW op \in Op, NEW f, Notify(i, op),
             file' = [file EXCEPT ![i] = f], op = "remove" <=> f = Absent
      PROVE  TruthfulEvents'
  <2> SUFFICES ASSUME NEW k \in 1..Len(events'), events'[k].iface \notin missed',
                      \A m \in k+1..Len(events') : events'[m].iface # events'[k].iface
               PROVE  events'[k].op = "remove" <=> file'[events'[k].iface] = Absent
    BY DEF TruthfulEvents, Exists
  <2> DEFINE e == [iface |-> i, op |-> op]
  <2>1. events \in Seq(Event) /\ Len(events) \in Nat /\ e \in Event
    BY DEF TypeOK, Event
  <2>2. \A j \in Ifaces : j # i => file'[j] = file[j]
    BY <1>4 DEF TypeOK
  <2>3. file'[i] = f
    BY <1>4 DEF TypeOK
  <2>4. CASE events' = Append(events, e) /\ missed' = missed \ {i}
    <3>1. /\ Len(events') = Len(events) + 1
          /\ \A m \in 1..Len(events) : events'[m] = events[m]
          /\ events'[Len(events) + 1] = e
      BY <2>1, <2>4, AppendFacts
    <3>2. CASE k = Len(events) + 1
      BY <1>4, <2>3, <3>1, <3>2 DEF Exists
    <3>3. CASE k # Len(events) + 1
      <4>1. k \in 1..Len(events) /\ events'[k] = events[k]
        BY <2>1, <3>1, <3>3
      <4>2. events[k] \in Event
        BY <2>1, <4>1
      <4>3. events[k].iface \in Ifaces /\ events[k].iface # i
        BY <2>1, <3>1, <4>1, <4>2 DEF Event
      <4>4. \A m \in k+1..Len(events) : events[m].iface # events[k].iface
        BY <2>1, <3>1, <4>1
      <4>5. events[k].iface \notin missed
        BY <2>4, <4>1, <4>3
      <4>6. events[k].op = "remove" <=> ~Exists(events[k].iface)
        BY <4>1, <4>4, <4>5 DEF TruthfulEvents
      <4> QED BY <2>2, <4>1, <4>3, <4>6 DEF Exists
    <3> QED BY <3>2, <3>3
  <2>5. CASE events' = events /\ missed' = missed \cup {i}
    <3>1. events[k] \in Event
      BY <2>1, <2>5
    <3>2. events[k].op = "remove" <=> ~Exists(events[k].iface)
      BY <2>5 DEF TruthfulEvents
    <3> QED BY <2>2, <2>5, <3>1, <3>2 DEF Exists, Event
  <2> QED BY <1>4, <2>4, <2>5 DEF Notify
<1>5. CASE Main
  <2>1. CASE RunFind \/ RunFindFails
    BY <1>2, <2>1 DEF RunFind, RunFindFails, environment
  <2>2. CASE NewDdns("main")
    BY <1>2, <2>2 DEF NewDdns, ReadConfigFails, ReadConfig, ReadEndpoints, Loading, environment
  <2>3. CASE RunStarted \/ RunLock \/ RunUnlock \/ \E i \in Ifaces : PassIface(i)
    BY <1>1, <2>3 DEF RunStarted, RunLock, RunUnlock, PassIface, environment
  <2> QED BY <1>5, <2>1, <2>2, <2>3 DEF Main
<1>6. CASE Watcher
  <2>1. CASE WatcherAdd
    BY <1>1, <2>1 DEF WatcherAdd
  <2>2. CASE WatcherIgnore \/ UpdateCallback \/ RemoveCallback
    BY <1>3, <2>2 DEF WatcherIgnore, UpdateCallback, RemoveCallback
  <2> QED BY <1>6, <2>1, <2>2 DEF Watcher
<1>7. CASE Loader
  <2>1. UNCHANGED <<events, file, missed>>
    BY <1>7 DEF Loader, LoaderLock, LoaderUnlock, NewDdns, ReadConfigFails, ReadConfig,
       ReadEndpoints, environment
  <2> QED BY <1>1, <2>1
<1>8. CASE Administrator
  <2>1. ASSUME NEW i \in Ifaces, RemoveFile(i) PROVE TruthfulEvents'
    BY <1>4, <2>1 DEF RemoveFile, Op
  <2>2. ASSUME NEW i \in Ifaces, NEW c \in Contents, WriteFile(i, c) PROVE TruthfulEvents'
    BY <1>4, <2>2, ContentAssumption DEF WriteFile, Op
  <2> QED BY <1>8, <2>1, <2>2 DEF Administrator
<1>9. CASE UNCHANGED vars
  BY <1>1, <1>9 DEF vars
<1> QED BY <1>5, <1>6, <1>7, <1>8, <1>9 DEF Work
----------------------------------------------------------------------------

\* The event handled last of an interface told the truth about its file.
LEMMA HeadTruth ==
  ASSUME TypeOK, TruthfulEvents, events # <<>>, events' = Tail(events),
         NEW i \in Ifaces, i = Head(events).iface, Quiet(i)', i \notin missed
  PROVE  Head(events).op = "remove" <=> ~Exists(i)
<1>1. /\ Len(events) \in Nat \ {0} /\ Len(events') = Len(events) - 1
      /\ Head(events) = events[1]
      /\ \A k \in 1..Len(events') : events'[k] = events[k + 1]
  BY Handled
<1>2. ASSUME NEW m \in 1 + 1..Len(events) PROVE events[m].iface # events[1].iface
  <2>1. m - 1 \in 1..Len(events') /\ events'[m - 1] = events[m]
    BY <1>1, <1>2
  <2> QED BY <1>1, <2>1 DEF Quiet
<1>3. 1 \in 1..Len(events)
  BY <1>1
<1> QED BY <1>1, <1>2, <1>3 DEF TruthfulEvents

\* A read in progress stays fresh, or its edit is known.
LEMMA FreshStep == TypeOK /\ Protocol /\ FreshRead /\ [Work]_vars => FreshRead'
<1> SUFFICES ASSUME TypeOK, Protocol, FreshRead, [Work]_vars, reading' # None
             PROVE  FreshRead'
  BY DEF FreshRead
<1> USE DEF FreshRead
<1>0. lists' = lists
  BY ListsKept
<1>1. ASSUME UNCHANGED <<events, file, missed, reading>> PROVE FreshRead'
  BY <1>0, <1>1 DEF Quiet, Followed
<1>2. reading # None => lock = "loader" \/ mainPc = "init"
  BY DEF Protocol
<1>3. ASSUME NEW p \in Threads, NewDdns(p) PROVE FreshRead'
  <2>1. PICK i \in Ifaces : ReadConfig(p, i)
    BY <1>3 DEF NewDdns, ReadConfigFails, ReadEndpoints
  <2>2. reading'.iface = i /\ reading'.cfg = file[i] /\ file' = file
    BY <2>1 DEF ReadConfig, environment
  <2> QED BY <2>2
<1>4. CASE Main
  <2>1. CASE RunFind \/ RunFindFails
    BY <2>1, <1>2 DEF RunFind, RunFindFails, Protocol, Started
  <2>2. CASE RunStarted \/ RunLock \/ RunUnlock \/ \E i \in Ifaces : PassIface(i)
    BY <1>1, <2>2 DEF RunStarted, RunLock, RunUnlock, PassIface, environment
  <2> QED BY <1>3, <1>4, <2>1, <2>2 DEF Main, Threads
<1>5. CASE Watcher
  <2>1. CASE WatcherAdd
    BY <1>1, <2>1 DEF WatcherAdd
  <2>2. CASE WatcherIgnore
    <3>1. reading # None /\ reading \in [iface : Ifaces, cfg : Valid]
      BY <2>2 DEF WatcherIgnore, TypeOK
    <3>2. reading.iface # Head(events).iface \/ ~Followed(reading.iface)
      BY <2>2 DEF WatcherIgnore
    <3>3. reading.iface # Head(events).iface /\ Quiet(reading.iface)' => Quiet(reading.iface)
      BY <2>2, <3>1, Handled DEF WatcherIgnore
    <3> QED BY <1>0, <2>2, <3>1, <3>2, <3>3 DEF WatcherIgnore, Followed
  <2>3. CASE UpdateCallback \/ RemoveCallback
    <3>1. mainPc # "init"
      BY <2>3 DEF UpdateCallback, RemoveCallback, Protocol, Started
    <3> QED BY <1>2, <2>3, <3>1 DEF UpdateCallback, RemoveCallback
  <2> QED BY <1>5, <2>1, <2>2, <2>3 DEF Watcher
<1>6. CASE Loader
  <2>1. CASE LoaderLock \/ LoaderUnlock
    BY <1>1, <2>1 DEF LoaderLock, LoaderUnlock, environment
  <2> QED BY <1>3, <1>6, <2>1 DEF Loader, Threads
<1>7. CASE Administrator
  <2>1. ASSUME NEW i \in Ifaces, NEW op \in Op, NEW f, Notify(i, op),
               file' = [file EXCEPT ![i] = f], reading' = reading
        PROVE  FreshRead'
    <3>1. reading # None /\ reading \in [iface : Ifaces, cfg : Valid]
      BY <2>1 DEF TypeOK
    <3>2. CASE reading.iface = i
      BY <2>1, <3>2, Noted
    <3>3. CASE reading.iface # i
      <4>1. file'[reading.iface] = file[reading.iface]
        BY <2>1, <3>1, <3>3 DEF TypeOK
      <4>2. /\ Quiet(reading.iface)' <=> Quiet(reading.iface)
            /\ reading.iface \in missed' <=> reading.iface \in missed
        BY <2>1, <3>1, <3>3, Noted
      <4> QED BY <1>0, <2>1, <3>1, <4>1, <4>2 DEF Followed
    <3> QED BY <3>2, <3>3
  <2>2. ASSUME NEW i \in Ifaces, RemoveFile(i) PROVE FreshRead'
    BY <2>1, <2>2 DEF RemoveFile, Op
  <2>3. ASSUME NEW i \in Ifaces, NEW c \in Contents, WriteFile(i, c) PROVE FreshRead'
    BY <2>1, <2>3 DEF WriteFile, Op
  <2> QED BY <1>7, <2>2, <2>3 DEF Administrator
<1>8. CASE UNCHANGED vars
  BY <1>1, <1>8 DEF vars
<1> QED BY <1>4, <1>5, <1>6, <1>7, <1>8 DEF Work
----------------------------------------------------------------------------

\* What NoLostUpdate and NoGhost say of one interface.
Follows(i) ==
  Followed(i) /\ i \notin missed /\ Quiet(i) =>
    /\ Mirrors(i) \/ Owed(i)
    /\ ~Exists(i) => run[i] = None

LEMMA FollowsAll == (\A i \in Ifaces : Follows(i)) <=> NoLostUpdate /\ NoGhost
BY DEF Follows, NoLostUpdate, NoGhost

\* A step that leaves the file and entry of i alone, hides no edit of it and
\* keeps what is owed preserves what is said of i.
LEMMA FollowsFrame ==
  ASSUME NEW i \in Ifaces, Follows(i), lists' = lists,
         file'[i] = file[i], run'[i] = run[i],
         Quiet(i)' => Quiet(i),
         i \in missed => i \in missed',
         Owed(i) => Owed(i)'
  PROVE  Follows(i)'
BY DEF Follows, Followed, Mirrors, Exists, Yields, EndpointsOf

\* Every interface stays followed.
LEMMA FollowsStep ==
  ASSUME TypeOK, Bookkeeping, [Work]_vars, \A i \in Ifaces : Follows(i),
         NEW i \in Ifaces
  PROVE  Follows(i)'
<1> USE DEF Bookkeeping
<1>0. lists' = lists
  BY ListsKept
<1>1. ASSUME UNCHANGED <<events, file, run, missed>>, Owed(i) => Owed(i)'
      PROVE  Follows(i)'
  BY <1>1, <1>0, FollowsFrame DEF Quiet
<1>2. CASE RunFind
  <2>1. run'[i] = None /\ file' = file
    BY <1>2 DEF RunFind, Protocol, collections, environment
  <2>2. ASSUME Followed(i), Exists(i) PROVE i \in todo'["main"]
    BY <1>2, <2>2, FoundIfaces DEF RunFind, FindIface, Followed, TypeOK, Threads
  <2>3. Exists(i) /\ Followed(i) => Owed(i)'
    BY <1>2, <2>2 DEF RunFind, Owed
  <2>4. ~Exists(i) => Mirrors(i)'
    BY <2>1, ContentAssumption DEF Exists, Mirrors
  <2> QED BY <1>0, <2>1, <2>3, <2>4 DEF Follows, Followed, Exists
<1>15. CASE RunFindFails
  BY <1>15 DEF RunFindFails, Follows
<1>3. ASSUME NEW p \in Threads, NEW j \in Ifaces, ReadConfigFails(p, j) PROVE Follows(i)'
  <2>1. /\ UNCHANGED <<file, run, events, loaded, mainPc>>
        /\ mainPc # "find"
        /\ todo' = [todo EXCEPT ![p] = @ \ {j}] /\ pending' = pending \cup {j}
        /\ j \in todo[p]
    BY <1>3 DEF ReadConfigFails, environment, Loading, Protocol, Started
  <2>2. CASE i # j
    <3>1. i \in todo["main"] => i \in todo'["main"]
      BY <2>1, <2>2 DEF TypeOK, Threads
    <3>2. Owed(i) => Owed(i)'
      BY <2>1, <3>1 DEF Owed
    <3>3. i \in missed => i \in missed'
      BY <1>3, <2>2 DEF ReadConfigFails
    <3> QED BY <2>1, <3>2, <3>3, <1>0, FollowsFrame DEF Quiet
  <2>3. CASE i = j
    <3>1. j \notin loaded
      BY <1>3, <2>1 DEF ReadConfigFails, Loading, Protocol, Started, Threads
    <3>2. Owed(i)'
      BY <2>1, <2>3, <3>1 DEF Owed
    <3>3. CASE p = "main"
      <4>1. run[i] = None
        BY <1>3, <2>1, <2>3, <3>3 DEF ReadConfigFails, Loading, Protocol
      <4> QED BY <2>1, <3>2, <4>1 DEF Follows, Exists
    <3>4. CASE p # "main"
      <4>1. missed' = missed
        BY <1>3, <3>4 DEF ReadConfigFails
      <4> QED BY <2>1, <3>2, <4>1, <1>0, FollowsFrame DEF Quiet
    <3> QED BY <3>3, <3>4
  <2> QED BY <2>2, <2>3
<1>4. ASSUME NEW p \in Threads, NEW j \in Ifaces, ReadConfig(p, j) PROVE Follows(i)'
  <2>1. UNCHANGED <<file, run, events, pending, loaded, mainPc, todo>>
    BY <1>4 DEF ReadConfig, environment, collections
  <2>2. Owed(i) => Owed(i)'
    BY <2>1 DEF Owed
  <2>3. CASE p = "main" /\ i = j
    <3>1. run[i] = None /\ Owed(i)'
      BY <1>4, <2>1, <2>3 DEF ReadConfig, Loading, Protocol, Owed
    <3> QED BY <2>1, <3>1 DEF Follows, Exists
  <2>4. CASE p # "main" \/ i # j
    <3>1. i \in missed => i \in missed'
      BY <1>4, <2>4 DEF ReadConfig
    <3> QED BY <2>1, <2>2, <3>1, <1>0, FollowsFrame DEF Quiet
  <2> QED BY <2>3, <2>4
<1>5. ASSUME NEW p \in Threads, NEW j \in Ifaces, ReadEndpoints(p, j) PROVE Follows(i)'
  <2>1. /\ UNCHANGED <<file, events, missed, pending, mainPc>>
        /\ mainPc # "find"
        /\ \E eps \in {EndpointsOf(file[j]), Nil} :
             run' = [run EXCEPT ![j] = [cfg |-> reading.cfg, eps |-> eps]]
        /\ todo' = [todo EXCEPT ![p] = @ \ {j}]
        /\ loaded' = loaded \/ loaded' = loaded \cup {j}
        /\ reading # None /\ j = reading.iface
    BY <1>5 DEF ReadEndpoints, environment, Loading, Protocol, Started
  <2>2. CASE i # j
    <3>1. run'[i] = run[i]
      BY <2>1, <2>2 DEF TypeOK
    <3>2. i \in todo["main"] => i \in todo'["main"]
      BY <2>1, <2>2 DEF TypeOK, Threads
    <3>3. Owed(i) => Owed(i)'
      BY <2>1, <2>2, <3>2 DEF Owed
    <3> QED BY <2>1, <3>1, <3>3, <1>0, FollowsFrame DEF Quiet
  <2>3. CASE i = j
    <3> SUFFICES ASSUME Followed(i), i \notin missed, Quiet(i)
                 PROVE  Mirrors(i)' /\ (~Exists(i) => run'[i] = None)
      BY <1>0, <2>1 DEF Follows, Followed, Quiet, Exists
    <3>1. file[i] = reading.cfg /\ reading.cfg \in Valid
      BY <2>1, <2>3 DEF FreshRead, TypeOK
    <3>2. run'[i] \in Yields(file[i])
      BY <2>1, <2>3, <3>1 DEF TypeOK, Yields
    <3> QED BY <2>1, <3>1, <3>2, ContentAssumption DEF Mirrors, Yields, EndpointsOf, Exists
  <2> QED BY <2>2, <2>3
<1>6. CASE RunStarted \/ RunLock \/ RunUnlock \/ \E j \in Ifaces : PassIface(j)
  <2>1. Owed(i) => Owed(i)'
    BY <1>6 DEF RunStarted, RunLock, RunUnlock, PassIface, Owed, collections
  <2> QED BY <1>1, <1>6, <2>1 DEF RunStarted, RunLock, RunUnlock, PassIface, environment,
       collections
<1>7. CASE WatcherAdd
  BY <1>1, <1>7 DEF WatcherAdd, Owed, collections
<1>8. CASE WatcherIgnore
  <2>1. ~Followed(Head(events).iface) /\ events # <<>> /\ events' = Tail(events)
    BY <1>8 DEF WatcherIgnore
  <2>2. CASE i = Head(events).iface
    BY <1>0, <2>1, <2>2 DEF Follows, Followed
  <2>3. CASE i # Head(events).iface
    <3>1. Quiet(i)' => Quiet(i)
      BY <2>1, <2>3, Handled
    <3> QED BY <1>8, <3>1, <1>0, FollowsFrame DEF WatcherIgnore, Owed, collections
  <2> QED BY <2>2, <2>3
<1>9. CASE UpdateCallback \/ RemoveCallback
  <2> DEFINE h == Head(events).iface
  <2>1. /\ events # <<>> /\ events' = Tail(events) /\ lock = "free"
        /\ UNCHANGED <<file, missed, loaded, mainPc, todo>>
    BY <1>9 DEF UpdateCallback, RemoveCallback
  <2>2. loaded = {} /\ h \in Ifaces
    BY <2>1, Handled DEF Protocol
  <2>3. CASE i # h
    <3>1. Quiet(i)' => Quiet(i)
      BY <2>1, <2>3, Handled
    <3>2. run'[i] = run[i] /\ (i \in pending <=> i \in pending')
      BY <1>9, <2>3 DEF UpdateCallback, RemoveCallback, TypeOK
    <3> QED BY <2>1, <3>1, <3>2, <1>0, FollowsFrame DEF Owed
  <2>4. CASE i = h
    <3> SUFFICES ASSUME i \notin missed, Quiet(i)'
                 PROVE  /\ Mirrors(i)' \/ Owed(i)'
                        /\ ~Exists(i) => run'[i] = None
      BY <2>1 DEF Follows, Exists
    <3>1. Head(events).op = "remove" <=> ~Exists(i)
      BY <2>1, <2>4, HeadTruth
    <3>2. CASE UpdateCallback
      BY <2>1, <2>2, <2>4, <3>1, <3>2 DEF UpdateCallback, Owed
    <3>3. CASE RemoveCallback
      BY <2>1, <2>4, <3>1, <3>3, ContentAssumption
         DEF RemoveCallback, Mirrors, Exists, TypeOK
    <3> QED BY <1>9, <3>2, <3>3
  <2> QED BY <2>3, <2>4
<1>10. CASE LoaderLock \/ LoaderUnlock
  <2>1. Owed(i) => Owed(i)'
    BY <1>10 DEF LoaderLock, LoaderUnlock, Owed, Protocol, Started, TypeOK, Threads
  <2> QED BY <1>1, <1>10, <2>1 DEF LoaderLock, LoaderUnlock, environment
<1>11. ASSUME NEW j \in Ifaces, NEW op \in Op, NEW f, Notify(j, op),
              file' = [file EXCEPT ![j] = f],
              UNCHANGED <<run, pending, loaded, mainPc, todo>>
       PROVE  Follows(i)'
  <2>1. CASE i = j
    BY <1>11, <2>1, Noted DEF Follows
  <2>2. CASE i # j
    <3>1. file'[i] = file[i] /\ (Owed(i) => Owed(i)')
      BY <1>11, <2>2 DEF TypeOK, Owed
    <3>2. (Quiet(i)' <=> Quiet(i)) /\ (i \in missed' <=> i \in missed)
      BY <1>11, <2>2, Noted
    <3> QED BY <1>11, <3>1, <3>2, <1>0, FollowsFrame
  <2> QED BY <2>1, <2>2
<1>12. CASE Administrator
  <2>1. ASSUME NEW j \in Ifaces, RemoveFile(j) PROVE Follows(i)'
    BY <1>11, <2>1 DEF RemoveFile, Op, collections
  <2>2. ASSUME NEW j \in Ifaces, NEW c \in Contents, WriteFile(j, c) PROVE Follows(i)'
    BY <1>11, <2>2 DEF WriteFile, Op, collections
  <2> QED BY <1>12, <2>1, <2>2 DEF Administrator
<1>13. CASE UNCHANGED vars
  BY <1>1, <1>13 DEF vars, Owed
<1>14. ASSUME NEW p \in Threads, NewDdns(p) PROVE Follows(i)'
  BY <1>3, <1>4, <1>5, <1>14 DEF NewDdns
<1> QED
  BY <1>2, <1>6, <1>7, <1>8, <1>9, <1>10, <1>12, <1>13, <1>14, <1>15
     DEF Work, Main, Watcher, Loader, Threads
----------------------------------------------------------------------------

\* The inductive invariant: what the checked invariants say, and the three
\* bookkeeping facts without which no callback or load could be argued about.
IInv == TypeOK /\ Bookkeeping /\ NoLostUpdate /\ NoGhost

LEMMA IInvInit == Init => IInv
<1> SUFFICES ASSUME Init PROVE IInv
  OBVIOUS
<1>1. TypeOK
  BY QueueAssumption DEF Init, TypeOK, Threads
<1>2. Bookkeeping
  BY DEF Init, Bookkeeping, Protocol, TruthfulEvents, FreshRead, Started
<1>3. NoLostUpdate /\ NoGhost
  BY DEF Init, NoLostUpdate, NoGhost, Owed
<1> QED BY <1>1, <1>2, <1>3 DEF IInv

LEMMA IInvWork == IInv /\ [Work]_vars => IInv'
<1> SUFFICES ASSUME IInv, [Work]_vars PROVE IInv'
  OBVIOUS
<1>1. TypeOK'
  BY TypeStep DEF IInv
<1>2. Bookkeeping'
  BY ProtocolStep, TruthStep, FreshStep DEF IInv, Bookkeeping
<1>3. \A i \in Ifaces : Follows(i)'
  BY FollowsAll, FollowsStep DEF IInv
<1>4. NoLostUpdate' /\ NoGhost'
  BY <1>3 DEF Follows, NoLostUpdate, NoGhost
<1> QED BY <1>1, <1>2, <1>4 DEF IInv

LEMMA IInvStep == IInv /\ [Next]_vars => IInv'
<1>1. IInv => TypeOK
  BY DEF IInv
<1> QED BY <1>1, RestartInit, IInvInit, IInvWork, PTL DEF Next

LEMMA IInvAlways == Spec => []IInv
BY IInvInit, IInvStep, PTL DEF Spec

\* The discipline of lock, loops and events on which the other results rest:
\* no two loops are at work at once, the last event of a file tells its state,
\* and what newDDNS has read is current or about to be read again.
THEOREM BookkeepingHolds == Spec => []Bookkeeping
<1>1. IInv => Bookkeeping
  BY DEF IInv
<1> QED BY <1>1, IInvAlways, PTL

\* OnlyListed, strengthened by what the loops over FindIface's result hold.
FInv == /\ TypeOK /\ OnlyListed
        /\ mainPc = "init" => \A i \in todo["main"] : Listed(i)
        /\ lock = "loader" => \A i \in todo["loader"] : Listed(i)

LEMMA FInvWork == IInv /\ FInv /\ [Work]_vars => FInv'
<1> SUFFICES ASSUME IInv, FInv, [Work]_vars PROVE FInv'
  OBVIOUS
<1>0. TypeOK'
  BY TypeStep DEF FInv
<1> USE DEF FInv, OnlyListed, collections, environment
<1>t. todo \in [Threads -> SUBSET Ifaces] /\ run \in [Ifaces -> Loaded \cup {None}]
      /\ "main" \in Threads /\ "loader" \in Threads /\ "main" # "loader"
  BY DEF TypeOK, Threads
<1>l. lists' = lists
  BY ListsKept
<1>f. ASSUME \A j \in Ifaces : run'[j] # None \/ j \in pending' => Listed(j),
             mainPc' = "init" => \A j \in todo'["main"] : Listed(j),
             lock' = "loader" => \A j \in todo'["loader"] : Listed(j)
      PROVE  FInv'
  BY <1>0, <1>l, <1>f DEF Listed
<1>1. CASE RunFind \/ RunFindFails
  <2>1. todo'["main"] \subseteq FindIface /\ todo'["loader"] = todo["loader"]
        /\ UNCHANGED <<run, pending, lock>>
    BY <1>1, <1>t DEF RunFind, RunFindFails
  <2>2. \A i \in FindIface : Listed(i)
    BY DEF FindIface, Listed
  <2>3. todo'["main"] \subseteq Ifaces
    BY <2>1, FoundIfaces
  <2>4. \A i \in todo'["main"] : Listed(i)
    BY <2>1, <2>2
  <2> QED BY <1>f, <2>1, <2>4
<1>2. ASSUME NEW p \in Threads, NewDdns(p) PROVE FInv'
  <2> PICK i \in Ifaces : ReadConfigFails(p, i) \/ ReadConfig(p, i) \/ ReadEndpoints(p, i)
    BY <1>2 DEF NewDdns
  <2>1. CASE ReadConfigFails(p, i)
    BY <1>0, <1>l, <1>t, <2>1 DEF ReadConfigFails, Loading, Listed, Threads
  <2>2. CASE ReadConfig(p, i)
    BY <1>0, <1>l, <2>2 DEF ReadConfig, Listed
  <2>3. CASE ReadEndpoints(p, i)
    <3>1. Listed(i)
      BY <2>3 DEF ReadEndpoints, IInv, Bookkeeping, Protocol
    <3>2. /\ UNCHANGED <<pending, lock, mainPc>>
          /\ \A j \in Ifaces : run'[j] # None => run[j] # None \/ j = i
          /\ \A q \in Threads : todo'[q] \subseteq todo[q]
      BY <1>t, <2>3 DEF ReadEndpoints
    <3>3. \A j \in Ifaces : run'[j] # None \/ j \in pending' => Listed(j)
      BY <3>1, <3>2
    <3>4. /\ mainPc' = "init" => \A j \in todo'["main"] : Listed(j)
          /\ lock' = "loader" => \A j \in todo'["loader"] : Listed(j)
      BY <1>t, <3>2
    <3> QED BY <1>f, <3>3, <3>4
  <2> QED BY <2>1, <2>2, <2>3
<1>3. CASE Watcher
  <2>1. /\ UNCHANGED <<todo, lock, mainPc>>
        /\ \A i \in Ifaces : run'[i] # None => run[i] # None
        /\ \A i \in Ifaces : i \in pending' => i \in pending \/ Listed(i)
    BY <1>3, <1>t DEF Followed, Listed, Watcher, WatcherAdd, WatcherIgnore, UpdateCallback, RemoveCallback
  <2>2. \A j \in Ifaces : run'[j] # None \/ j \in pending' => Listed(j)
    BY <2>1
  <2>3. /\ mainPc' = "init" => \A j \in todo'["main"] : Listed(j)
        /\ lock' = "loader" => \A j \in todo'["loader"] : Listed(j)
    BY <2>1
  <2> QED BY <1>f, <2>2, <2>3
<1>4. CASE LoaderLock \/ LoaderUnlock
  BY <1>0, <1>l, <1>4, <1>t DEF LoaderLock, LoaderUnlock, Listed, Started, TypeOK
<1>5. CASE RunStarted \/ RunLock \/ RunUnlock \/ \E i \in Ifaces : PassIface(i)
  BY <1>0, <1>l, <1>5, <1>t DEF RunStarted, RunLock, RunUnlock, PassIface, Listed
<1>6. CASE Administrator
  BY <1>0, <1>l, <1>6 DEF Administrator, WriteFile, RemoveFile, Listed
<1>7. CASE UNCHANGED vars
  BY <1>0, <1>l, <1>7 DEF vars, Listed
<1> QED BY <1>1, <1>2, <1>3, <1>4, <1>5, <1>6, <1>7 DEF Work, Main, Loader, Threads

\* Nothing outside the configured lists is ever loaded or retried, whichever
\* lists each process was started with: FindIface takes what is listed, and the
\* callbacks let nothing else through.
THEOREM ListsRespected == Spec => []OnlyListed
<1>1. Init => FInv
  <2> SUFFICES ASSUME Init PROVE FInv
    OBVIOUS
  <2>1. TypeOK
    BY QueueAssumption DEF Init, TypeOK, Threads
  <2> QED BY <2>1 DEF Init, FInv, OnlyListed
<1>2. IInv /\ FInv /\ [Next]_vars => FInv'
  <2>1. FInv => TypeOK
    BY DEF FInv
  <2> QED BY <1>1, <2>1, RestartInit, FInvWork, PTL DEF Next
<1>3. FInv => OnlyListed
  BY DEF FInv
<1> QED BY <1>1, <1>2, <1>3, IInvAlways, PTL DEF Spec

\* No edit that produced an event is lost, whatever the interleaving of loads,
\* passes, callbacks, edits and restarts.
THEOREM EditsNeverLost == Spec => []NoLostUpdate
<1>1. IInv => NoLostUpdate
  BY DEF IInv
<1> QED BY <1>1, IInvAlways, PTL

\* A removed file does not live on in runIfaces, even if it vanishes while one
\* of the goroutines loads it.
THEOREM RemovedIsGone == Spec => []NoGhost
<1>1. IInv => NoGhost
  BY DEF IInv
<1> QED BY <1>1, IInvAlways, PTL

\* No map or slice is changed under the loop that walks over it.
THEOREM LoopsAreUndisturbed == Spec => LoopsUndisturbed
<1>1. IInv /\ [Next]_vars =>
        [/\ mainPc = "pass" /\ mainPc' # "find" => run' = run
         /\ lock = "loader" /\ lock' = "loader" => pending' = pending]_vars
  <2> SUFFICES ASSUME IInv, Next
               PROVE  /\ mainPc = "pass" /\ mainPc' # "find" => run' = run
                      /\ lock = "loader" /\ lock' = "loader" => pending' = pending
    BY DEF IInv
  <2>0. /\ lock = "main" <=> mainPc = "pass"
        /\ mainPc = "init" => lock = "free"
        /\ lock = "loader" => todo["loader"] \subseteq pending
    BY DEF IInv, Bookkeeping, Protocol, Started
  <2>1. ASSUME NEW p \in Threads, NewDdns(p)
        PROVE  /\ mainPc = "pass" /\ mainPc' # "find" => run' = run
               /\ lock = "loader" => pending' = pending
    BY <2>0, <2>1 DEF NewDdns, ReadConfigFails, ReadConfig, ReadEndpoints, collections,
       Loading, Threads
  <2>2. CASE \/ RunFind \/ RunFindFails \/ RunStarted \/ RunLock \/ RunUnlock
             \/ \E i \in Ifaces : PassIface(i)
    BY <2>2 DEF RunFind, RunFindFails, RunStarted, RunLock, RunUnlock, PassIface, collections
  <2>3. CASE Watcher
    BY <2>0, <2>3 DEF Watcher, WatcherAdd, WatcherIgnore, UpdateCallback, RemoveCallback,
       collections
  <2>4. CASE LoaderLock \/ LoaderUnlock
    BY <2>4 DEF LoaderLock, LoaderUnlock
  <2>5. CASE Administrator
    BY <2>5 DEF Administrator, WriteFile, RemoveFile, collections
  <2>6. CASE Restart
    BY <2>6 DEF Restart
  <2> QED BY <2>1, <2>2, <2>3, <2>4, <2>5, <2>6 DEF Next, Work, Main, Loader, Threads
<1> QED BY <1>1, IInvAlways, PTL DEF Spec, LoopsUndisturbed

\* The goroutine that holds the lock is at work on its loop, and nobody else is
\* at work on that loop, so that the lock is released when the loop is over
\* (daemon.go:46-108 and 140-163).
THEOREM LockIsReleased == Spec => LockComesFree
<1> DEFINE Left == /\ todo'[lock] \subseteq todo[lock]
                   /\ Main \/ Loader => todo'[lock] # todo[lock] \/ (reading = None /\ reading' # None)
<1>1. IInv /\ [Next]_vars => [lock # "free" /\ lock' = lock => Left]_vars
  <2> SUFFICES ASSUME IInv, Next, lock # "free", lock' = lock
               PROVE  Left
    BY DEF IInv
  <2>0. /\ lock \in Threads
        /\ lock = "main" <=> mainPc = "pass"
        /\ lock = "loader" <=> mainPc # "pass"
        /\ mainPc \notin {"find", "init"}
        /\ todo \in [Threads -> SUBSET Ifaces]
        /\ reading # None => reading \in [iface : Ifaces, cfg : Valid] /\ reading.iface \in todo["loader"]
    BY DEF IInv, TypeOK, Bookkeeping, Protocol, Started, Threads
  <2>1. ASSUME NEW i \in Ifaces, ReadConfig("loader", i) PROVE Left
    BY <2>0, <2>1, LoadedAssumption DEF ReadConfig
  <2>2. ASSUME NEW i \in Ifaces, ReadConfigFails("loader", i) \/ ReadEndpoints("loader", i) PROVE Left
    BY <2>0, <2>2 DEF ReadConfigFails, ReadEndpoints, Loading, Threads
  <2>3. /\ ~NewDdns("main") /\ ~RunFind /\ ~RunFindFails /\ ~RunStarted
        /\ ~RunLock /\ ~LoaderLock
    BY <2>0 DEF NewDdns, ReadConfigFails, ReadConfig, ReadEndpoints, Loading, RunFind,
       RunFindFails, RunStarted, RunLock, LoaderLock
  <2>4. ASSUME NEW i \in Ifaces, PassIface(i) PROVE Left
    BY <2>0, <2>4 DEF PassIface, Threads
  <2>5. ~RunUnlock /\ ~LoaderUnlock /\ ~Restart
    BY DEF RunUnlock, LoaderUnlock, Restart
  <2>6. ASSUME Watcher \/ Administrator PROVE UNCHANGED <<todo, reading>>
    BY <2>6 DEF Watcher, WatcherAdd, WatcherIgnore, UpdateCallback, RemoveCallback,
       Administrator, WriteFile, RemoveFile
  <2>7. ASSUME Main \/ Loader PROVE Left
    BY <2>1, <2>2, <2>3, <2>4, <2>5, <2>7 DEF Main, Loader, NewDdns
  <2> QED BY <2>5, <2>6, <2>7 DEF Next, Work
<1> QED BY <1>1, IInvAlways, PTL DEF Spec, LockComesFree
----------------------------------------------------------------------------

\* What Mirrors says of an interface is what ConfigCache calls exact.
LEMMA MirrorsIsExact == ASSUME NEW i \in Ifaces, Mirrors(i) PROVE Cache!Exact(i)
<1>1. CASE file[i] \in Valid
  <2>1. <<file[i], run[i]>> \in {file[i]} \X Yields(file[i])
    BY <1>1 DEF Mirrors
  <2>2. {file[i]} \X Yields(file[i]) \in {{c} \X Yields(c) : c \in Valid}
    BY <1>1
  <2>3. <<file[i], run[i]>> \in UNION {{c} \X Yields(c) : c \in Valid}
    BY <2>1, <2>2
  <2> QED BY <2>3 DEF Cache!Exact
<1>2. CASE file[i] \notin Valid
  <2>1. file[i] = Absent /\ run[i] = None
    BY <1>2 DEF Mirrors
  <2> QED BY <2>1 DEF Cache!Exact
<1> QED BY <1>1, <1>2

LEMMA MirrorsAll == \A i \in Ifaces : Mirrors(i) => Cache!Exact(i)
BY MirrorsIsExact

LEMMA MirrorsPrime == (\A i \in Ifaces : Mirrors(i) => Cache!Exact(i))'
BY MirrorsAll, PTL

\* A step that keeps files and entries and makes no interface dirty confirms
\* entries of the cache, none of them in the case of a stutter.
LEMMA ConfirmStep ==
  ASSUME IInv', UNCHANGED <<file, run>>, Dirty' \subseteq Dirty
  PROVE  Cache!Next
<1> DEFINE S == Dirty \ Dirty'
<1>1. ASSUME NEW i \in S PROVE Cache!Exact(i)
  <2>1. i \in Ifaces /\ i \notin Dirty'
    BY DEF Dirty
  <2>2. Follows(i)'
    BY <2>1 DEF IInv, Follows, NoLostUpdate, NoGhost
  <2>3. Mirrors(i)'
    BY <2>1, <2>2 DEF Dirty, Follows
  <2> QED BY <2>1, <2>3, MirrorsPrime DEF Cache!Exact
<1>2. Cache!Confirm(S)
  BY <1>1 DEF Cache!Confirm
<1> QED BY <1>2 DEF Cache!Next

\* A step that replaces the entry of one dirty interface refreshes or settles it.
LEMMA ReplaceStep ==
  ASSUME IInv', NEW i \in Dirty, NEW e \in Loaded \cup {None},
         run' = [run EXCEPT ![i] = e], TypeOK, file' = file,
         \A j \in Ifaces \ {i} : j \in Dirty' <=> j \in Dirty
  PROVE  Cache!Next
<1>1. i \in Ifaces /\ run'[i] = e
  BY DEF Dirty, TypeOK
<1>2. CASE i \in Dirty'
  <2>1. Dirty' = Dirty
    BY <1>2 DEF Dirty
  <2> QED BY <1>1, <2>1 DEF Cache!Next, Cache!Refresh
<1>3. CASE i \notin Dirty'
  <2>1. Dirty' = Dirty \ {i}
    BY <1>3 DEF Dirty
  <2>2. Follows(i)'
    BY <1>1 DEF IInv, Follows, NoLostUpdate, NoGhost
  <2>3. Mirrors(i)'
    BY <1>1, <1>3, <2>2 DEF Dirty, Follows
  <2>4. Cache!Exact(i)'
    BY <1>1, <2>3, MirrorsPrime
  <2>5. Cache!Settle(i, e)
    BY <1>1, <2>1, <2>4 DEF Cache!Settle, Cache!Exact
  <2> QED BY <1>1, <2>5 DEF Cache!Next
<1> QED BY <1>2, <1>3

\* An edit makes its interface dirty and no other.
LEMMA EditStep ==
  ASSUME TypeOK, lists' = lists, NEW i \in Ifaces, NEW op \in Op, NEW f \in Contents \cup {Absent},
         Notify(i, op), file' = [file EXCEPT ![i] = f],
         UNCHANGED <<run, pending, loaded, mainPc, todo>>
  PROVE  Cache!Next
<1>1. i \in Dirty'
  BY Noted DEF Dirty
<1>2. ASSUME NEW j \in Ifaces, j # i PROVE j \in Dirty' <=> j \in Dirty
  BY <1>2, Noted DEF Dirty, Owed, Followed
<1>3. Dirty' = Dirty \cup {i}
  BY <1>1, <1>2 DEF Dirty
<1>4. Cache!Edit(i, f)
  BY <1>3 DEF Cache!Edit
<1> QED BY <1>4 DEF Cache!Next

\* Every step of a goroutine is a step of the cache or leaves it alone.
LEMMA CacheWork == IInv /\ IInv' /\ [Work]_vars => [Cache!Next]_<<file, run, Dirty>>
<1> SUFFICES ASSUME IInv, IInv', [Work]_vars
             PROVE  Cache!Next \/ UNCHANGED <<file, run, Dirty>>
  OBVIOUS
<1>0. TypeOK /\ Protocol /\ lists' = lists
  BY ListsKept DEF IInv, Bookkeeping
<1>1. ASSUME UNCHANGED <<file, run, missed, events>>,
             \A i \in Ifaces : Owed(i)' => Owed(i)
      PROVE  Cache!Next
  <2>1. Dirty' \subseteq Dirty
    BY <1>0, <1>1 DEF Dirty, Quiet, Followed
  <2> QED BY <1>1, <2>1, ConfirmStep
<1>2. CASE RunFind \/ RunFindFails
  <2>1. Dirty = Ifaces
    BY <1>2 DEF RunFind, RunFindFails, Dirty, Owed
  <2>2. Dirty' \subseteq Ifaces
    BY DEF Dirty
  <2> QED BY <1>2, <2>1, <2>2, ConfirmStep DEF RunFind, RunFindFails, environment, collections
<1>3. ASSUME NEW p \in Threads, NEW j \in Ifaces, ReadConfigFails(p, j) PROVE Cache!Next
  <2>1. Owed(j) /\ mainPc # "find"
    BY <1>0, <1>3 DEF ReadConfigFails, Loading, Protocol, Owed, Threads, Started
  <2>2. ASSUME NEW i \in Ifaces, i \notin Dirty PROVE i \notin Dirty'
    <3>1. i # j
      BY <2>1, <2>2 DEF Dirty
    <3>2. Owed(i)' => Owed(i)
      BY <1>0, <1>3, <3>1 DEF ReadConfigFails, Owed, environment, TypeOK, Threads
    <3> QED BY <1>0, <1>3, <2>2, <3>2 DEF Dirty, ReadConfigFails, environment, Quiet, Followed
  <2>3. Dirty' \subseteq Dirty
    BY <2>2 DEF Dirty
  <2> QED BY <1>3, <2>3, ConfirmStep DEF ReadConfigFails, environment
<1>4. ASSUME NEW p \in Threads, NEW j \in Ifaces, ReadConfig(p, j) PROVE Cache!Next
  <2>1. Dirty' \subseteq Dirty
    BY <1>4 DEF ReadConfig, environment, collections, Dirty, Owed, Quiet, Followed
  <2> QED BY <1>4, <2>1, ConfirmStep DEF ReadConfig, environment, collections
<1>5. ASSUME NEW p \in Threads, NEW j \in Ifaces, ReadEndpoints(p, j) PROVE Cache!Next
  <2> PICK eps \in {EndpointsOf(file[j]), Nil} :
          run' = [run EXCEPT ![j] = [cfg |-> reading.cfg, eps |-> eps]]
    BY <1>5 DEF ReadEndpoints
  <2> DEFINE e == [cfg |-> reading.cfg, eps |-> eps]
  <2>1. Owed(j)
    BY <1>0, <1>5 DEF ReadEndpoints, Loading, Protocol, Owed, Threads, Started
  <2>2. e \in Loaded
    BY <1>0, <1>5 DEF ReadEndpoints, TypeOK, Loaded, EndpointsOf
  <2>3. ASSUME NEW i \in Ifaces \ {j} PROVE i \in Dirty' <=> i \in Dirty
    BY <1>0, <1>5, <2>3 DEF ReadEndpoints, environment, Dirty, Owed, Quiet, Followed,
       TypeOK, Threads
  <2>4. j \in Dirty
    BY <2>1 DEF Dirty
  <2> QED BY <1>0, <1>5, <2>2, <2>3, <2>4, ReplaceStep DEF ReadEndpoints, environment
<1>6. CASE RunStarted \/ RunLock \/ RunUnlock \/ \E j \in Ifaces : PassIface(j)
  BY <1>1, <1>6 DEF RunStarted, RunLock, RunUnlock, PassIface, Owed, collections, environment
<1>7. CASE WatcherAdd
  BY <1>1, <1>7 DEF WatcherAdd, Owed, collections
<1>8. CASE WatcherIgnore \/ UpdateCallback
  <2> DEFINE h == Head(events).iface
  <2>1. /\ events # <<>> /\ events' = Tail(events)
        /\ UNCHANGED <<file, run, missed, loaded, mainPc, todo>>
        /\ pending' \subseteq pending \cup {h}
    BY <1>8 DEF WatcherIgnore, UpdateCallback, collections
  <2>2. ~Quiet(h)
    BY <1>0, <2>1, Handled DEF Quiet
  <2>3. \A i \in Ifaces : Quiet(i) => Quiet(i)' /\ i # h
    BY <1>0, <2>1, <2>2, Handled
  <2>4. Dirty' \subseteq Dirty
    BY <1>0, <2>1, <2>3 DEF Dirty, Owed, Followed
  <2> QED BY <2>1, <2>4, ConfirmStep
<1>9. CASE RemoveCallback
  <2> DEFINE h == Head(events).iface
  <2>1. /\ events # <<>> /\ events' = Tail(events)
        /\ UNCHANGED <<file, missed, loaded, mainPc, todo>>
        /\ pending' = pending \ {h} /\ run' = [run EXCEPT ![h] = None]
    BY <1>9 DEF RemoveCallback
  <2>2. h \in Ifaces /\ ~Quiet(h)
    BY <1>0, <2>1, Handled DEF Quiet
  <2>3. \A i \in Ifaces \ {h} : Quiet(i) <=> Quiet(i)'
    BY <1>0, <2>1, Handled
  <2>4. \A i \in Ifaces \ {h} : i \in Dirty' <=> i \in Dirty
    BY <1>0, <2>1, <2>3 DEF Dirty, Owed, Followed
  <2>5. h \in Dirty
    BY <2>2 DEF Dirty
  <2> QED BY <1>0, <2>1, <2>4, <2>5, ReplaceStep
<1>10. CASE LoaderLock \/ LoaderUnlock
  <2>1. \A i \in Ifaces : Owed(i)' => Owed(i)
    BY <1>0, <1>10 DEF LoaderLock, LoaderUnlock, Owed, Protocol, Started, TypeOK, Threads
  <2> QED BY <1>1, <1>10, <2>1 DEF LoaderLock, LoaderUnlock, environment
<1>11. CASE Administrator
  <2>1. ASSUME NEW j \in Ifaces, RemoveFile(j) PROVE Cache!Next
    BY <1>0, <2>1, EditStep DEF RemoveFile, Op, collections
  <2>2. ASSUME NEW j \in Ifaces, NEW c \in Contents, WriteFile(j, c) PROVE Cache!Next
    BY <1>0, <2>2, EditStep DEF WriteFile, Op, collections
  <2> QED BY <1>11, <2>1, <2>2 DEF Administrator
<1>12. CASE UNCHANGED vars
  BY <1>12 DEF vars, Dirty, Quiet, Owed, Followed
<1>13. ASSUME NEW p \in Threads, NewDdns(p) PROVE Cache!Next
  BY <1>3, <1>4, <1>5, <1>13 DEF NewDdns
<1> QED
  BY <1>2, <1>6, <1>7, <1>8, <1>9, <1>10, <1>11, <1>12, <1>13
     DEF Work, Main, Watcher, Loader, Threads

\* A new process starts with an empty cache.
LEMMA CacheStep == IInv /\ IInv' /\ [Next]_vars => [Cache!Next]_<<file, run, Dirty>>
<1> SUFFICES ASSUME IInv, IInv', Restart PROVE Cache!Lose
  BY CacheWork DEF Next, Cache!Next
<1> QED BY DEF Restart, Cache!Lose, Dirty, Owed

\* The daemon implements the cache of configuration files: entries are exact
\* unless an edit is still to be followed, and only then are they touched.
THEOREM DaemonImplementsCache == Spec => ImplementsCache
<1>1. Init => Cache!Init
  BY DEF Init, Cache!Init, Dirty, Owed
<1>2. IInv /\ IInv' /\ [Next]_vars => [Cache!Next]_(Cache!cvars)
  BY CacheStep DEF Cache!cvars
<1> QED BY <1>1, <1>2, IInvAlways, PTL DEF Spec, ImplementsCache, Cache!Spec
============================================================================
