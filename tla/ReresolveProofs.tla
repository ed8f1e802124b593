--------------------------- MODULE ReresolveProofs ---------------------------
(* Theorems about Reresolve: two passes suffice, healthy devices are left   *)
(* alone, and peers without an Endpoint keep the one they called from, for  *)
(* any set of peers, addresses and ports.                                   *)
EXTENDS Reresolve, TLAPS

\* Every step keeps the types.
LEMMA TypeStep == TypeOK /\ [Next]_vars => TypeOK'
<1> SUFFICES ASSUME TypeOK, [Next]_vars PROVE TypeOK'
  OBVIOUS
<1> USE PeerAssumption, PortAssumption, AddrAssumption
    DEF TypeOK, Endpoint, Snapshots, MaxTries, deviceVars, passVars, history
<1>1. CASE PassBegin
  BY <1>1 DEF PassBegin
<1>2. ASSUME NEW p \in Peers, SkipPeer(p) PROVE TypeOK'
  BY <1>2 DEF SkipPeer
<1>3. ASSUME NEW p \in Peers, RefreshPeer(p) PROVE TypeOK'
  <2>1. /\ cfgEp' \in [Peers -> Endpoint] /\ got' \in [Peers -> Endpoint]
    BY <1>3 DEF RefreshPeer, Update
  <2>2. tries' \in [Peers -> 0..MaxTries]
    BY <1>3 DEF RefreshPeer
  <2> QED BY <1>3, <2>1, <2>2 DEF RefreshPeer
<1>4. ASSUME NEW p \in Peers, RefreshFails(p) PROVE TypeOK'
  BY <1>4 DEF RefreshFails
<1>5. CASE NothingToDo
  BY <1>5 DEF NothingToDo, Return, NoSnap
<1>6. CASE Push
  <2>1. devEp' \in [Peers -> Endpoint]
    BY <1>6 DEF Push, Configured
  <2>2. tries' \in [Peers -> 0..MaxTries]
    BY <1>6 DEF Push
  <2>3. port' \in Ports
    BY <1>6 DEF Push, BoundPorts
  <2> QED BY <1>6, <2>1, <2>2, <2>3 DEF Push, Return, NoSnap
<1>7. CASE PushFails
  BY <1>7 DEF PushFails, Return, NoSnap
<1>8. CASE Reload
  BY <1>8 DEF Reload, ParsedEndpoints
<1>9. CASE BringUp \/ Sync
  <2>1. devEp' \in [Peers -> Endpoint] /\ tries' \in [Peers -> 0..MaxTries]
    BY <1>9 DEF BringUp, Sync, ParsedEndpoints
  <2>2. port' \in Ports
    BY <1>9 DEF BringUp, Sync, BoundPorts
  <2> QED BY <1>9, <2>1, <2>2 DEF BringUp, Sync
<1>10. CASE TakeDown
  <2>1. devEp' \in [Peers -> Endpoint] /\ tries' \in [Peers -> 0..MaxTries]
    BY <1>10 DEF TakeDown
  <2>2. fresh' \in [Peers -> BOOLEAN]
    BY <1>10 DEF TakeDown
  <2>3. link' = FALSE /\ port' = 0
    BY <1>10 DEF TakeDown
  <2> QED BY <1>10, <2>1, <2>2, <2>3 DEF TakeDown
<1>11. ASSUME NEW p \in Peers, Age(p) PROVE TypeOK'
  BY <1>11 DEF Age
<1>12. ASSUME NEW p \in Peers, NEW a \in Addrs, Roam(p, a) PROVE TypeOK'
  BY <1>12 DEF Roam
<1>13. ASSUME NEW p \in Peers, NEW a \in Endpoint, DnsChange(p, a) PROVE TypeOK'
  BY <1>13 DEF DnsChange
<1>14. CASE UNCHANGED vars
  BY <1>14 DEF vars
<1> QED BY <1>1, <1>2, <1>3, <1>4, <1>5, <1>6, <1>7, <1>8, <1>9, <1>10, <1>11, <1>12,
           <1>13, <1>14 DEF Next, Pass, Surroundings

LEMMA TypeInit == Init => TypeOK
<1> SUFFICES ASSUME Init PROVE TypeOK
  OBVIOUS
<1> USE DEF Init, Endpoint
<1>1. dns \in [Peers -> Endpoint] /\ cfgEp \in [Peers -> Endpoint]
  BY DEF ParsedEndpoints
<1>2. devEp \in [Peers -> Endpoint] /\ got \in [Peers -> Endpoint]
  OBVIOUS
<1>3. fresh \in [Peers -> BOOLEAN] /\ tries \in [Peers -> 0..MaxTries]
  BY DEF MaxTries
<1>4. snap \in Snapshots
  BY DEF Snapshots, NoSnap
<1>5. link = FALSE /\ port = 0 /\ pc = "idle" /\ unlink = FALSE /\ todo = {} /\ asked = {}
  OBVIOUS
<1> QED BY <1>1, <1>2, <1>3, <1>4, <1>5 DEF TypeOK

\* The state of a pass over an interface keeps its type.
THEOREM TypeCorrect == Spec => []TypeOK
BY TypeInit, TypeStep, PTL DEF Spec
----------------------------------------------------------------------------

\* What the passes know of peer p.  Once a pass has found p's address, the
\* configuration holds that address, or none, or at least nothing the device
\* does not have as well, so that the next pass sees the difference.  After two
\* passes the device has it.  Inside a pass the snapshot of a peer that nothing
\* has happened to is current, and a peer that has been asked for is either
\* corrected in the configuration or was right on the device.
Known(p) ==
  /\ tries[p] # 0 => cfgEp[p] \in {got[p], Nil} \/ devEp[p] = cfgEp[p]
  /\ tries[p] = 2 => devEp[p] = got[p]
  /\ pc = "peers" /\ tries[p] # 0 => snap.ep[p] = devEp[p]
  /\ pc = "peers" /\ p \in asked =>
       got[p] # Nil /\ (cfgEp[p] = got[p] \/ snap.ep[p] = got[p])

SInv == TypeOK /\ \A p \in Tracked : Known(p)

\* A step that leaves all that concerns p alone leaves Known(p) alone.
LEMMA KnownFrame ==
  ASSUME NEW p \in Tracked, Known(p),
         UNCHANGED <<tries, got, pc>>, cfgEp'[p] = cfgEp[p], devEp'[p] = devEp[p],
         snap'.ep[p] = snap.ep[p], p \in asked' => p \in asked
  PROVE  Known(p)'
BY DEF Known

\* Where nothing is known yet, outside of a pass, there is nothing to break.
LEMMA KnownReset ==
  ASSUME NEW p \in Tracked, tries'[p] = 0,
         pc' = "peers" /\ p \in asked' =>
           got'[p] # Nil /\ (cfgEp'[p] = got'[p] \/ snap'.ep[p] = got'[p])
  PROVE  Known(p)'
BY DEF Known

LEMMA KnownStep ==
  ASSUME SInv, [Next]_vars, NEW p \in Tracked
  PROVE  Known(p)'
<1> USE DEF SInv, TypeOK, deviceVars, passVars, history
<1> p \in Peers /\ Known(p)
  BY PeerAssumption
<1>1. CASE PassBegin
  <2>1. UNCHANGED <<tries, got, cfgEp, devEp>> /\ asked' = {} /\ snap'.ep[p] = devEp[p]
    BY <1>1 DEF PassBegin
  <2> QED BY <2>1 DEF Known
<1>2. ASSUME NEW q \in Peers, SkipPeer(q) \/ RefreshFails(q) \/ Age(q) PROVE Known(p)'
  BY <1>2, KnownFrame DEF SkipPeer, RefreshFails, Age
<1>3. ASSUME NEW q \in Peers, RefreshPeer(q) PROVE Known(p)'
  <2>0. /\ pc = "peers" /\ dns[q] # Nil /\ UNCHANGED <<devEp, pc, snap>>
        /\ cfgEp' = Update(q) /\ asked' = asked \cup {q}
        /\ got' = [got EXCEPT ![q] = dns[q]]
        /\ tries' = IF got[q] = dns[q] THEN tries ELSE [tries EXCEPT ![q] = 0]
    BY <1>3 DEF RefreshPeer
  <2>1. CASE q # p
    <3>1. /\ cfgEp'[p] = cfgEp[p] /\ got'[p] = got[p] /\ tries'[p] = tries[p]
          /\ p \in asked' => p \in asked
      BY <2>0, <2>1 DEF Update
    <3> QED BY <2>0, <3>1 DEF Known
  <2>2. CASE q = p
    <3>1. got'[p] = dns[p] /\ (cfgEp'[p] = dns[p] \/ (cfgEp'[p] = cfgEp[p] /\ snap.ep[p] = dns[p]))
      BY <2>0, <2>2 DEF Update
    <3>2. CASE got[p] = dns[p]
      BY <2>0, <2>2, <3>1, <3>2 DEF Known
    <3>3. CASE got[p] # dns[p]
      <4>1. tries'[p] = 0
        BY <2>0, <2>2, <3>3
      <4> QED BY <2>0, <2>2, <3>1, <4>1, KnownReset
    <3> QED BY <3>2, <3>3
  <2> QED BY <2>1, <2>2
<1>4. CASE NothingToDo \/ PushFails
  BY <1>4 DEF NothingToDo, PushFails, Return, Known
<1>5. CASE Push
  <2>0. /\ pc = "peers" /\ pc' = "idle" /\ UNCHANGED <<cfgEp, got>>
        /\ devEp'[p] = IF cfgEp[p] = Nil THEN devEp[p] ELSE cfgEp[p]
        /\ tries'[p] = IF p \in asked /\ tries[p] < MaxTries THEN tries[p] + 1 ELSE tries[p]
    BY <1>5 DEF Push, Return, Configured
  <2>1. cfgEp[p] = Nil \/ devEp'[p] = cfgEp'[p]
    BY <2>0
  <2>2. ASSUME tries'[p] = 2 PROVE devEp'[p] = got'[p]
    <3>1. tries[p] = 2 \/ (tries[p] = 1 /\ p \in asked)
      BY <2>0, <2>2 DEF MaxTries
    <3> QED BY <2>0, <3>1 DEF Known
  <2> QED BY <2>0, <2>1, <2>2 DEF Known
<1>6. CASE Reload
  <2>1. tries'[p] = 0 /\ pc' = "idle"
    BY <1>6 DEF Reload
  <2> QED BY <2>1, KnownReset
<1>7. CASE BringUp \/ Sync \/ TakeDown
  <2>1. tries'[p] = 0 /\ UNCHANGED <<pc, snap, asked, cfgEp, got>>
    BY <1>7 DEF BringUp, Sync, TakeDown
  <2> QED BY <2>1, KnownReset DEF Known
<1>8. ASSUME NEW q \in Peers, NEW a \in Addrs, Roam(q, a) PROVE Known(p)'
  <2>0. /\ UNCHANGED <<pc, snap, asked, cfgEp, got>>
        /\ devEp' = [devEp EXCEPT ![q] = a] /\ tries' = [tries EXCEPT ![q] = 0]
    BY <1>8 DEF Roam
  <2>1. CASE q # p
    BY <2>0, <2>1 DEF Known
  <2>2. CASE q = p
    BY <2>0, <2>2, KnownReset DEF Known
  <2> QED BY <2>1, <2>2
<1>9. ASSUME NEW q \in Peers, NEW a \in Endpoint, DnsChange(q, a) PROVE Known(p)'
  BY <1>9, KnownFrame DEF DnsChange
<1>10. CASE UNCHANGED vars
  BY <1>10, KnownFrame DEF vars
<1> QED BY <1>1, <1>2, <1>3, <1>4, <1>5, <1>6, <1>7, <1>8, <1>9, <1>10
        DEF Next, Pass, Surroundings

\* Two passes in a row that find the same address of a silent peer, undisturbed,
\* leave the device with that address.
THEOREM TwoPassesSuffice == Spec => []SecondPassApplies
<1>1. Init => SInv
  <2> SUFFICES ASSUME Init PROVE SInv
    OBVIOUS
  <2>1. \A p \in Tracked : tries[p] = 0 /\ pc = "idle"
    BY PeerAssumption DEF Init
  <2> QED BY <2>1, TypeInit DEF SInv, Known
<1>2. SInv /\ [Next]_vars => SInv'
  BY TypeStep, KnownStep DEF SInv
<1>3. SInv => SecondPassApplies
  BY DEF SInv, Known, SecondPassApplies
<1> QED BY <1>1, <1>2, <1>3, PTL DEF Spec
----------------------------------------------------------------------------

\* What a pass has learnt so far: it only wants the device configured for a
\* tracked peer that was silent, and iface.cfg has no endpoint for a peer whose
\* section has none.
PassInv ==
  /\ pc = "peers" /\ unlink => \E p \in Tracked : ~snap.fresh[p]
  /\ \A p \in Peers \ Named : cfgEp[p] = Nil /\ dns[p] = Nil

PInv == TypeOK /\ PassInv

LEMMA PassInvInit == Init => PInv
<1> SUFFICES ASSUME Init PROVE PInv
  OBVIOUS
<1>1. pc = "idle"
  BY DEF Init
<1>2. \A p \in Peers \ Named : cfgEp[p] = Nil /\ dns[p] = Nil
  BY DEF Init, ParsedEndpoints
<1> QED BY <1>1, <1>2, TypeInit DEF PInv, PassInv

LEMMA PassInvStep == PInv /\ [Next]_vars => PInv'
<1> SUFFICES ASSUME PInv, [Next]_vars PROVE PassInv'
  BY TypeStep DEF PInv
<1> USE PeerAssumption DEF PInv, PassInv, TypeOK, deviceVars, passVars, history
<1>1. CASE PassBegin
  BY <1>1 DEF PassBegin
<1>2. ASSUME NEW p \in Peers, SkipPeer(p) PROVE PassInv'
  BY <1>2 DEF SkipPeer
<1>3. ASSUME NEW p \in Peers, RefreshPeer(p) PROVE PassInv'
  <2>1. p \in Tracked /\ ~snap.fresh[p] /\ snap' = snap
    BY <1>3 DEF RefreshPeer
  <2>2. \A q \in Peers \ Named : cfgEp'[q] = cfgEp[q] /\ dns'[q] = dns[q]
    BY <1>3, <2>1 DEF RefreshPeer, Update
  <2> QED BY <2>1, <2>2
<1>4. ASSUME NEW p \in Peers, RefreshFails(p) PROVE PassInv'
  BY <1>4 DEF RefreshFails
<1>5. CASE NothingToDo \/ Push \/ PushFails
  BY <1>5 DEF NothingToDo, Push, PushFails, Return
<1>6. CASE Reload
  BY <1>6 DEF Reload, ParsedEndpoints
<1>7. CASE BringUp \/ Sync \/ TakeDown
  BY <1>7 DEF BringUp, Sync, TakeDown
<1>8. ASSUME NEW p \in Peers, NEW a \in Addrs, Roam(p, a) PROVE PassInv'
  BY <1>8 DEF Roam
<1>9. ASSUME NEW p \in Peers, NEW a \in Endpoint, DnsChange(p, a) \/ Age(p) PROVE PassInv'
  BY <1>9 DEF DnsChange, Age
<1>10. CASE UNCHANGED vars
  BY <1>10 DEF vars
<1> QED BY <1>1, <1>2, <1>3, <1>4, <1>5, <1>6, <1>7, <1>8, <1>9, <1>10
        DEF Next, Pass, Surroundings, Endpoint

\* Only Push configures the device at the end of a pass.
LEMMA PassEnd ==
  ASSUME TypeOK, [Next]_vars, pc = "peers", pc' = "idle"
  PROVE  Push \/ UNCHANGED deviceVars
BY DEF Next, Pass, Surroundings, PassBegin, SkipPeer, RefreshPeer, RefreshFails, NothingToDo,
       PushFails, Reload, BringUp, Sync, TakeDown, Age, Roam, DnsChange, passVars, vars

\* A pass at whose snapshot every tracked peer was well changes neither an
\* endpoint nor the listen port of the device.
THEOREM WellDevicesLeftAlone == Spec => HealthyUndisturbed
<1> DEFINE Step == pc = "peers" /\ pc' = "idle" /\ (\A p \in Tracked : snap.fresh[p])
                     => UNCHANGED <<devEp, port>>
<1>1. PInv /\ [Next]_vars => [Step]_vars
  <2> SUFFICES ASSUME PInv, [Next]_vars, pc = "peers", pc' = "idle",
                      \A p \in Tracked : snap.fresh[p]
               PROVE  UNCHANGED <<devEp, port>>
    OBVIOUS
  <2>1. ~unlink
    BY DEF PInv, PassInv
  <2> QED BY <2>1, PassEnd DEF PInv, Push, deviceVars
<1> QED BY <1>1, PassInvInit, PassInvStep, PTL DEF Spec, HealthyUndisturbed

\* A peer without an Endpoint keeps the endpoint it called from when a pass
\* configures the device for other peers.
THEOREM CallersKept == Spec => RoamersKept
<1> DEFINE Step == pc = "peers" /\ pc' = "idle"
                     => \A p \in Peers \ Named : devEp'[p] = devEp[p]
<1>1. PInv /\ [Next]_vars => [Step]_vars
  <2> SUFFICES ASSUME PInv, [Next]_vars, pc = "peers", pc' = "idle",
                      NEW p \in Peers \ Named
               PROVE  devEp'[p] = devEp[p]
    OBVIOUS
  <2>1. cfgEp[p] = Nil
    BY DEF PInv, PassInv
  <2> QED BY <2>1, PassEnd DEF PInv, Push, Configured, deviceVars
<1> QED BY <1>1, PassInvInit, PassInvStep, PTL DEF Spec, RoamersKept

\* Every step of a pass is done with one peer, and nothing adds to the peers that
\* are left (the loop of daemon.go:60-93).
THEOREM PassEnds == Spec => PassComesToEnd
<1> DEFINE Step == pc = "peers" => pc' = "idle" \/ (todo' \subseteq todo /\ (Pass => todo' # todo))
<1>1. TypeOK /\ [Next]_vars => [Step]_vars
  <2> SUFFICES ASSUME Next, pc = "peers", pc' # "idle"
               PROVE  todo' \subseteq todo /\ (Pass => todo' # todo)
    OBVIOUS
  <2>1. ASSUME Pass PROVE todo' \subseteq todo /\ todo' # todo
    BY <2>1 DEF Pass, PassBegin, SkipPeer, RefreshPeer, RefreshFails, NothingToDo, Push,
       PushFails, Return
  <2>2. ASSUME Reload \/ Surroundings PROVE todo' = todo
    BY <2>2 DEF Reload, Surroundings, BringUp, Sync, TakeDown, Age, Roam, DnsChange, passVars
  <2> QED BY <2>1, <2>2 DEF Next
<1> QED BY <1>1, TypeInit, TypeStep, PTL DEF Spec, PassComesToEnd
==============================================================================
