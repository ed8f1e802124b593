----------------------------- MODULE Reresolve -----------------------------
(* One interface under the re-resolve passes of daemon.Run: the endpoints   *)
(* the daemon keeps in iface.cfg, those the kernel holds, what DNS answers, *)
(* and the pass that reconciles them from a snapshot of the device.  A pass *)
(* holds d.lock, so a reload never falls into one; the kernel, the remote   *)
(* peers and the wg-quick-op command line take no notice of it.             *)
EXTENDS Naturals

CONSTANTS
  Peers,      \* peers of the interface
  Named,      \* peers whose section has an Endpoint
  Tracked,    \* the keys of unresolvedEndpoints
  Addrs,      \* IP addresses
  Ports,      \* UDP ports the kernel may pick
  CfgPort,    \* *iface.cfg.ListenPort: 0 (randomPort) or a port
  Nil

ASSUME PeerAssumption == Tracked \subseteq Named /\ Named \subseteq Peers
ASSUME AddrAssumption == Nil \notin Addrs
ASSUME PortAssumption == /\ 0 \notin Ports
                         /\ CfgPort \in Ports \cup {0}
                         /\ Ports # {}

VARIABLES
  dns,    \* dns[p]: what the endpoint name of p resolves to; Nil: it does not
  cfgEp,  \* iface.cfg.Peers: the endpoint the daemon would configure, or Nil
  link,   \* the interface exists and is configured
  devEp,  \* the kernel's endpoint of each peer, or Nil
  fresh,  \* fresh[p]: last handshake is less than handshake_max ago
  port,   \* the UDP port the device listens on, 0 without a device
  pc,     \* "idle", or "peers" inside a pass over this interface
  snap,   \* what PeerStatus returned to the pass
  todo,   \* peers the pass has not looked at
  unlink, \* wgUnLink: the pass met a peer without a recent handshake
  asked,  \* history: peers the pass has resolved
  got,    \* history: got[p] is the last address a pass resolved for p
  tries   \* history: passes completed since p resolves to got[p], undisturbed

deviceVars == <<link, devEp, fresh, port>>
passVars == <<pc, snap, todo, unlink, asked>>
history == <<got, tries>>
vars == <<dns, cfgEp, deviceVars, passVars, history>>

Endpoint == Addrs \cup {Nil}
MaxTries == 2  \* tries counts no further

\* LastHandshakeTime and Endpoint of every peer, as read by PeerStatus.
Snapshots == [ep : [Peers -> Endpoint], fresh : [Peers -> BOOLEAN]]
NoSnap == [ep |-> [p \in Peers |-> Nil], fresh |-> [p \in Peers |-> FALSE]]

\* Fault: a missing ListenPort is taken for a port.
BoundPorts_Raw == {CfgPort}

\* A configured ListenPort of 0, which newDDNS puts in place of a missing one,
\* makes the kernel pick a port on every configuration of the device.
BoundPorts == IF CfgPort = 0 THEN Ports ELSE {CfgPort}

\* parsePeerLine: an endpoint that does not resolve is left out.
ParsedEndpoints == [p \in Peers |-> IF p \in Named THEN dns[p] ELSE Nil]

\* Fault: a peer without an endpoint loses the one it has.
Configured_Replace == cfgEp

\* ConfigureDevice leaves the endpoint of a peer alone that comes without one.
Configured == [p \in Peers |-> IF cfgEp[p] = Nil THEN devEp[p] ELSE cfgEp[p]]

Init ==
  /\ dns \in {d \in [Peers -> Endpoint] : \A p \in Peers \ Named : d[p] = Nil}
  /\ cfgEp = ParsedEndpoints
  /\ link = FALSE
  /\ devEp = [p \in Peers |-> Nil]
  /\ fresh = [p \in Peers |-> FALSE]
  /\ port = 0
  /\ pc = "idle"
  /\ snap = NoSnap
  /\ todo = {} /\ asked = {}
  /\ unlink = FALSE
  /\ got = [p \in Peers |-> Nil]
  /\ tries = [p \in Peers |-> 0]
----------------------------------------------------------------------------

\* PeerStatus succeeds and the loop over the device's peers begins; without
\* the device it fails and the pass goes on to the next interface.
PassBegin ==
  /\ pc = "idle" /\ link
  /\ pc' = "peers"
  /\ snap' = [ep |-> devEp, fresh |-> fresh]
  /\ todo' = Peers
  /\ unlink' = FALSE
  /\ asked' = {}
  /\ UNCHANGED <<dns, cfgEp, deviceVars, history>>

\* Fault: the device is configured although the peer is well.
SkipPeer_Unlink(p) ==
  /\ pc = "peers" /\ p \in todo
  /\ p \notin Tracked \/ snap.fresh[p]
  /\ todo' = todo \ {p}
  /\ unlink' = TRUE
  /\ UNCHANGED <<dns, cfgEp, deviceVars, history, pc, snap, asked>>

\* A peer that has no endpoint name, or a recent handshake.
SkipPeer(p) ==
  /\ pc = "peers" /\ p \in todo
  /\ p \notin Tracked \/ snap.fresh[p]
  /\ todo' = todo \ {p}
  /\ UNCHANGED <<dns, cfgEp, deviceVars, history, pc, snap, unlink, asked>>

\* Fault: an endpoint the device has is never replaced.
Update_OnlyUnset(p) == IF snap.ep[p] = Nil THEN [cfgEp EXCEPT ![p] = dns[p]] ELSE cfgEp

\* The endpoint of p goes into iface.cfg if the device had another one.
Update(p) == IF snap.ep[p] # dns[p] THEN [cfgEp EXCEPT ![p] = dns[p]] ELSE cfgEp

\* A peer without a recent handshake whose name resolves.
RefreshPeer(p) ==
  /\ pc = "peers" /\ p \in todo
  /\ p \in Tracked /\ ~snap.fresh[p]
  /\ dns[p] # Nil
  /\ unlink' = TRUE
  /\ cfgEp' = Update(p)
  /\ todo' = todo \ {p}
  /\ asked' = asked \cup {p}
  /\ got' = [got EXCEPT ![p] = dns[p]]
  /\ tries' = IF got[p] = dns[p] THEN tries ELSE [tries EXCEPT ![p] = 0]
  /\ UNCHANGED <<dns, deviceVars, pc, snap>>

\* Fault: a name that does not resolve is asked for again.
RefreshFails_Again(p) ==
  /\ pc = "peers" /\ p \in todo
  /\ p \in Tracked /\ ~snap.fresh[p]
  /\ dns[p] = Nil
  /\ unlink' = TRUE
  /\ UNCHANGED <<dns, cfgEp, deviceVars, history, pc, snap, todo, asked>>

\* A peer without a recent handshake whose name does not resolve.
RefreshFails(p) ==
  /\ pc = "peers" /\ p \in todo
  /\ p \in Tracked /\ ~snap.fresh[p]
  /\ dns[p] = Nil
  /\ unlink' = TRUE
  /\ todo' = todo \ {p}
  /\ UNCHANGED <<dns, cfgEp, deviceVars, history, pc, snap, asked>>

\* The end of the pass over this interface; its locals go out of scope.
Return == /\ pc = "peers" /\ todo = {}
          /\ pc' = "idle"
          /\ snap' = NoSnap /\ unlink' = FALSE /\ asked' = {}
          /\ UNCHANGED <<dns, cfgEp, todo, got>>

\* Every peer is well: nothing is configured.
NothingToDo == /\ ~unlink
               /\ Return
               /\ UNCHANGED <<deviceVars, tries>>

\* SyncWireguardDevice configures the device with all of iface.cfg.
Push ==
  /\ unlink /\ link
  /\ Return
  /\ devEp' = Configured
  /\ port' \in BoundPorts
  /\ tries' = [p \in Peers |-> IF p \in asked /\ tries[p] < MaxTries
                               THEN tries[p] + 1 ELSE tries[p]]
  /\ UNCHANGED <<link, fresh>>

\* LinkByName or SyncWireguardDevice fails.
PushFails == /\ unlink
             /\ Return
             /\ UNCHANGED <<deviceVars, tries>>

\* newDDNS under the lock: the file is parsed and its endpoints resolved anew.
Reload ==
  /\ pc = "idle"
  /\ cfgEp' = ParsedEndpoints
  /\ tries' = [p \in Peers |-> 0]
  /\ UNCHANGED <<dns, deviceVars, passVars, got>>
----------------------------------------------------------------------------

\* wg-quick-op up, or start on boot, in another process or goroutine.
BringUp ==
  /\ ~link
  /\ link' = TRUE
  /\ devEp' = ParsedEndpoints
  /\ port' \in BoundPorts
  /\ tries' = [p \in Peers |-> 0]
  /\ UNCHANGED <<dns, cfgEp, fresh, passVars, got>>

\* A sync in another process, of a configuration read just now.
Sync ==
  /\ link
  /\ devEp' = [p \in Peers |-> IF ParsedEndpoints[p] = Nil THEN devEp[p] ELSE ParsedEndpoints[p]]
  /\ port' \in BoundPorts
  /\ tries' = [p \in Peers |-> 0]
  /\ UNCHANGED <<dns, cfgEp, link, fresh, passVars, got>>

\* wg-quick-op down in another process.
TakeDown ==
  /\ link
  /\ link' = FALSE
  /\ devEp' = [p \in Peers |-> Nil]
  /\ fresh' = [p \in Peers |-> FALSE]
  /\ port' = 0
  /\ tries' = [p \in Peers |-> 0]
  /\ UNCHANGED <<dns, cfgEp, passVars, got>>

\* The name of p comes to stand for another address, or for none.
DnsChange(p, a) ==
  /\ p \in Named
  /\ dns' = [dns EXCEPT ![p] = a]
  /\ UNCHANGED <<cfgEp, deviceVars, passVars, history>>

\* The kernel answers a handshake of p from address a and takes a for its
\* endpoint.
Roam(p, a) ==
  /\ link
  /\ devEp' = [devEp EXCEPT ![p] = a]
  /\ fresh' = [fresh EXCEPT ![p] = TRUE]
  /\ tries' = [tries EXCEPT ![p] = 0]
  /\ UNCHANGED <<dns, cfgEp, link, port, passVars, got>>

\* handshake_max passes without a handshake of p.
Age(p) ==
  /\ fresh[p]
  /\ fresh' = [fresh EXCEPT ![p] = FALSE]
  /\ UNCHANGED <<dns, cfgEp, link, devEp, port, passVars, history>>

Pass == \/ PassBegin
        \/ \E p \in Peers : SkipPeer(p) \/ RefreshPeer(p) \/ RefreshFails(p)
        \/ NothingToDo \/ Push \/ PushFails

Surroundings == \/ BringUp \/ Sync \/ TakeDown
                \/ \E p \in Peers : \/ Age(p)
                                    \/ \E a \in Addrs : Roam(p, a)
                                    \/ \E a \in Endpoint : DnsChange(p, a)

Next == Pass \/ Reload \/ Surroundings

\* Passes recur every conf.DDNS.Interval, and a device that is there to be
\* configured time and again is configured at last.
Fairness == WF_vars(Pass) /\ SF_vars(Push)

Spec == Init /\ [][Next]_vars
FairSpec == Spec /\ Fairness
----------------------------------------------------------------------------

\* Type invariant of the pass over an interface.
TypeOK ==
  /\ dns \in [Peers -> Endpoint]
  /\ cfgEp \in [Peers -> Endpoint]
  /\ link \in BOOLEAN
  /\ devEp \in [Peers -> Endpoint]
  /\ fresh \in [Peers -> BOOLEAN]
  /\ port \in Ports \cup {0} /\ (port = 0 <=> ~link)
  /\ pc \in {"idle", "peers"}
  /\ snap \in Snapshots
  /\ todo \in SUBSET Peers
  /\ unlink \in BOOLEAN
  /\ asked \in SUBSET Tracked
  /\ got \in [Peers -> Endpoint]
  /\ tries \in [Peers -> 0..MaxTries]

\* Two passes are enough: once two passes in a row have found the same address
\* for a silent peer and configured the device, with no reload and no packet
\* of that peer in between, the device has that address.
SecondPassApplies ==
  \A p \in Tracked : pc = "idle" /\ tries[p] = 2 => devEp[p] = got[p]

\* While every tracked peer was well at the snapshot, the pass leaves the
\* device alone: no endpoint is reset and the listen port is kept.
HealthyUndisturbed ==
  [][pc = "peers" /\ pc' = "idle" /\ (\A p \in Tracked : snap.fresh[p])
       => UNCHANGED <<devEp, port>>]_vars

\* A peer without an Endpoint in its section keeps the endpoint it called from,
\* however often the device is configured for the sake of other peers.
RoamersKept ==
  [][pc = "peers" /\ pc' = "idle"
       => \A p \in Peers \ Named : devEp'[p] = devEp[p]]_vars

\* A pass comes to its end: each of its steps is done with one peer, whether its
\* name resolves or not, and nothing that happens meanwhile adds to it.
PassComesToEnd ==
  [][pc = "peers" =>
       \/ pc' = "idle"
       \/ todo' \subseteq todo /\ (Pass => todo' # todo)]_vars

\* A silent peer whose name has settled on an address gets that address for
\* good, whatever the reloads, failures and other peers' troubles, once nobody
\* but the daemon changes its endpoint: a sync just before every pass would
\* keep the pass from seeing that iface.cfg is out of date.
OfflineRefreshed ==
  \A p \in Tracked : \A a \in Addrs :
    /\ <>[](link /\ dns[p] = a /\ ~fresh[p])
    /\ <>[][devEp'[p] # devEp[p] => Push]_vars
    => <>[](devEp[p] = a)
============================================================================
