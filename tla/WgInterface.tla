---------------------------- MODULE WgInterface ----------------------------
(* The life of one WireGuard interface under the commands that set it up    *)
(* and tear it down: quick.Up, quick.Down and quick.Sync as called by the   *)
(* command line and, with retries, by startOnBoot.  Each command is its own *)
(* process or goroutine; nothing serialises them, and every call into the   *)
(* kernel or the shell may fail and end the command where it stands.        *)
EXTENDS Naturals, Sequences, FiniteSets

CONSTANTS
  Procs,     \* processes that run commands
  Boot,      \* the start-on-boot goroutine, one of Procs where boot is at issue
  Cfgs,      \* contents of the configuration file
  Address,   \* Address[c]: IPv4 addresses
  Peers,     \* Peers[c]: peers
  Dsts,      \* Dsts[c]: the peers' AllowedIPs, which become routes
  Servers,   \* Servers[c]: the DNS entries, in order
  TableOff,  \* the contents that say Table = off
  Times,     \* attempts GoRetryCtx makes
  MaxLinks,  \* bound on the links ever created
  None

\* The DNS entries of content c.
Entries(c) == {Servers[c][n] : n \in DOMAIN Servers[c]}

ASSUME ProcAssumption == Times \in Nat \ {0} /\ MaxLinks \in Nat
ASSUME CfgAssumption == /\ None \notin Cfgs
                        /\ TableOff \subseteq Cfgs
                        /\ DOMAIN Address = Cfgs /\ DOMAIN Peers = Cfgs
                        /\ DOMAIN Dsts = Cfgs /\ DOMAIN Servers = Cfgs
                        /\ \A c \in Cfgs : Servers[c] \in Seq(Entries(c))

VARIABLES
  file,    \* content of the interface's configuration file
  link,    \* index of the link, 0 when there is none
  links,   \* links created so far
  up,      \* the link is administratively up
  wgPeers, \* peers configured on the device
  addrs,   \* IPv4 addresses of the link
  routes,  \* routes through the link in the table of the configuration
  resolv,  \* resolvconf's record tun.<iface>: a server, or None
  op,      \* op[p]: the command p runs or ran last
  pc,      \* pc[p]: where p stands, "idle" between commands
  cfg,     \* cfg[p]: the configuration p has parsed
  handle,  \* handle[p]: the link index p works on
  seenAddrs,  \* seenAddrs[p]: the addresses p has listed
  seenRoutes, \* seenRoutes[p]: the routes p has listed
  tries,   \* tries[p]: attempts left to the boot goroutine
  result,  \* result[p]: "none", "ok", "exist" (os.ErrExist) or "failed"
  disturbed \* history: p's command has been crossed by one with another aim

kernel == <<link, links, up, wgPeers, addrs, routes, resolv>>
listed == <<seenAddrs, seenRoutes>>
process == <<op, pc, cfg, handle, listed, tries, result>>
vars == <<file, kernel, process, disturbed>>

Ops == {"boot", "up", "down", "sync", "bounce"}
UpSteps == {"upCheck", "upDns", "preUp", "postUp"}
SyncSteps == {"linkFind", "linkAdd", "linkUp", "device", "addrList", "addrAdd",
              "addrDel", "routeAdd", "routeDel"}
DownSteps == {"downCheck", "downDns", "preDown", "linkDel", "postDown"}
Running(p) == pc[p] # "idle"

\* Nothing in the parser sets cfg.RouteProtocol: it keeps its zero value, which
\* fillRouteDefaults turns into RTPROT_BOOT in the routes to install.
RouteProtocol == "unspec"
Filled(proto) == IF proto = "unspec" THEN "boot" ELSE proto

\* The routes SyncRoutes wants: the AllowedIPs of all peers.
Wanted(c) == {[dst |-> d, proto |-> Filled(RouteProtocol)] : d \in Dsts[c]}

Init ==
  /\ file \in Cfgs
  /\ link = 0 /\ links = 0 /\ up = FALSE
  /\ wgPeers = {} /\ addrs = {} /\ routes = {}
  /\ resolv = None
  /\ op = [p \in Procs |-> "none"]
  /\ pc = [p \in Procs |-> "idle"]
  /\ cfg = [p \in Procs |-> None]
  /\ handle = [p \in Procs |-> 0]
  /\ seenAddrs = [p \in Procs |-> {}]
  /\ seenRoutes = [p \in Procs |-> {}]
  /\ tries = [p \in Procs |-> 0]
  /\ result = [p \in Procs |-> "none"]
  /\ disturbed = [p \in Procs |-> FALSE]

\* Two processes that both bring up or sync the same content help each other.
SameAim(p, q) == /\ cfg[p] = cfg[q]
                 /\ {pc[p], pc[q]} \cap DownSteps = {}
                 /\ op[q] # "down"

\* p does something: the others are disturbed unless they want the same.
Disturb(p) ==
  disturbed' = [q \in Procs |-> \/ disturbed[q]
                                \/ q # p /\ cfg[q] # None /\ ~SameAim(p, q)]

At(p, step) == pc[p] = step /\ Disturb(p) /\ UNCHANGED file

GoTo(p, step) ==
  /\ pc' = [pc EXCEPT ![p] = step]
  /\ UNCHANGED <<op, cfg, handle, listed, tries, result>>

\* The command of p ends; what it aimed at is remembered unless it failed.
Finish(p, r) ==
  /\ pc' = [pc EXCEPT ![p] = "idle"]
  /\ result' = [result EXCEPT ![p] = r]
  /\ handle' = [handle EXCEPT ![p] = 0]
  /\ seenAddrs' = [seenAddrs EXCEPT ![p] = {}]
  /\ seenRoutes' = [seenRoutes EXCEPT ![p] = {}]
  /\ tries' = [tries EXCEPT ![p] = 0]
  /\ cfg' = [cfg EXCEPT ![p] = IF r = "failed" THEN None ELSE @]
  /\ op' = [op EXCEPT ![p] = IF r = "failed" THEN "none" ELSE @]

\* Fault: the attempts are not counted down to an end.
Retry_Endless(p) ==
  /\ tries' = [tries EXCEPT ![p] = @ - 1]
  /\ pc' = [pc EXCEPT ![p] = "upCheck"]
  /\ handle' = [handle EXCEPT ![p] = 0]
  /\ seenAddrs' = [seenAddrs EXCEPT ![p] = {}]
  /\ seenRoutes' = [seenRoutes EXCEPT ![p] = {}]
  /\ UNCHANGED <<op, cfg, result>>

\* GoRetryCtx calls Up again after a failure, up to Times times.
Retry(p) ==
  /\ tries[p] > 1
  /\ tries' = [tries EXCEPT ![p] = @ - 1]
  /\ pc' = [pc EXCEPT ![p] = "upCheck"]
  /\ handle' = [handle EXCEPT ![p] = 0]
  /\ seenAddrs' = [seenAddrs EXCEPT ![p] = {}]
  /\ seenRoutes' = [seenRoutes EXCEPT ![p] = {}]
  /\ UNCHANGED <<op, cfg, result>>

\* bounce goes on to Up whatever becomes of Down.
BounceUp(p) == op[p] = "bounce" /\ GoTo(p, "upCheck")

\* An error is returned from where p stands.
Abort(p) ==
  \/ op[p] = "boot" /\ Retry(p)
  \/ pc[p] \in DownSteps /\ BounceUp(p)
  \/ /\ ~(op[p] = "boot" /\ tries[p] > 1)
     /\ ~(op[p] = "bounce" /\ pc[p] \in DownSteps)
     /\ Finish(p, "failed")
----------------------------------------------------------------------------

\* A command starts: MatchConfig or GetConfig reads and parses the file once.
Begin(p, o, first) ==
  /\ pc[p] = "idle"
  /\ op' = [op EXCEPT ![p] = o]
  /\ cfg' = [cfg EXCEPT ![p] = file]
  /\ pc' = [pc EXCEPT ![p] = first]
  /\ result' = [result EXCEPT ![p] = "none"]
  /\ disturbed' = [disturbed EXCEPT ![p] = FALSE]
  /\ UNCHANGED <<file, kernel, handle, listed>>

\* The commands of the command line.
UpCommand(p) == p # Boot /\ Begin(p, "up", "upCheck") /\ UNCHANGED tries
DownCommand(p) == p # Boot /\ Begin(p, "down", "downCheck") /\ UNCHANGED tries
SyncCommand(p) == p # Boot /\ Begin(p, "sync", "linkFind") /\ UNCHANGED tries
BounceCommand(p) == p # Boot /\ Begin(p, "bounce", "downCheck") /\ UNCHANGED tries

\* startOnBoot calls Up in a goroutine, once, with retries.
StartOnBoot(p) ==
  /\ p = Boot /\ result[p] = "none"
  /\ Begin(p, "boot", "upCheck")
  /\ tries' = [tries EXCEPT ![p] = Times]

\* The administrator edits the file between commands.
Edit(c) ==
  /\ file # c
  /\ file' = c
  /\ UNCHANGED <<kernel, process, disturbed>>

\* A call into the kernel or the shell fails without an effect.
Fail(p) ==
  /\ Running(p)
  /\ At(p, pc[p])
  /\ Abort(p)
  /\ UNCHANGED kernel

\* Up: the link must not exist; os.ErrExist ends the retries of boot as well.
UpCheck(p) ==
  /\ At(p, "upCheck")
  /\ \/ link = 0 /\ GoTo(p, "upDns")
     \/ link # 0 /\ Finish(p, "exist")
  /\ UNCHANGED kernel

\* Up: resolvconf -a once per DNS entry, each call replacing the record; a
\* failing call leaves what the one before it wrote.
UpDns(p) ==
  LET servers == Servers[cfg[p]] IN
  /\ At(p, "upDns")
  /\ \/ /\ GoTo(p, "preUp")
        /\ resolv' = IF servers = <<>> THEN resolv ELSE servers[Len(servers)]
     \/ \E n \in 1..Len(servers) - 1 : resolv' = servers[n] /\ Abort(p)
  /\ UNCHANGED <<link, links, up, wgPeers, addrs, routes>>

\* Up: the PreUp commands; then Sync begins.
PreUp(p) == At(p, "preUp") /\ GoTo(p, "linkFind") /\ UNCHANGED kernel

\* Fault: a link that exists is taken to be up.
LinkFind_NoSetUp(p) ==
  /\ At(p, "linkFind")
  /\ pc' = [pc EXCEPT ![p] = IF link = 0 THEN "linkAdd" ELSE "device"]
  /\ handle' = [handle EXCEPT ![p] = link]
  /\ UNCHANGED <<kernel, op, cfg, listed, tries, result>>

\* SyncLink: LinkByName.
LinkFind(p) ==
  /\ At(p, "linkFind")
  /\ pc' = [pc EXCEPT ![p] = IF link = 0 THEN "linkAdd" ELSE "linkUp"]
  /\ handle' = [handle EXCEPT ![p] = link]
  /\ UNCHANGED <<kernel, op, cfg, listed, tries, result>>

\* SyncLink: LinkAdd, or the WgBin command, then LinkByName again.  It fails
\* when another process was faster.
LinkAdd(p) ==
  /\ At(p, "linkAdd")
  /\ link = 0 /\ links < MaxLinks
  /\ links' = links + 1
  /\ link' = links'
  /\ handle' = [handle EXCEPT ![p] = links']
  /\ pc' = [pc EXCEPT ![p] = "linkUp"]
  /\ UNCHANGED <<up, wgPeers, addrs, routes, resolv, op, cfg, listed, tries, result>>

\* SyncLink: LinkSetUp, by index.
LinkSetUp(p) ==
  /\ At(p, "linkUp")
  /\ handle[p] = link
  /\ up' = TRUE
  /\ GoTo(p, "device")
  /\ UNCHANGED <<link, links, wgPeers, addrs, routes, resolv>>

\* SyncWireguardDevice: ConfigureDevice finds the device by name and, without
\* ReplacePeers, adds to the peers it has.
ConfigureDevice(p) ==
  /\ At(p, "device")
  /\ link # 0
  /\ wgPeers' = wgPeers \cup Peers[cfg[p]]
  /\ GoTo(p, "addrList")
  /\ UNCHANGED <<link, links, up, addrs, routes, resolv>>

\* SyncAddress: AddrList.
AddrList(p) ==
  /\ At(p, "addrList")
  /\ handle[p] = link
  /\ seenAddrs' = [seenAddrs EXCEPT ![p] = addrs]
  /\ pc' = [pc EXCEPT ![p] = "addrAdd"]
  /\ UNCHANGED <<kernel, op, cfg, handle, seenRoutes, tries, result>>

\* SyncAddress: AddrAdd for every address not listed, EEXIST tolerated; a
\* failure leaves some of them added.
AddrAdd(p) ==
  LET missing == Address[cfg[p]] \ seenAddrs[p] IN
  /\ At(p, "addrAdd")
  /\ missing # {} => handle[p] = link
  /\ \/ addrs' = addrs \cup missing /\ GoTo(p, "addrDel")
     \/ \E some \in SUBSET missing : addrs' = addrs \cup some /\ Abort(p)
  /\ UNCHANGED <<link, links, up, wgPeers, routes, resolv>>

\* Sync: SyncRoutes follows unless Table is off; Up goes on to PostUp.
AfterSync(p) == IF op[p] = "sync" THEN Finish(p, "ok") ELSE GoTo(p, "postUp")
\* Fault: SyncRoutes is left out.
AfterAddresses_NoRoutes(p) == AfterSync(p)

AfterAddresses(p) ==
  IF cfg[p] \in TableOff THEN AfterSync(p) ELSE GoTo(p, "routeAdd")

\* Fault: every listed address is deleted.
AddrDel_All(p) ==
  LET extra == seenAddrs[p] IN
  /\ At(p, "addrDel")
  /\ extra # {} => handle[p] = link
  /\ \/ extra \subseteq addrs /\ addrs' = addrs \ extra /\ AfterAddresses(p)
     \/ \E some \in SUBSET (extra \cap addrs) : addrs' = addrs \ some /\ Abort(p)
  /\ UNCHANGED <<link, links, up, wgPeers, routes, resolv>>

\* SyncAddress: AddrDel for every listed address the configuration lacks; it
\* fails when the address is gone, and a failure leaves some of them deleted.
AddrDel(p) ==
  LET extra == seenAddrs[p] \ Address[cfg[p]] IN
  /\ At(p, "addrDel")
  /\ extra # {} => handle[p] = link
  /\ \/ extra \subseteq addrs /\ addrs' = addrs \ extra /\ AfterAddresses(p)
     \/ \E some \in SUBSET (extra \cap addrs) : addrs' = addrs \ some /\ Abort(p)
  /\ UNCHANGED <<link, links, up, wgPeers, routes, resolv>>

\* SyncRoutes: RouteList, then RouteReplace for every wanted route; a failure
\* leaves some of them installed.
RouteAdd(p) ==
  LET wanted == Wanted(cfg[p]) IN
  /\ At(p, "routeAdd")
  /\ handle[p] = link /\ up
  /\ \/ /\ routes' = routes \cup wanted
        /\ seenRoutes' = [seenRoutes EXCEPT ![p] = routes]
        /\ pc' = [pc EXCEPT ![p] = "routeDel"]
        /\ UNCHANGED <<op, cfg, handle, seenAddrs, tries, result>>
     \/ \E some \in SUBSET wanted : routes' = routes \cup some /\ Abort(p)
  /\ UNCHANGED <<link, links, up, wgPeers, addrs, resolv>>

\* SyncRoutes: of the routes listed before, those of the configured protocol
\* that are not wanted are deleted.
Deletable(p) == {rt \in seenRoutes[p] : rt.proto = RouteProtocol /\ rt \notin Wanted(cfg[p])}

RouteDel(p) ==
  /\ At(p, "routeDel")
  /\ Deletable(p) # {} => handle[p] = link
  /\ routes' = routes \ Deletable(p)
  /\ AfterSync(p)
  /\ UNCHANGED <<link, links, up, wgPeers, addrs, resolv>>

\* Up: the PostUp commands.
PostUp(p) == At(p, "postUp") /\ Finish(p, "ok") /\ UNCHANGED kernel
----------------------------------------------------------------------------

\* Down: LinkByName; without the link Down fails.
DownCheck(p) ==
  /\ At(p, "downCheck")
  /\ link # 0
  /\ handle' = [handle EXCEPT ![p] = link]
  /\ pc' = [pc EXCEPT ![p] = "downDns"]
  /\ UNCHANGED <<kernel, op, cfg, listed, tries, result>>

\* Down: with more than one DNS entry, resolvconf -d of the record "tun.%s".
\* execSh replaces %i only, so the record of the interface is never meant.
DownDns(p) == At(p, "downDns") /\ GoTo(p, "preDown") /\ UNCHANGED kernel

\* Down: the PreDown commands of the file as it is now.
PreDown(p) == At(p, "preDown") /\ GoTo(p, "linkDel") /\ UNCHANGED kernel

\* Down: LinkDel, by index; the kernel drops all that hangs on the link.
LinkDel(p) ==
  /\ At(p, "linkDel")
  /\ handle[p] = link
  /\ link' = 0 /\ up' = FALSE
  /\ wgPeers' = {} /\ addrs' = {} /\ routes' = {}
  /\ GoTo(p, "postDown")
  /\ UNCHANGED <<links, resolv>>

\* Down: the PostDown commands; bounce then brings the interface up again.
PostDown(p) ==
  /\ At(p, "postDown")
  /\ IF op[p] = "bounce" THEN GoTo(p, "upCheck") ELSE Finish(p, "ok")
  /\ UNCHANGED kernel
----------------------------------------------------------------------------

Step(p) ==
  \/ UpCheck(p) \/ UpDns(p) \/ PreUp(p) \/ PostUp(p)
  \/ LinkFind(p) \/ LinkAdd(p) \/ LinkSetUp(p) \/ ConfigureDevice(p)
  \/ AddrList(p) \/ AddrAdd(p) \/ AddrDel(p) \/ RouteAdd(p) \/ RouteDel(p)
  \/ DownCheck(p) \/ DownDns(p) \/ PreDown(p) \/ LinkDel(p) \/ PostDown(p)
  \/ Fail(p)

Command(p) == \/ UpCommand(p) \/ DownCommand(p) \/ SyncCommand(p) \/ BounceCommand(p)
              \/ StartOnBoot(p)

Next == \/ \E p \in Procs : Step(p) \/ Command(p)
        \/ \E c \in Cfgs : Edit(c)

Spec == Init /\ [][Next]_vars
----------------------------------------------------------------------------

\* Type invariant of the interface and the commands on it.
TypeOK ==
  /\ file \in Cfgs
  /\ link \in 0..MaxLinks /\ links \in 0..MaxLinks
  /\ up \in BOOLEAN
  /\ wgPeers \subseteq UNION {Peers[c] : c \in Cfgs}
  /\ addrs \subseteq UNION {Address[c] : c \in Cfgs}
  /\ routes \subseteq UNION {Wanted(c) : c \in Cfgs}
  /\ op \in [Procs -> Ops \cup {"none"}]
  /\ pc \in [Procs -> UpSteps \cup SyncSteps \cup DownSteps \cup {"idle"}]
  /\ cfg \in [Procs -> Cfgs \cup {None}]
  /\ handle \in [Procs -> 0..MaxLinks]
  /\ tries \in [Procs -> 0..Times]
  /\ result \in [Procs -> {"none", "ok", "exist", "failed"}]
  /\ disturbed \in [Procs -> BOOLEAN]

\* The interface is what content c says.
Configured(c) ==
  /\ link # 0 /\ up
  /\ Peers[c] \subseteq wgPeers
  /\ addrs = Address[c]
  /\ c \notin TableOff => Wanted(c) \subseteq routes

Undisturbed(p) == Running(p) /\ ~disturbed[p]
Succeeded(p, ops) == /\ pc[p] = "idle" /\ result[p] = "ok" /\ ~disturbed[p]
                     /\ op[p] \in ops

\* A command that reports success has done its job, even after failed earlier
\* attempts, and even when other commands with the same aim ran in between: up,
\* boot, sync and bounce leave the configuration in place, down leaves no link.
\* What up has handed to resolvconf is of this configuration, none of an older one.
SuccessMeansDone ==
  \A p \in Procs :
    /\ Succeeded(p, Ops \ {"down"}) => Configured(cfg[p])
    /\ Succeeded(p, {"boot", "up", "bounce"}) /\ Entries(cfg[p]) # {} => resolv \in Entries(cfg[p])
    /\ Succeeded(p, {"down"}) => link = 0

\* Hooks see the interface in the state wg-quick documents: PostUp a fully
\* configured one, PreDown an existing one, PostDown none.
HooksInOrder ==
  \A p \in Procs : Undisturbed(p) =>
    /\ pc[p] = "postUp" => Configured(cfg[p])
    /\ pc[p] = "preDown" => link # 0
    /\ pc[p] = "postDown" => link = 0

\* Syncing again does no harm: while everybody at work wants content c, a link
\* that has been configured for c stays so through every step of every sync,
\* with addresses listed before others changed them, and through its failures.
ResyncHarmless ==
  [][\A c \in Cfgs :
       Configured(c) /\ (\A p \in Procs : Running(p) => cfg[p] = c /\ op[p] \in {"boot", "up", "sync"})
         => Configured(c)']_vars

\* The steps p may still take: those of the attempt it is at, and of those left.
Distance == [downCheck |-> 18, downDns |-> 17, preDown |-> 16, linkDel |-> 15, postDown |-> 14,
             upCheck |-> 13, upDns |-> 12, preUp |-> 11, linkFind |-> 10, linkAdd |-> 9,
             linkUp |-> 8, device |-> 7, addrList |-> 6, addrAdd |-> 5, addrDel |-> 4,
             routeAdd |-> 3, routeDel |-> 2, postUp |-> 1, idle |-> 0]
StepsLeft(p) == 20 * tries[p] + Distance[pc[p]]

\* Every step of a command brings it nearer to its end, whoever works on the
\* interface besides: no failure of Down leads a bounce in a circle, and a boot
\* that fails time and again uses up its attempts.
NearerEnd == [][\A p \in Procs : Step(p) => StepsLeft(p)' \in 0..(StepsLeft(p) - 1)]_vars

\* The boot goroutine reports "interface ... up" only for an interface that has
\* been set up.  The code takes os.ErrExist for success, and a link left behind
\* by its own failed attempt answers just that.
BootUpMeansConfigured ==
  Boot \in Procs /\ result[Boot] \in {"ok", "exist"} /\ ~disturbed[Boot] => Configured(cfg[Boot])

\* After SyncRoutes no route is left that the configuration does not name.
StaleRoutesDeleted ==
  \A p \in Procs : Succeeded(p, {"sync"}) /\ cfg[p] \notin TableOff
                     => routes = Wanted(cfg[p])
============================================================================
