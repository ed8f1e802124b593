------------------------- MODULE WgInterfaceProofs -------------------------
(* What commands on one interface promise, for any number of processes that *)
(* run them, any contents of the file and any number of attempts.           *)
EXTENDS WgInterface, TLAPS

\* The types of the kernel's and the processes' variables.
KernelType ==
  /\ link \in 0..MaxLinks /\ links \in 0..MaxLinks /\ up \in BOOLEAN
  /\ wgPeers \subseteq UNION {Peers[c] : c \in Cfgs}
  /\ addrs \subseteq UNION {Address[c] : c \in Cfgs}
  /\ routes \subseteq UNION {Wanted(c) : c \in Cfgs}
Places == UpSteps \cup SyncSteps \cup DownSteps \cup {"idle"}
ProcType ==
  /\ op \in [Procs -> Ops \cup {"none"}] /\ pc \in [Procs -> Places]
  /\ cfg \in [Procs -> Cfgs \cup {None}]
  /\ handle \in [Procs -> 0..MaxLinks] /\ tries \in [Procs -> 0..Times]
  /\ seenAddrs \in [Procs -> SUBSET UNION {Address[c] : c \in Cfgs}]
  /\ seenRoutes \in [Procs -> SUBSET UNION {Wanted(c) : c \in Cfgs}]
  /\ result \in [Procs -> {"none", "ok", "exist", "failed"}]
TypeInv == file \in Cfgs /\ KernelType /\ ProcType /\ disturbed \in [Procs -> BOOLEAN]

\* A process at work has parsed a file, and stands where its command may stand.
Ctl(p) ==
  /\ pc[p] # "idle" \/ result[p] = "ok" => cfg[p] \in Cfgs
  /\ pc[p] \in DownSteps => op[p] \in {"down", "bounce"}
  /\ pc[p] \in UpSteps \cup SyncSteps => op[p] \in Ops \ {"down"}
  /\ pc[p] = "linkUp" => handle[p] # 0

\* Where a process stands, the ends of its commands told apart.
Place(p) == IF pc[p] # "idle" THEN pc[p]
            ELSE IF result[p] # "ok" THEN "idle"
            ELSE IF op[p] = "down" THEN "taken down" ELSE "set up"

AfterRoutes == {"postUp", "set up"}
AfterAddrs == {"routeAdd", "routeDel"} \cup AfterRoutes
AfterAdd == {"addrDel"} \cup AfterAddrs
AfterDevice == {"addrList", "addrAdd"} \cup AfterAdd

\* What a process that has not been disturbed may rely on: the work of its command so
\* far is still done.
Reliable(p) ==
  LET c == cfg[p] IN
  /\ Place(p) \in {"device"} \cup AfterDevice => link # 0 /\ up
  /\ Place(p) \in AfterDevice => Peers[c] \subseteq wgPeers
  /\ Place(p) = "addrAdd" => Address[c] \cap seenAddrs[p] \subseteq addrs
  /\ Place(p) \in {"addrAdd", "addrDel"} => addrs \ Address[c] \subseteq seenAddrs[p]
  /\ Place(p) \in AfterAdd => Address[c] \subseteq addrs
  /\ Place(p) \in AfterAddrs => addrs \subseteq Address[c]
  /\ Place(p) \in {"routeDel"} \cup AfterRoutes /\ c \notin TableOff => Wanted(c) \subseteq routes
  /\ Place(p) \in {"downDns", "preDown", "linkDel"} => link # 0
  /\ Place(p) \in {"postDown", "taken down"} => link = 0

\* The inductive invariant.
Inv == /\ TypeInv
       /\ \A p \in Procs : Ctl(p) /\ (~disturbed[p] => Reliable(p))
----------------------------------------------------------------------------

\* A step that harms nothing of what content c wants.
Keeps(c) ==
  /\ link # 0 /\ up => link' # 0 /\ up'
  /\ wgPeers \subseteq wgPeers'
  /\ Address[c] \cap addrs \subseteq addrs'
  /\ addrs' \ Address[c] \subseteq addrs
  /\ Wanted(c) \cap routes \subseteq routes'

\* The variables of the other processes stay.
OthersSame(p) ==
  \A q \in Procs \ {p} :
    /\ op'[q] = op[q] /\ pc'[q] = pc[q] /\ cfg'[q] = cfg[q]
    /\ handle'[q] = handle[q] /\ seenAddrs'[q] = seenAddrs[q] /\ result'[q] = result[q]

\* What every step of process p guarantees.
Sound(p) ==
  /\ KernelType' /\ ProcType' /\ OthersSame(p) /\ Ctl(p)'
  /\ pc[p] \notin DownSteps => Keeps(cfg[p])
  /\ ~disturbed[p] => Reliable(p)'

\* The assumptions under which a step begins.
Ready(p) == /\ TypeInv /\ p \in Procs /\ pc[p] # "idle" /\ Ctl(p)
            /\ ~disturbed[p] => Reliable(p)

\* GoTo changes the place of p only.
LEMMA GoToEffect ==
  ASSUME NEW p \in Procs, ProcType, NEW step \in Places, GoTo(p, step)
  PROVE  /\ ProcType' /\ OthersSame(p) /\ pc'[p] = step
         /\ op' = op /\ cfg' = cfg /\ handle' = handle /\ result' = result
         /\ seenAddrs' = seenAddrs /\ seenRoutes' = seenRoutes
BY DEF GoTo, ProcType, OthersSame, listed

\* Finish ends the command of p with result r.
LEMMA FinishEffect ==
  ASSUME NEW p \in Procs, ProcType, NEW r \in {"ok", "exist", "failed"}, Finish(p, r)
  PROVE  /\ ProcType' /\ OthersSame(p) /\ pc'[p] = "idle" /\ result'[p] = r
         /\ r # "failed" => cfg'[p] = cfg[p] /\ op'[p] = op[p]
<1>1. ProcType'
  <2>1. /\ op' \in [Procs -> Ops \cup {"none"}] /\ pc' \in [Procs -> Places]
        /\ cfg' \in [Procs -> Cfgs \cup {None}]
    BY DEF Finish, ProcType, Places
  <2>2. handle' \in [Procs -> 0..MaxLinks] /\ tries' \in [Procs -> 0..Times]
    BY ProcAssumption DEF Finish, ProcType
  <2>3. /\ seenAddrs' \in [Procs -> SUBSET UNION {Address[c] : c \in Cfgs}]
        /\ seenRoutes' \in [Procs -> SUBSET UNION {Wanted(c) : c \in Cfgs}]
    BY DEF Finish, ProcType
  <2>4. result' \in [Procs -> {"none", "ok", "exist", "failed"}]
    BY DEF Finish, ProcType
  <2> QED BY <2>1, <2>2, <2>3, <2>4 DEF ProcType
<1>2. OthersSame(p)
  BY DEF Finish, ProcType, OthersSame
<1>3. /\ pc'[p] = "idle" /\ result'[p] = r
      /\ r # "failed" => cfg'[p] = cfg[p] /\ op'[p] = op[p]
  BY DEF Finish, ProcType
<1> QED BY <1>1, <1>2, <1>3

\* A failed step ends the command, or goes back to the start of Up: nothing is
\* promised there.
LEMMA AbortEffect ==
  ASSUME NEW p \in Procs, Ready(p), Abort(p)
  PROVE  ProcType' /\ OthersSame(p) /\ Ctl(p)' /\ Reliable(p)'
<1>1. ASSUME op[p] = "boot", Retry(p)
      PROVE  ProcType' /\ OthersSame(p) /\ pc'[p] = "upCheck" /\ op'[p] = op[p] /\ cfg'[p] = cfg[p]
  <2>1. ProcType'
    <3>1. /\ op' \in [Procs -> Ops \cup {"none"}] /\ pc' \in [Procs -> Places]
          /\ cfg' \in [Procs -> Cfgs \cup {None}]
          /\ result' \in [Procs -> {"none", "ok", "exist", "failed"}]
      BY <1>1 DEF Retry, Ready, TypeInv, ProcType, Places, UpSteps
    <3>2. handle' \in [Procs -> 0..MaxLinks] /\ tries' \in [Procs -> 0..Times]
      BY <1>1, ProcAssumption DEF Retry, Ready, TypeInv, ProcType
    <3>3. /\ seenAddrs' \in [Procs -> SUBSET UNION {Address[c] : c \in Cfgs}]
          /\ seenRoutes' \in [Procs -> SUBSET UNION {Wanted(c) : c \in Cfgs}]
      BY <1>1 DEF Retry, Ready, TypeInv, ProcType
    <3> QED BY <3>1, <3>2, <3>3 DEF ProcType
  <2> QED BY <1>1, <2>1 DEF Retry, Ready, TypeInv, ProcType, OthersSame
<1>2. ASSUME BounceUp(p)
      PROVE  /\ ProcType' /\ OthersSame(p) /\ pc'[p] = "upCheck" /\ op'[p] = op[p] /\ cfg'[p] = cfg[p]
             /\ op[p] = "bounce"
  BY <1>2, GoToEffect DEF BounceUp, Ready, TypeInv, Places, UpSteps
<1>3. ASSUME Finish(p, "failed")
      PROVE  ProcType' /\ OthersSame(p) /\ pc'[p] = "idle" /\ result'[p] = "failed"
  BY <1>3, FinishEffect DEF Ready, TypeInv
<1>4. CASE pc'[p] = "upCheck" /\ op'[p] = op[p] /\ cfg'[p] = cfg[p] /\ op[p] \in {"boot", "bounce"}
  <2>1. Ctl(p)'
    BY <1>4 DEF Ready, Ctl, UpSteps, SyncSteps, DownSteps, Ops
  <2>2. Place(p)' = "upCheck"
    BY <1>4 DEF Place
  <2>3. Reliable(p)'
    BY <2>2 DEF Reliable, AfterDevice, AfterAdd, AfterAddrs, AfterRoutes
  <2> QED BY <1>1, <1>2, <1>3, <1>4, <2>1, <2>3 DEF Abort
<1>5. CASE pc'[p] = "idle" /\ result'[p] = "failed"
  <2>1. Ctl(p)'
    BY <1>5 DEF Ctl, UpSteps, SyncSteps, DownSteps
  <2>2. Place(p)' = "idle"
    BY <1>5 DEF Place
  <2>3. Reliable(p)'
    BY <2>2 DEF Reliable, AfterDevice, AfterAdd, AfterAddrs, AfterRoutes
  <2> QED BY <1>1, <1>2, <1>3, <1>5, <2>1, <2>3 DEF Abort
<1> QED BY <1>1, <1>2, <1>3, <1>4, <1>5 DEF Abort
----------------------------------------------------------------------------

\* A process moves on within Up and Sync, or within Down.
LEMMA MoveCtl ==
  ASSUME NEW p, Ready(p), NEW step, pc'[p] = step, op'[p] = op[p], cfg'[p] = cfg[p],
         step = "linkUp" => handle'[p] # 0,
         \/ pc[p] \in DownSteps /\ step \in DownSteps
         \/ pc[p] \in UpSteps \cup SyncSteps /\ step \in UpSteps \cup SyncSteps
         \/ op[p] = "bounce" /\ step = "upCheck"
  PROVE  Ctl(p)' /\ Place(p)' = step
<1>1. step # "idle" /\ cfg[p] \in Cfgs
  BY DEF Ready, Ctl, UpSteps, SyncSteps, DownSteps
<1>2. Place(p)' = step
  BY <1>1 DEF Place
<1>3. Ctl(p)'
  BY <1>1 DEF Ready, Ctl, UpSteps, SyncSteps, DownSteps, Ops
<1> QED BY <1>2, <1>3

\* A command ends with r, having wanted something of op.
LEMMA EndCtl ==
  ASSUME NEW p, Ready(p), NEW r \in {"ok", "exist"}, pc'[p] = "idle", result'[p] = r,
         cfg'[p] = cfg[p], op'[p] = op[p]
  PROVE  /\ Ctl(p)'
         /\ Place(p)' = IF r # "ok" THEN "idle" ELSE IF op[p] = "down" THEN "taken down" ELSE "set up"
<1>1. cfg[p] \in Cfgs
  BY DEF Ready, Ctl
<1> QED BY <1>1 DEF Place, Ctl, UpSteps, SyncSteps, DownSteps

\* Without a change of the kernel's variables.
LEMMA KernelSame ==
  ASSUME UNCHANGED <<link, up, wgPeers, addrs, routes>>, links' = links, KernelType, NEW c
  PROVE  KernelType' /\ Keeps(c)
BY DEF KernelType, Keeps

\* UpCheck, UpDns, PreUp: nothing is promised yet.
LEMMA EarlyStep ==
  ASSUME NEW p, Ready(p), UpCheck(p) \/ UpDns(p) \/ PreUp(p)
  PROVE  Sound(p)
<1>0. ProcType /\ KernelType /\ p \in Procs
  BY DEF Ready, TypeInv
<1>1. KernelType' /\ Keeps(cfg[p])
  BY <1>0, KernelSame DEF UpCheck, UpDns, PreUp, kernel
<1>2. ASSUME NEW step \in {"upDns", "preUp", "linkFind"}, GoTo(p, step),
             pc[p] \in {"upCheck", "upDns", "preUp"}
      PROVE  Sound(p)
  <2>1. /\ ProcType' /\ OthersSame(p) /\ pc'[p] = step /\ op' = op /\ cfg' = cfg
    BY <1>0, <1>2, GoToEffect DEF Places, UpSteps, SyncSteps
  <2>2. Ctl(p)' /\ Place(p)' = step
    BY <1>2, <2>1, MoveCtl DEF UpSteps, SyncSteps
  <2>3. Reliable(p)'
    BY <2>2 DEF Reliable, AfterDevice, AfterAdd, AfterAddrs, AfterRoutes
  <2> QED BY <1>1, <2>1, <2>2, <2>3 DEF Sound
<1>3. CASE Finish(p, "exist")
  <2>1. /\ ProcType' /\ OthersSame(p) /\ pc'[p] = "idle" /\ result'[p] = "exist"
        /\ cfg'[p] = cfg[p] /\ op'[p] = op[p]
    BY <1>0, <1>3, FinishEffect
  <2>2. Ctl(p)' /\ Place(p)' = "idle"
    BY <2>1, EndCtl
  <2>3. Reliable(p)'
    BY <2>2 DEF Reliable, AfterDevice, AfterAdd, AfterAddrs, AfterRoutes
  <2> QED BY <1>1, <2>1, <2>2, <2>3 DEF Sound
<1>4. CASE Abort(p)
  BY <1>0, <1>1, <1>4, AbortEffect DEF Sound
<1> QED BY <1>2, <1>3, <1>4 DEF UpCheck, UpDns, PreUp, At

\* A call that fails without an effect.
LEMMA FailStep ==
  ASSUME NEW p, Ready(p), Fail(p)
  PROVE  Sound(p)
<1>1. KernelType' /\ Keeps(cfg[p])
  BY KernelSame DEF Fail, kernel, Ready, TypeInv
<1> QED BY <1>1, AbortEffect DEF Fail, Sound, Ready

\* LinkFind: a link, or none, is found.
LEMMA LinkFindStep ==
  ASSUME NEW p, Ready(p), LinkFind(p)
  PROVE  Sound(p)
<1>0. ProcType /\ KernelType /\ p \in Procs
  BY DEF Ready, TypeInv
<1>1. KernelType' /\ Keeps(cfg[p])
  BY <1>0, KernelSame DEF LinkFind, kernel
<1>2. PICK step \in {"linkAdd", "linkUp"} : /\ pc' = [pc EXCEPT ![p] = step]
                                            /\ step = "linkUp" => link # 0
  BY DEF LinkFind
<1>3. ProcType'
  BY <1>0, <1>2 DEF LinkFind, ProcType, KernelType, Places, SyncSteps, listed
<1>4. OthersSame(p) /\ pc'[p] = step /\ op' = op /\ cfg' = cfg /\ handle'[p] = link
  BY <1>0, <1>2 DEF LinkFind, ProcType, OthersSame, listed
<1>5. Ctl(p)' /\ Place(p)' = step
  BY <1>2, <1>4, MoveCtl DEF LinkFind, At, SyncSteps
<1>6. Reliable(p)'
  BY <1>5 DEF Reliable, AfterDevice, AfterAdd, AfterAddrs, AfterRoutes
<1> QED BY <1>1, <1>3, <1>4, <1>5, <1>6 DEF Sound

\* LinkAdd: there was no link, so no process relies on one.
LEMMA LinkAddStep ==
  ASSUME NEW p, Ready(p), LinkAdd(p)
  PROVE  Sound(p)
<1>0. ProcType /\ KernelType /\ p \in Procs
  BY DEF Ready, TypeInv
<1>1. link' = links + 1 /\ links' = links + 1 /\ links + 1 \in 0..MaxLinks /\ link = 0
  BY <1>0, ProcAssumption DEF LinkAdd, KernelType
<1>2. KernelType' /\ Keeps(cfg[p])
  BY <1>0, <1>1 DEF LinkAdd, KernelType, Keeps
<1>3. ProcType'
  BY <1>0, <1>1 DEF LinkAdd, ProcType, Places, SyncSteps, listed
<1>4. OthersSame(p) /\ pc'[p] = "linkUp" /\ op' = op /\ cfg' = cfg /\ handle'[p] # 0
  BY <1>0, <1>1 DEF LinkAdd, ProcType, KernelType, OthersSame, listed
<1>5. Ctl(p)' /\ Place(p)' = "linkUp"
  BY <1>4, MoveCtl DEF LinkAdd, At, SyncSteps
<1>6. Reliable(p)'
  BY <1>5 DEF Reliable, AfterDevice, AfterAdd, AfterAddrs, AfterRoutes
<1> QED BY <1>2, <1>3, <1>4, <1>5, <1>6 DEF Sound

\* LinkSetUp.
LEMMA LinkSetUpStep ==
  ASSUME NEW p, Ready(p), LinkSetUp(p)
  PROVE  Sound(p)
<1>0. ProcType /\ KernelType /\ p \in Procs
  BY DEF Ready, TypeInv
<1>1. link' = link /\ link # 0 /\ up'
  BY DEF LinkSetUp, At, Ready, Ctl
<1>2. KernelType' /\ Keeps(cfg[p])
  BY <1>0, <1>1 DEF LinkSetUp, KernelType, Keeps
<1>3. ProcType' /\ OthersSame(p) /\ pc'[p] = "device" /\ op' = op /\ cfg' = cfg
  BY <1>0, GoToEffect DEF LinkSetUp, Places, SyncSteps
<1>5. Ctl(p)' /\ Place(p)' = "device"
  BY <1>3, MoveCtl DEF LinkSetUp, At, SyncSteps
<1>6. Reliable(p)'
  BY <1>1, <1>5 DEF Reliable, AfterDevice, AfterAdd, AfterAddrs, AfterRoutes
<1> QED BY <1>2, <1>3, <1>5, <1>6 DEF Sound

\* ConfigureDevice.
LEMMA ConfigureDeviceStep ==
  ASSUME NEW p, Ready(p), ConfigureDevice(p)
  PROVE  Sound(p)
<1>0. ProcType /\ KernelType /\ p \in Procs /\ cfg[p] \in Cfgs /\ pc[p] = "device"
  BY DEF Ready, TypeInv, Ctl, ConfigureDevice, At
<1>1. link' = link /\ up' = up /\ wgPeers' = wgPeers \cup Peers[cfg[p]]
  BY DEF ConfigureDevice
<1>2. KernelType' /\ Keeps(cfg[p])
  BY <1>0, <1>1 DEF ConfigureDevice, KernelType, Keeps
<1>3. ProcType' /\ OthersSame(p) /\ pc'[p] = "addrList" /\ op' = op /\ cfg' = cfg
  BY <1>0, GoToEffect DEF ConfigureDevice, Places, SyncSteps
<1>5. Ctl(p)' /\ Place(p)' = "addrList"
  BY <1>0, <1>3, MoveCtl DEF SyncSteps
<1>6. ~disturbed[p] => Reliable(p)'
  BY <1>0, <1>1, <1>3, <1>5 DEF Ready, Place, Reliable, AfterDevice, AfterAdd, AfterAddrs, AfterRoutes
<1> QED BY <1>2, <1>3, <1>5, <1>6 DEF Sound

\* AddrList: what is listed is what is there.
LEMMA AddrListStep ==
  ASSUME NEW p, Ready(p), AddrList(p)
  PROVE  Sound(p)
<1>0. ProcType /\ KernelType /\ p \in Procs /\ pc[p] = "addrList"
  BY DEF Ready, TypeInv, AddrList, At
<1>1. KernelType' /\ Keeps(cfg[p]) /\ UNCHANGED <<link, up, wgPeers, addrs, routes>>
  BY <1>0, KernelSame DEF AddrList, kernel
<1>3. ProcType'
  BY <1>0 DEF AddrList, ProcType, KernelType, Places, SyncSteps
<1>4. OthersSame(p) /\ pc'[p] = "addrAdd" /\ op' = op /\ cfg' = cfg /\ seenAddrs'[p] = addrs
  BY <1>0 DEF AddrList, ProcType, OthersSame
<1>5. Ctl(p)' /\ Place(p)' = "addrAdd"
  BY <1>0, <1>4, MoveCtl DEF SyncSteps
<1>6. ~disturbed[p] => Reliable(p)'
  BY <1>0, <1>1, <1>4, <1>5 DEF Ready, Place, Reliable, AfterDevice, AfterAdd, AfterAddrs, AfterRoutes
<1> QED BY <1>1, <1>3, <1>4, <1>5, <1>6 DEF Sound

\* AddrAdd, complete or failing on the way.
LEMMA AddrAddStep ==
  ASSUME NEW p, Ready(p), AddrAdd(p)
  PROVE  Sound(p)
<1> DEFINE missing == Address[cfg[p]] \ seenAddrs[p]
<1>0. ProcType /\ KernelType /\ p \in Procs /\ cfg[p] \in Cfgs /\ pc[p] = "addrAdd"
  BY DEF Ready, TypeInv, Ctl, AddrAdd, At
<1>1. PICK some \in SUBSET missing : addrs' = addrs \cup some
  BY DEF AddrAdd
<1>2. KernelType' /\ Keeps(cfg[p])
  BY <1>0, <1>1 DEF AddrAdd, KernelType, Keeps
<1>3. CASE addrs' = addrs \cup missing /\ GoTo(p, "addrDel")
  <2>1. /\ ProcType' /\ OthersSame(p) /\ pc'[p] = "addrDel" /\ op' = op /\ cfg' = cfg
        /\ seenAddrs' = seenAddrs
    BY <1>0, <1>3, GoToEffect DEF Places, SyncSteps
  <2>2. Ctl(p)' /\ Place(p)' = "addrDel"
    BY <1>0, <2>1, MoveCtl DEF SyncSteps
  <2>3. link' = link /\ up' = up /\ wgPeers' = wgPeers
    BY DEF AddrAdd
  <2>4. ~disturbed[p] => Reliable(p)'
    BY <1>0, <1>3, <2>1, <2>2, <2>3
    DEF Ready, Place, Reliable, AfterDevice, AfterAdd, AfterAddrs, AfterRoutes
  <2> QED BY <1>2, <2>1, <2>2, <2>4 DEF Sound
<1>4. CASE Abort(p)
  BY <1>0, <1>2, <1>4, AbortEffect DEF Sound
<1> QED BY <1>3, <1>4 DEF AddrAdd

\* AfterSync: the last step of a sync goes on to PostUp or ends the command; of
\* what follows, "postUp" and "set up" promise the same.
LEMMA AfterSyncEffect ==
  ASSUME NEW p, Ready(p), pc[p] \in SyncSteps, AfterSync(p)
  PROVE  /\ ProcType' /\ OthersSame(p) /\ Ctl(p)'
         /\ cfg'[p] = cfg[p] /\ Place(p)' \in AfterRoutes
<1>0. ProcType /\ p \in Procs
  BY DEF Ready, TypeInv
<1>1. CASE op[p] = "sync" /\ Finish(p, "ok")
  <2>1. /\ ProcType' /\ OthersSame(p) /\ pc'[p] = "idle" /\ result'[p] = "ok"
        /\ cfg'[p] = cfg[p] /\ op'[p] = op[p]
    BY <1>0, <1>1, FinishEffect
  <2> QED BY <1>1, <2>1, EndCtl DEF AfterRoutes
<1>2. CASE GoTo(p, "postUp")
  <2>1. ProcType' /\ OthersSame(p) /\ pc'[p] = "postUp" /\ op' = op /\ cfg' = cfg
    BY <1>0, <1>2, GoToEffect DEF Places, UpSteps
  <2> QED BY <2>1, MoveCtl DEF UpSteps, AfterRoutes
<1> QED BY <1>1, <1>2 DEF AfterSync

\* AddrDel: of the listed addresses those that the configuration lacks go, all or
\* some; none that it has.
LEMMA AddrDelStep ==
  ASSUME NEW p, Ready(p), AddrDel(p)
  PROVE  Sound(p)
<1> DEFINE extra == seenAddrs[p] \ Address[cfg[p]]
<1>0. ProcType /\ KernelType /\ p \in Procs /\ cfg[p] \in Cfgs /\ pc[p] = "addrDel"
  BY DEF Ready, TypeInv, Ctl, AddrDel, At
<1>1. PICK some \in SUBSET extra : addrs' = addrs \ some
  BY DEF AddrDel
<1>2. KernelType' /\ Keeps(cfg[p])
  BY <1>0, <1>1 DEF AddrDel, KernelType, Keeps
<1>3. CASE addrs' = addrs \ extra /\ AfterAddresses(p)
  <2>0. link' = link /\ up' = up /\ wgPeers' = wgPeers
    BY DEF AddrDel
  <2>1. CASE cfg[p] \in TableOff /\ AfterSync(p)
    <3>1. /\ ProcType' /\ OthersSame(p) /\ Ctl(p)'
          /\ cfg'[p] = cfg[p] /\ Place(p)' \in AfterRoutes
      BY <1>0, <2>1, AfterSyncEffect DEF SyncSteps
    <3>2. ~disturbed[p] => Reliable(p)'
      BY <1>0, <1>3, <2>0, <2>1, <3>1
      DEF Ready, Place, Reliable, AfterDevice, AfterAdd, AfterAddrs, AfterRoutes
    <3> QED BY <1>2, <3>1, <3>2 DEF Sound
  <2>2. CASE GoTo(p, "routeAdd")
    <3>1. ProcType' /\ OthersSame(p) /\ pc'[p] = "routeAdd" /\ op' = op /\ cfg' = cfg
      BY <1>0, <2>2, GoToEffect DEF Places, SyncSteps
    <3>2. Ctl(p)' /\ Place(p)' = "routeAdd"
      BY <1>0, <3>1, MoveCtl DEF SyncSteps
    <3>3. ~disturbed[p] => Reliable(p)'
      BY <1>0, <1>3, <2>0, <3>1, <3>2
      DEF Ready, Place, Reliable, AfterDevice, AfterAdd, AfterAddrs, AfterRoutes
    <3> QED BY <1>2, <3>1, <3>2, <3>3 DEF Sound
  <2> QED BY <1>3, <2>1, <2>2 DEF AfterAddresses
<1>4. CASE Abort(p)
  BY <1>0, <1>2, <1>4, AbortEffect DEF Sound
<1> QED BY <1>3, <1>4 DEF AddrDel

\* RouteAdd, complete or failing on the way.
LEMMA RouteAddStep ==
  ASSUME NEW p, Ready(p), RouteAdd(p)
  PROVE  Sound(p)
<1> DEFINE wanted == Wanted(cfg[p])
<1>0. ProcType /\ KernelType /\ p \in Procs /\ cfg[p] \in Cfgs /\ pc[p] = "routeAdd"
  BY DEF Ready, TypeInv, Ctl, RouteAdd, At
<1>1. PICK some \in SUBSET wanted : routes' = routes \cup some
  BY DEF RouteAdd
<1>2. KernelType' /\ Keeps(cfg[p])
  BY <1>0, <1>1 DEF RouteAdd, KernelType, Keeps
<1>3. CASE /\ routes' = routes \cup wanted
           /\ seenRoutes' = [seenRoutes EXCEPT ![p] = routes]
           /\ pc' = [pc EXCEPT ![p] = "routeDel"]
           /\ UNCHANGED <<op, cfg, handle, seenAddrs, tries, result>>
  <2>1. ProcType'
    BY <1>0, <1>3 DEF ProcType, KernelType, Places, SyncSteps
  <2>2. OthersSame(p) /\ pc'[p] = "routeDel"
    BY <1>0, <1>3 DEF ProcType, OthersSame
  <2>3. Ctl(p)' /\ Place(p)' = "routeDel"
    BY <1>0, <1>3, <2>2, MoveCtl DEF SyncSteps
  <2>4. link' = link /\ up' = up /\ wgPeers' = wgPeers /\ addrs' = addrs
    BY DEF RouteAdd
  <2>5. ~disturbed[p] => Reliable(p)'
    BY <1>0, <1>3, <2>2, <2>3, <2>4
    DEF Ready, Place, Reliable, AfterDevice, AfterAdd, AfterAddrs, AfterRoutes
  <2> QED BY <1>2, <2>1, <2>2, <2>3, <2>5 DEF Sound
<1>4. CASE Abort(p)
  BY <1>0, <1>2, <1>4, AbortEffect DEF Sound
<1> QED BY <1>3, <1>4 DEF RouteAdd

\* RouteDel deletes no route that the configuration names.
LEMMA RouteDelStep ==
  ASSUME NEW p, Ready(p), RouteDel(p)
  PROVE  Sound(p)
<1>0. ProcType /\ KernelType /\ p \in Procs /\ cfg[p] \in Cfgs /\ pc[p] = "routeDel"
  BY DEF Ready, TypeInv, Ctl, RouteDel, At
<1>1. /\ routes' = routes \ Deletable(p) /\ Deletable(p) \cap Wanted(cfg[p]) = {}
      /\ link' = link /\ up' = up /\ wgPeers' = wgPeers /\ addrs' = addrs
  BY DEF RouteDel, Deletable
<1>2. KernelType' /\ Keeps(cfg[p])
  BY <1>0, <1>1 DEF RouteDel, KernelType, Keeps
<1>3. /\ ProcType' /\ OthersSame(p) /\ Ctl(p)'
      /\ cfg'[p] = cfg[p] /\ Place(p)' \in AfterRoutes
  BY <1>0, AfterSyncEffect DEF RouteDel, SyncSteps
<1>4. ~disturbed[p] => Reliable(p)'
  BY <1>0, <1>1, <1>3
  DEF Ready, Place, Reliable, AfterDevice, AfterAdd, AfterAddrs, AfterRoutes
<1> QED BY <1>2, <1>3, <1>4 DEF Sound

\* PostUp ends up, boot or bounce with success.
LEMMA PostUpStep ==
  ASSUME NEW p, Ready(p), PostUp(p)
  PROVE  Sound(p)
<1>0. ProcType /\ KernelType /\ p \in Procs /\ pc[p] = "postUp" /\ op[p] # "down"
  BY DEF Ready, TypeInv, PostUp, At, Ctl, UpSteps
<1>1. KernelType' /\ Keeps(cfg[p]) /\ UNCHANGED <<link, up, wgPeers, addrs, routes>>
  BY <1>0, KernelSame DEF PostUp, kernel
<1>2. /\ ProcType' /\ OthersSame(p) /\ pc'[p] = "idle" /\ result'[p] = "ok"
      /\ cfg'[p] = cfg[p] /\ op'[p] = op[p]
  BY <1>0, FinishEffect DEF PostUp
<1>3. Ctl(p)' /\ Place(p)' = "set up"
  BY <1>0, <1>2, EndCtl
<1>4. ~disturbed[p] => Reliable(p)'
  BY <1>0, <1>1, <1>2, <1>3
  DEF Ready, Place, Reliable, AfterDevice, AfterAdd, AfterAddrs, AfterRoutes
<1> QED BY <1>1, <1>2, <1>3, <1>4 DEF Sound

\* The steps of Down.
LEMMA DownStep ==
  ASSUME NEW p, Ready(p),
         DownCheck(p) \/ DownDns(p) \/ PreDown(p) \/ LinkDel(p) \/ PostDown(p)
  PROVE  Sound(p)
<1>0. /\ ProcType /\ KernelType /\ p \in Procs /\ pc[p] \in DownSteps
      /\ op[p] \in {"down", "bounce"}
  BY DEF Ready, TypeInv, Ctl, DownCheck, DownDns, PreDown, LinkDel, PostDown, At, DownSteps
<1>1. KernelType'
  <2>1. CASE UNCHANGED kernel
    BY <1>0, <2>1 DEF kernel, KernelType
  <2>2. CASE LinkDel(p)
    <3>1. link' \in 0..MaxLinks /\ links' \in 0..MaxLinks
      BY <1>0, <2>2, ProcAssumption DEF LinkDel, KernelType
    <3>2. up' = FALSE /\ wgPeers' = {} /\ addrs' = {} /\ routes' = {}
      BY <2>2 DEF LinkDel
    <3> QED BY <3>1, <3>2 DEF KernelType
  <2> QED BY <2>1, <2>2 DEF DownCheck, DownDns, PreDown, PostDown
<1>2. CASE DownCheck(p)
  <2>1. ProcType'
    BY <1>0, <1>2 DEF DownCheck, ProcType, KernelType, Places, DownSteps, listed
  <2>2. OthersSame(p) /\ pc'[p] = "downDns" /\ op' = op /\ cfg' = cfg /\ link' # 0
    BY <1>0, <1>2 DEF DownCheck, ProcType, OthersSame, listed, kernel
  <2>3. Ctl(p)' /\ Place(p)' = "downDns"
    BY <1>0, <2>2, MoveCtl DEF DownSteps
  <2>4. Reliable(p)'
    BY <2>2, <2>3 DEF Reliable, AfterDevice, AfterAdd, AfterAddrs, AfterRoutes
  <2> QED BY <1>0, <1>1, <2>1, <2>2, <2>3, <2>4 DEF Sound
<1>3. ASSUME NEW step \in {"preDown", "linkDel", "postDown", "upCheck"}, GoTo(p, step),
             step = "upCheck" => op[p] = "bounce",
             ~disturbed[p] => /\ step \in {"preDown", "linkDel"} => link' # 0
                              /\ step = "postDown" => link' = 0
      PROVE  Sound(p)
  <2>1. ProcType' /\ OthersSame(p) /\ pc'[p] = step /\ op' = op /\ cfg' = cfg
    BY <1>0, <1>3, GoToEffect DEF Places, DownSteps, UpSteps
  <2>2. Ctl(p)' /\ Place(p)' = step
    BY <1>0, <1>3, <2>1, MoveCtl DEF DownSteps
  <2>3. ~disturbed[p] => Reliable(p)'
    BY <1>3, <2>2 DEF Reliable, AfterDevice, AfterAdd, AfterAddrs, AfterRoutes
  <2> QED BY <1>0, <1>1, <2>1, <2>2, <2>3 DEF Sound
<1>4. CASE DownDns(p)
  <2>1. ~disturbed[p] => link' # 0
    BY <1>4 DEF DownDns, At, Ready, Place, Reliable, kernel
  <2> QED BY <1>3, <1>4, <2>1 DEF DownDns
<1>5. CASE PreDown(p)
  <2>1. ~disturbed[p] => link' # 0
    BY <1>5 DEF PreDown, At, Ready, Place, Reliable, kernel
  <2> QED BY <1>3, <1>5, <2>1 DEF PreDown
<1>6. CASE LinkDel(p)
  BY <1>3, <1>6 DEF LinkDel
<1>7. CASE PostDown(p) /\ op[p] = "bounce"
  BY <1>3, <1>7 DEF PostDown
<1>8. CASE PostDown(p) /\ op[p] = "down"
  <2>1. /\ ProcType' /\ OthersSame(p) /\ pc'[p] = "idle" /\ result'[p] = "ok"
        /\ cfg'[p] = cfg[p] /\ op'[p] = op[p]
    BY <1>0, <1>8, FinishEffect DEF PostDown
  <2>2. Ctl(p)' /\ Place(p)' = "taken down"
    BY <1>8, <2>1, EndCtl
  <2>3. ~disturbed[p] => link' = 0
    BY <1>8 DEF PostDown, At, Ready, Place, Reliable, kernel
  <2>4. ~disturbed[p] => Reliable(p)'
    BY <2>2, <2>3 DEF Reliable, AfterDevice, AfterAdd, AfterAddrs, AfterRoutes
  <2> QED BY <1>0, <1>1, <2>1, <2>2, <2>4 DEF Sound
<1> QED BY <1>0, <1>2, <1>4, <1>5, <1>6, <1>7, <1>8

\* Every step of a command.
LEMMA StepSound ==
  ASSUME NEW p, Ready(p), Step(p)
  PROVE  Sound(p)
BY EarlyStep, FailStep, LinkFindStep, LinkAddStep, LinkSetUpStep, ConfigureDeviceStep,
   AddrListStep, AddrAddStep, AddrDelStep, RouteAddStep, RouteDelStep, PostUpStep, DownStep
   DEF Step
----------------------------------------------------------------------------

\* What a process relies on survives a step of another that wants the same content.
LEMMA KeepsReliable ==
  ASSUME NEW q, Keeps(cfg[q]), Reliable(q), Place(q) \in {"idle", "set up"} \cup UpSteps \cup SyncSteps,
         Place(q)' = Place(q), cfg'[q] = cfg[q], seenAddrs'[q] = seenAddrs[q]
  PROVE  Reliable(q)'
<1>1. /\ Place(q) \in {"device"} \cup AfterDevice => link' # 0 /\ up'
      /\ Place(q) \in AfterDevice => Peers[cfg[q]] \subseteq wgPeers'
  BY DEF Keeps, Reliable
<1>2. /\ Place(q) = "addrAdd" => Address[cfg[q]] \cap seenAddrs[q] \subseteq addrs'
      /\ Place(q) \in {"addrAdd", "addrDel"} => addrs' \ Address[cfg[q]] \subseteq seenAddrs[q]
      /\ Place(q) \in AfterAdd => Address[cfg[q]] \subseteq addrs'
      /\ Place(q) \in AfterAddrs => addrs' \subseteq Address[cfg[q]]
  BY DEF Keeps, Reliable
<1>3. Place(q) \in {"routeDel"} \cup AfterRoutes /\ cfg[q] \notin TableOff
        => Wanted(cfg[q]) \subseteq routes'
  BY DEF Keeps, Reliable
<1>4. Place(q) \notin {"downDns", "preDown", "linkDel", "postDown", "taken down"}
  BY DEF UpSteps, SyncSteps
<1>5. Wanted(cfg[q])' = Wanted(cfg[q])
  BY DEF Wanted, Filled, RouteProtocol
<1> QED BY <1>1, <1>2, <1>3, <1>4, <1>5 DEF Reliable

\* A process that is not disturbed by a step of another one keeps what it relies on.
LEMMA OtherReliable ==
  ASSUME Inv, NEW p \in Procs, NEW q \in Procs \ {p}, Step(p), Sound(p),
         Disturb(p), ~disturbed'[q]
  PROVE  Reliable(q)'
<1>1. /\ op'[q] = op[q] /\ pc'[q] = pc[q] /\ cfg'[q] = cfg[q]
      /\ seenAddrs'[q] = seenAddrs[q] /\ result'[q] = result[q]
  BY DEF Sound, OthersSame
<1>2. Place(q)' = Place(q)
  BY <1>1 DEF Place
<1>3. CASE Place(q) = "idle"
  BY <1>2, <1>3 DEF Reliable, AfterDevice, AfterAdd, AfterAddrs, AfterRoutes
<1>4. CASE Place(q) # "idle"
  <2>1. cfg[q] \in Cfgs /\ Ctl(q)
    BY <1>4 DEF Inv, Ctl, Place
  <2>2. ~disturbed[q] /\ SameAim(p, q)
    BY <2>1, CfgAssumption DEF Disturb, Inv, TypeInv
  <2>3. /\ cfg[q] = cfg[p] /\ pc[p] \notin DownSteps /\ pc[q] \notin DownSteps
        /\ op[q] # "down"
    BY <2>2 DEF SameAim
  <2>4. Keeps(cfg[q]) /\ Reliable(q)
    BY <2>2, <2>3 DEF Sound, Inv
  <2>5. Place(q) \in {"idle", "set up"} \cup UpSteps \cup SyncSteps
    BY <2>3 DEF Place, Inv, TypeInv, ProcType, Places
  <2> QED BY <1>1, <1>2, <2>4, <2>5, KeepsReliable
<1> QED BY <1>3, <1>4

\* A command begins: nothing is promised yet, and nothing else changes.
LEMMA CommandInv ==
  ASSUME Inv, NEW p \in Procs, Command(p)
  PROVE  Inv'
<1>0. TypeInv /\ ProcType
  BY DEF Inv, TypeInv
<1>1. PICK o \in Ops, first \in {"upCheck", "downCheck", "linkFind"} :
        /\ Begin(p, o, first) /\ tries' \in [Procs -> 0..Times]
        /\ first = "downCheck" => o \in {"down", "bounce"}
        /\ first # "downCheck" => o # "down"
  BY <1>0, ProcAssumption
  DEF Command, UpCommand, DownCommand, SyncCommand, BounceCommand, StartOnBoot, ProcType, Ops
<1>2. UNCHANGED kernel /\ file' = file /\ handle' = handle /\ UNCHANGED listed
  BY <1>1 DEF Begin
<1>3. ProcType'
  BY <1>0, <1>1, <1>2 DEF Begin, ProcType, TypeInv, Places, UpSteps, DownSteps, SyncSteps, listed
<1>4. TypeInv'
  BY <1>0, <1>1, <1>2, <1>3 DEF Begin, TypeInv, KernelType, kernel
<1>5. OthersSame(p) /\ \A q \in Procs \ {p} : disturbed'[q] = disturbed[q]
  BY <1>0, <1>1, <1>2 DEF Begin, TypeInv, ProcType, OthersSame, listed
<1>6. /\ pc'[p] = first /\ op'[p] = o /\ cfg'[p] \in Cfgs /\ result'[p] = "none"
  BY <1>0, <1>1 DEF Begin, TypeInv, ProcType
<1>7. Ctl(p)'
  BY <1>1, <1>6 DEF Ctl, UpSteps, DownSteps, SyncSteps
<1>8. Reliable(p)'
  <2>1. Place(p)' \in {"upCheck", "downCheck", "linkFind"}
    BY <1>6 DEF Place
  <2> QED BY <2>1 DEF Reliable, AfterDevice, AfterAdd, AfterAddrs, AfterRoutes
<1>9. ASSUME NEW q \in Procs \ {p}
      PROVE  Ctl(q)' /\ (~disturbed'[q] => Reliable(q)')
  <2>1. Ctl(q)'
    BY <1>5 DEF Inv, Ctl, OthersSame
  <2>2. Place(q)' = Place(q)
    BY <1>5 DEF Place, OthersSame
  <2>3. /\ cfg'[q] = cfg[q] /\ seenAddrs'[q] = seenAddrs[q] /\ disturbed'[q] = disturbed[q]
        /\ Wanted(cfg[q])' = Wanted(cfg[q])
    BY <1>5 DEF OthersSame, Wanted, Filled, RouteProtocol
  <2> QED BY <1>2, <2>1, <2>2, <2>3 DEF Inv, Reliable, kernel
<1> QED BY <1>4, <1>7, <1>8, <1>9 DEF Inv

\* A step of a command.
LEMMA StepInv ==
  ASSUME Inv, NEW p \in Procs, Step(p)
  PROVE  Inv'
<1>1. Disturb(p) /\ file' = file /\ pc[p] # "idle"
  BY DEF Step, UpCheck, UpDns, PreUp, PostUp, LinkFind, LinkAdd, LinkSetUp, ConfigureDevice,
         AddrList, AddrAdd, AddrDel, RouteAdd, RouteDel, DownCheck, DownDns, PreDown, LinkDel,
         PostDown, Fail, Running, At
<1>2. Sound(p)
  BY <1>1, StepSound DEF Ready, Inv
<1>3. disturbed' \in [Procs -> BOOLEAN] /\ disturbed'[p] = disturbed[p]
  BY <1>1 DEF Disturb, Inv, TypeInv
<1>4. TypeInv'
  BY <1>1, <1>2, <1>3 DEF Sound, TypeInv, Inv
<1>5. Ctl(p)' /\ (~disturbed'[p] => Reliable(p)')
  BY <1>2, <1>3 DEF Sound
<1>6. ASSUME NEW q \in Procs \ {p}
      PROVE  Ctl(q)' /\ (~disturbed'[q] => Reliable(q)')
  <2>1. Ctl(q)'
    BY <1>2 DEF Sound, OthersSame, Inv, Ctl
  <2> QED BY <1>1, <1>2, <2>1, OtherReliable
<1> QED BY <1>4, <1>5, <1>6 DEF Inv

\* Without a change of anything but the file.
LEMMA FrameInv ==
  ASSUME Inv, UNCHANGED <<kernel, process, disturbed>>, file' \in Cfgs
  PROVE  Inv'
<1>1. TypeInv'
  BY DEF Inv, TypeInv, KernelType, ProcType, kernel, process, listed
<1>2. ASSUME NEW q \in Procs
      PROVE  Ctl(q)' /\ (~disturbed'[q] => Reliable(q)')
  <2>1. Ctl(q)' /\ Place(q)' = Place(q)
    BY DEF Inv, Ctl, Place, process
  <2>2. Wanted(cfg[q])' = Wanted(cfg[q])
    BY DEF Wanted, Filled, RouteProtocol, process
  <2> QED BY <2>1, <2>2 DEF Inv, Reliable, kernel, process, listed
<1> QED BY <1>1, <1>2 DEF Inv

\* The inductive invariant holds.
LEMMA Invariant == Spec => []Inv
<1>1. Init => Inv
  <2> SUFFICES ASSUME Init PROVE Inv
    OBVIOUS
  <2>1. KernelType
    <3>1. link \in 0..MaxLinks /\ links \in 0..MaxLinks
      BY ProcAssumption DEF Init
    <3>2. up = FALSE /\ wgPeers = {} /\ addrs = {} /\ routes = {}
      BY DEF Init
    <3> QED BY <3>1, <3>2 DEF KernelType
  <2>2. ProcType
    BY ProcAssumption DEF Init, ProcType, Places
  <2>3. TypeInv
    BY <2>1, <2>2 DEF Init, TypeInv
  <2>4. ASSUME NEW p \in Procs PROVE Ctl(p) /\ Reliable(p)
    <3>1. pc[p] = "idle" /\ result[p] = "none"
      BY DEF Init
    <3>2. Place(p) = "idle"
      BY <3>1 DEF Place
    <3> QED BY <3>1, <3>2 DEF Ctl, UpSteps, DownSteps, SyncSteps, Reliable, AfterDevice,
                              AfterAdd, AfterAddrs, AfterRoutes
  <2> QED BY <2>3, <2>4 DEF Inv
<1>2. Inv /\ [Next]_vars => Inv'
  <2> SUFFICES ASSUME Inv, [Next]_vars PROVE Inv'
    OBVIOUS
  <2>1. ASSUME NEW p \in Procs, Step(p) \/ Command(p) PROVE Inv'
    BY <2>1, StepInv, CommandInv
  <2>2. ASSUME NEW c \in Cfgs, Edit(c) PROVE Inv'
    BY <2>2, FrameInv DEF Edit
  <2>3. CASE UNCHANGED vars
    BY <2>3, FrameInv DEF vars, Inv, TypeInv
  <2> QED BY <2>1, <2>2, <2>3 DEF Next
<1> QED BY <1>1, <1>2, PTL DEF Spec
----------------------------------------------------------------------------

\* Where a command that brings the interface up has called resolvconf.
AfterDns == {"preUp"} \cup SyncSteps \cup AfterRoutes

\* What an undisturbed one has handed over is still there, or other entries of the
\* same content.
Served(p) ==
  ~disturbed[p] /\ Place(p) \in AfterDns /\ op[p] \in {"boot", "up", "bounce"}
    /\ Entries(cfg[p]) # {} => resolv \in Entries(cfg[p])

DnsInv == \A p \in Procs : Served(p)

\* UpDns writes entries of the configuration only, and all of them if it succeeds.
LEMMA DnsWritten ==
  ASSUME NEW p, cfg[p] \in Cfgs, UpDns(p)
  PROVE  /\ resolv' = resolv \/ resolv' \in Entries(cfg[p])
         /\ GoTo(p, "preUp") /\ Entries(cfg[p]) # {} => resolv' \in Entries(cfg[p])
         /\ GoTo(p, "preUp") \/ Abort(p)
<1> DEFINE servers == Servers[cfg[p]]
<1>1. servers \in Seq(Entries(cfg[p]))
  BY CfgAssumption
<1>2. \A n \in 1..Len(servers) : servers[n] \in Entries(cfg[p])
  BY <1>1
<1>3. servers # <<>> => Len(servers) \in 1..Len(servers)
  BY <1>1
<1>4. servers = <<>> => Entries(cfg[p]) = {}
  BY DEF Entries
<1>5. Len(servers) \in Nat
  BY <1>1
<1>6. CASE GoTo(p, "preUp") /\ resolv' = IF servers = <<>> THEN resolv ELSE servers[Len(servers)]
  BY <1>2, <1>3, <1>4, <1>6
<1>7. ASSUME NEW n \in 1..Len(servers) - 1, resolv' = servers[n]
      PROVE  resolv' \in Entries(cfg[p])
  BY <1>2, <1>5, <1>7
<1>8. CASE \E n \in 1..Len(servers) - 1 : resolv' = servers[n] /\ Abort(p)
  BY <1>7, <1>8
<1> QED BY <1>6, <1>8 DEF UpDns

\* No other step writes one.
LEMMA DnsKept ==
  ASSUME NEW p, Step(p), ~UpDns(p)
  PROVE  resolv' = resolv
BY DEF Step, UpCheck, PreUp, PostUp, LinkFind, LinkAdd, LinkSetUp, ConfigureDevice,
       AddrList, AddrAdd, AddrDel, RouteAdd, RouteDel, DownCheck, DownDns, PreDown, LinkDel,
       PostDown, Fail, kernel

\* A command that is past UpDns has been there before this step, or has just left
\* UpDns, with success.
LEMMA DnsPlaces ==
  ASSUME Inv, NEW p \in Procs, Step(p), Place(p)' \in AfterDns, op'[p] # "sync"
  PROVE  /\ op'[p] = op[p] /\ cfg'[p] = cfg[p]
         /\ Place(p) \in AfterDns \/ (UpDns(p) /\ GoTo(p, "preUp"))
<1>0. ProcType /\ Ctl(p) /\ pc[p] # "idle" /\ Place(p) = pc[p] /\ Ready(p)
  BY DEF Inv, TypeInv, Ready, Place, Step, UpCheck, UpDns, PreUp, PostUp, LinkFind, LinkAdd,
         LinkSetUp, ConfigureDevice, AddrList, AddrAdd, AddrDel, RouteAdd, RouteDel, DownCheck,
         DownDns, PreDown, LinkDel, PostDown, Fail, Running, At
<1>1. ~(Abort(p) /\ TRUE)
  <2> SUFFICES ASSUME Abort(p) PROVE FALSE
    OBVIOUS
  <2>1. pc'[p] = "upCheck" \/ (pc'[p] = "idle" /\ result'[p] = "failed")
    BY <1>0 DEF Abort, Retry, BounceUp, GoTo, Finish, ProcType
  <2>2. Place(p)' \in {"upCheck", "idle"}
    BY <2>1 DEF Place
  <2> QED BY <2>2 DEF AfterDns, AfterRoutes, SyncSteps
<1>2. ASSUME NEW step, GoTo(p, step)
      PROVE  pc'[p] = step /\ op'[p] = op[p] /\ cfg'[p] = cfg[p]
  BY <1>0, <1>2 DEF GoTo, ProcType
<1>3. ASSUME NEW r \in {"ok", "exist"}, Finish(p, r)
      PROVE  pc'[p] = "idle" /\ result'[p] = r /\ op'[p] = op[p] /\ cfg'[p] = cfg[p]
  BY <1>0, <1>3 DEF Finish, ProcType
<1>4. AfterSync(p) => op'[p] = op[p] /\ cfg'[p] = cfg[p]
  BY <1>2, <1>3 DEF AfterSync
<1>5. AfterAddresses(p) => op'[p] = op[p] /\ cfg'[p] = cfg[p]
  BY <1>2, <1>4 DEF AfterAddresses
<1>6. CASE PreUp(p) \/ PostUp(p) \/ LinkSetUp(p) \/ ConfigureDevice(p)
  <2>1. op'[p] = op[p] /\ cfg'[p] = cfg[p]
    BY <1>2, <1>3, <1>6 DEF PreUp, PostUp, LinkSetUp, ConfigureDevice
  <2>2. Place(p) \in AfterDns
    BY <1>0, <1>6 DEF PreUp, PostUp, LinkSetUp, ConfigureDevice, At, AfterDns, SyncSteps,
                      AfterRoutes
  <2> QED BY <2>1, <2>2
<1>7. CASE LinkFind(p) \/ LinkAdd(p) \/ AddrList(p)
  BY <1>0, <1>7 DEF LinkFind, LinkAdd, AddrList, At, AfterDns, SyncSteps
<1>8. CASE AddrAdd(p) \/ AddrDel(p) \/ RouteAdd(p) \/ RouteDel(p)
  <2>1. op'[p] = op[p] /\ cfg'[p] = cfg[p]
    BY <1>1, <1>2, <1>4, <1>5, <1>8 DEF AddrAdd, AddrDel, RouteAdd, RouteDel
  <2>2. Place(p) \in AfterDns
    BY <1>0, <1>8 DEF AddrAdd, AddrDel, RouteAdd, RouteDel, At, AfterDns, SyncSteps
  <2> QED BY <2>1, <2>2
<1>9. CASE UpDns(p)
  <2>1. cfg[p] \in Cfgs
    BY <1>0 DEF Ctl
  <2> QED BY <1>1, <1>2, <1>9, <2>1, DnsWritten
<1>10. ~UpCheck(p)
  <2> SUFFICES ASSUME UpCheck(p) PROVE FALSE
    OBVIOUS
  <2>1. pc'[p] = "upDns" \/ (pc'[p] = "idle" /\ result'[p] = "exist")
    BY <1>2, <1>3 DEF UpCheck
  <2>2. Place(p)' \in {"upDns", "idle"}
    BY <2>1 DEF Place
  <2> QED BY <2>2 DEF AfterDns, AfterRoutes, SyncSteps
<1>11. ~(DownCheck(p) \/ DownDns(p) \/ PreDown(p) \/ LinkDel(p) \/ PostDown(p))
  <2> SUFFICES ASSUME DownCheck(p) \/ DownDns(p) \/ PreDown(p) \/ LinkDel(p) \/ PostDown(p)
               PROVE  FALSE
    OBVIOUS
  <2>1. op[p] \in {"down", "bounce"}
    BY <1>0 DEF Ctl, DownCheck, DownDns, PreDown, LinkDel, PostDown, At, DownSteps
  <2>2. DownCheck(p) => pc'[p] = "downDns"
    BY <1>0 DEF DownCheck, ProcType
  <2>3. \/ pc'[p] \in DownSteps \cup {"upCheck"}
        \/ pc'[p] = "idle" /\ op'[p] = "down"
    BY <1>2, <1>3, <2>1, <2>2 DEF DownDns, PreDown, LinkDel, PostDown, DownSteps
  <2>4. Place(p)' \in DownSteps \cup {"upCheck", "idle", "taken down"}
    BY <2>3 DEF Place, DownSteps
  <2> QED BY <2>4 DEF AfterDns, AfterRoutes, SyncSteps, DownSteps
<1>12. ~Fail(p)
  BY <1>1 DEF Fail
<1> QED BY <1>6, <1>7, <1>8, <1>9, <1>10, <1>11, <1>12 DEF Step

\* A step of a command leaves every undisturbed one what it has handed over.
LEMMA DnsStep ==
  ASSUME Inv, DnsInv, NEW p \in Procs, Step(p)
  PROVE  DnsInv'
<1>1. /\ Disturb(p) /\ pc[p] # "idle" /\ cfg[p] \in Cfgs /\ TypeInv
  BY DEF Inv, Ctl, Step, UpCheck, UpDns, PreUp, PostUp, LinkFind, LinkAdd, LinkSetUp,
         ConfigureDevice, AddrList, AddrAdd, AddrDel, RouteAdd, RouteDel, DownCheck, DownDns,
         PreDown, LinkDel, PostDown, Fail, Running, At
<1>2. Sound(p)
  BY <1>1, StepSound DEF Ready, Inv
<1>3. resolv' = resolv \/ resolv' \in Entries(cfg[p])
  BY <1>1, DnsWritten, DnsKept
<1>4. Served(p)'
  <2> SUFFICES ASSUME ~disturbed'[p], Place(p)' \in AfterDns, op'[p] \in {"boot", "up", "bounce"},
                      Entries(cfg'[p]) # {}
               PROVE  resolv' \in Entries(cfg'[p])
    BY DEF Served, Entries
  <2>1. /\ op'[p] = op[p] /\ cfg'[p] = cfg[p]
        /\ Place(p) \in AfterDns \/ (UpDns(p) /\ GoTo(p, "preUp"))
    BY DnsPlaces
  <2>2. ~disturbed[p]
    BY <1>1 DEF Disturb, TypeInv
  <2>3. CASE Place(p) \in AfterDns
    BY <1>3, <2>1, <2>2, <2>3 DEF DnsInv, Served
  <2>4. CASE UpDns(p) /\ GoTo(p, "preUp")
    BY <1>1, <2>1, <2>4, DnsWritten
  <2> QED BY <2>1, <2>3, <2>4
<1>5. ASSUME NEW q \in Procs \ {p} PROVE Served(q)'
  <2> SUFFICES ASSUME ~disturbed'[q], Place(q)' \in AfterDns, op'[q] \in {"boot", "up", "bounce"},
                      Entries(cfg'[q]) # {}
               PROVE  resolv' \in Entries(cfg'[q])
    BY DEF Served, Entries
  <2>1. op'[q] = op[q] /\ pc'[q] = pc[q] /\ cfg'[q] = cfg[q] /\ result'[q] = result[q]
    BY <1>2 DEF Sound, OthersSame
  <2>2. Place(q) \in AfterDns
    BY <2>1 DEF Place
  <2>3. cfg[q] \in Cfgs
    BY <2>2 DEF Inv, Ctl, Place, AfterDns, SyncSteps, AfterRoutes
  <2>4. ~disturbed[q] /\ SameAim(p, q)
    BY <1>1, <2>3, CfgAssumption DEF Disturb, TypeInv
  <2>5. resolv \in Entries(cfg[q]) /\ cfg[q] = cfg[p]
    BY <2>1, <2>2, <2>4 DEF DnsInv, Served, SameAim
  <2> QED BY <1>3, <2>1, <2>5
<1> QED BY <1>4, <1>5 DEF DnsInv

\* A command that begins has handed over nothing yet.
LEMMA DnsCommand ==
  ASSUME Inv, DnsInv, NEW p \in Procs, Command(p)
  PROVE  DnsInv'
<1>0. ProcType /\ disturbed \in [Procs -> BOOLEAN]
  BY DEF Inv, TypeInv
<1>1. PICK o \in Ops, first \in {"upCheck", "downCheck", "linkFind"} :
        Begin(p, o, first) /\ (first = "linkFind" => o = "sync")
  BY DEF Command, UpCommand, DownCommand, SyncCommand, BounceCommand, StartOnBoot, Ops
<1>2. resolv' = resolv
  BY <1>1 DEF Begin, kernel
<1>3. pc'[p] = first /\ op'[p] = o
  BY <1>0, <1>1 DEF Begin, ProcType
<1>4. Served(p)'
  <2>1. Place(p)' = first
    BY <1>3 DEF Place
  <2>2. first # "linkFind" => Place(p)' \notin AfterDns
    BY <2>1 DEF AfterDns, SyncSteps, AfterRoutes
  <2> QED BY <1>1, <1>3, <2>2 DEF Served
<1>5. ASSUME NEW q \in Procs \ {p} PROVE Served(q)'
  <2>1. /\ op'[q] = op[q] /\ pc'[q] = pc[q] /\ cfg'[q] = cfg[q] /\ result'[q] = result[q]
        /\ disturbed'[q] = disturbed[q]
    BY <1>0, <1>1 DEF Begin, ProcType
  <2>2. Place(q)' = Place(q) /\ Entries(cfg[q])' = Entries(cfg[q])
    BY <2>1 DEF Place, Entries
  <2> QED BY <1>2, <2>1, <2>2 DEF DnsInv, Served
<1> QED BY <1>4, <1>5 DEF DnsInv

\* Without a change of a command or of the record.
LEMMA DnsFrame ==
  ASSUME DnsInv, UNCHANGED <<kernel, process, disturbed>>
  PROVE  DnsInv'
BY DEF DnsInv, Served, Place, Entries, kernel, process

LEMMA DnsInvariant == Spec => []DnsInv
<1>1. Init => DnsInv
  BY DEF Init, DnsInv, Served
<1>2. Inv /\ DnsInv /\ [Next]_vars => DnsInv'
  <2> SUFFICES ASSUME Inv, DnsInv, [Next]_vars PROVE DnsInv'
    OBVIOUS
  <2>1. ASSUME NEW p \in Procs, Step(p) \/ Command(p) PROVE DnsInv'
    BY <2>1, DnsStep, DnsCommand
  <2>2. ASSUME NEW c \in Cfgs, Edit(c) PROVE DnsInv'
    BY <2>2, DnsFrame DEF Edit
  <2>3. CASE UNCHANGED vars
    BY <2>3, DnsFrame DEF vars
  <2> QED BY <2>1, <2>2, <2>3 DEF Next
<1> QED BY <1>1, <1>2, Invariant, PTL DEF Spec
----------------------------------------------------------------------------

\* Every variable keeps its type, for any number of processes and attempts.
THEOREM TypeCorrect == Spec => []TypeOK
<1>1. Inv => TypeOK
  BY DEF Inv, TypeInv, KernelType, ProcType, Places, TypeOK
<1> QED BY <1>1, Invariant, PTL

\* A command that reports success has done its job, whatever its failed attempts
\* left, however many processes with the same aim worked along with it, and in
\* whatever order their steps came.
THEOREM SuccessIsDone == Spec => []SuccessMeansDone
<1>1. Inv /\ DnsInv => SuccessMeansDone
  <2> SUFFICES ASSUME Inv, DnsInv, NEW p \in Procs
               PROVE  /\ Succeeded(p, Ops \ {"down"}) => Configured(cfg[p])
                      /\ Succeeded(p, {"boot", "up", "bounce"}) /\ Entries(cfg[p]) # {}
                           => resolv \in Entries(cfg[p])
                      /\ Succeeded(p, {"down"}) => link = 0
    BY DEF SuccessMeansDone
  <2>1. ASSUME Succeeded(p, Ops \ {"down"}) PROVE Configured(cfg[p])
    <3>1. Place(p) = "set up" /\ Reliable(p) /\ op[p] # "down"
      BY <2>1 DEF Succeeded, Place, Inv
    <3> QED BY <3>1 DEF Reliable, Configured, Succeeded, AfterDevice, AfterAdd, AfterAddrs, AfterRoutes
  <2>2. ASSUME Succeeded(p, {"boot", "up", "bounce"}), Entries(cfg[p]) # {}
        PROVE  resolv \in Entries(cfg[p])
    <3>1. Place(p) \in AfterDns
      BY <2>2 DEF Succeeded, Place, AfterDns, AfterRoutes
    <3> QED BY <2>2, <3>1 DEF DnsInv, Served, Succeeded
  <2>3. ASSUME Succeeded(p, {"down"}) PROVE link = 0
    <3>1. Place(p) = "taken down" /\ Reliable(p) /\ op[p] = "down"
      BY <2>3 DEF Succeeded, Place, Inv
    <3> QED BY <3>1 DEF Reliable, Succeeded
  <2> QED BY <2>1, <2>2, <2>3
<1> QED BY <1>1, Invariant, DnsInvariant, PTL

\* The hooks see the interface in the state that their names promise.
THEOREM HooksSeeTheirState == Spec => []HooksInOrder
<1>1. Inv => HooksInOrder
  <2> SUFFICES ASSUME Inv, NEW p \in Procs, Undisturbed(p)
               PROVE  /\ pc[p] = "postUp" => Configured(cfg[p])
                      /\ pc[p] = "preDown" => link # 0
                      /\ pc[p] = "postDown" => link = 0
    BY DEF HooksInOrder
  <2>1. Place(p) = pc[p] /\ Reliable(p)
    BY DEF Undisturbed, Running, Place, Inv
  <2> QED BY <2>1 DEF Reliable, Configured, AfterDevice, AfterAdd, AfterAddrs, AfterRoutes
<1> QED BY <1>1, Invariant, PTL

\* No step of a sync, complete or failing on the way, harms an interface that is
\* configured as all commands at work want it.
THEOREM ResyncIsHarmless == Spec => ResyncHarmless
<1>1. Inv /\ [Next]_vars =>
        [\A c \in Cfgs :
           Configured(c) /\ (\A p \in Procs : Running(p) => cfg[p] = c /\ op[p] \in {"boot", "up", "sync"})
             => Configured(c)']_vars
  <2> SUFFICES ASSUME Inv, Next, NEW c \in Cfgs, Configured(c),
                      \A p \in Procs : Running(p) => cfg[p] = c /\ op[p] \in {"boot", "up", "sync"}
               PROVE  Configured(c)'
    OBVIOUS
  <2>0. Wanted(c)' = Wanted(c)
    BY DEF Wanted, Filled, RouteProtocol
  <2>1. ASSUME NEW p \in Procs, Step(p) PROVE Configured(c)'
    <3>1. Ready(p) /\ cfg[p] = c /\ pc[p] \notin DownSteps
      <4>1. pc[p] # "idle"
        BY <2>1 DEF Step, UpCheck, UpDns, PreUp, PostUp, LinkFind, LinkAdd, LinkSetUp,
                    ConfigureDevice, AddrList, AddrAdd, AddrDel, RouteAdd, RouteDel, DownCheck,
                    DownDns, PreDown, LinkDel, PostDown, Fail, Running, At
      <4>2. Ready(p) /\ cfg[p] = c /\ op[p] \notin {"down", "bounce"}
        BY <4>1 DEF Running, Ready, Inv
      <4> QED BY <4>2 DEF Ready, Ctl
    <3>2. Keeps(c)
      BY <2>1, <3>1, StepSound DEF Sound
    <3> QED BY <2>0, <3>2 DEF Keeps, Configured
  <2>2. ASSUME NEW p \in Procs, Command(p) PROVE Configured(c)'
    BY <2>0, <2>2 DEF Command, UpCommand, DownCommand, SyncCommand, BounceCommand, StartOnBoot,
                      Begin, kernel, Configured
  <2>3. ASSUME NEW d \in Cfgs, Edit(d) PROVE Configured(c)'
    BY <2>0, <2>3 DEF Edit, kernel, Configured
  <2> QED BY <2>1, <2>2, <2>3 DEF Next
<1> QED BY <1>1, Invariant, PTL DEF Spec, ResyncHarmless
----------------------------------------------------------------------------

\* The distances, one by one.
LEMMA Distances ==
  /\ Distance["downCheck"] = 18 /\ Distance["downDns"] = 17 /\ Distance["preDown"] = 16
  /\ Distance["linkDel"] = 15 /\ Distance["postDown"] = 14 /\ Distance["upCheck"] = 13
  /\ Distance["upDns"] = 12 /\ Distance["preUp"] = 11 /\ Distance["linkFind"] = 10
  /\ Distance["linkAdd"] = 9 /\ Distance["linkUp"] = 8 /\ Distance["device"] = 7
  /\ Distance["addrList"] = 6 /\ Distance["addrAdd"] = 5 /\ Distance["addrDel"] = 4
  /\ Distance["routeAdd"] = 3 /\ Distance["routeDel"] = 2 /\ Distance["postUp"] = 1
  /\ Distance["idle"] = 0
BY DEF Distance

\* Every place but idle has a distance of its own from the end.
LEMMA DistanceType ==
  ASSUME NEW x \in Places
  PROVE  Distance[x] \in 0..18 /\ (x # "idle" => Distance[x] # 0)
BY Distances DEF Places, UpSteps, SyncSteps, DownSteps

\* A step to a place nearer to the end.
LEMMA MoveLeft ==
  ASSUME ProcType, NEW p \in Procs, UNCHANGED tries, NEW x \in Places,
         pc' = [pc EXCEPT ![p] = x], Distance[x] < Distance[pc[p]]
  PROVE  StepsLeft(p)' \in 0..(StepsLeft(p) - 1)
<1>1. pc[p] \in Places /\ tries[p] \in Nat /\ pc'[p] = x /\ tries'[p] = tries[p]
  BY DEF ProcType
<1>2. Distance[x] \in Nat /\ Distance[pc[p]] \in Nat
  BY <1>1, DistanceType
<1> QED BY <1>1, <1>2 DEF StepsLeft

\* The end of a command.
LEMMA FinishLeft ==
  ASSUME ProcType, NEW p \in Procs, Running(p), NEW r, Finish(p, r)
  PROVE  StepsLeft(p)' \in 0..(StepsLeft(p) - 1)
<1>1. pc[p] \in Places /\ pc[p] # "idle" /\ tries[p] \in Nat
  BY DEF ProcType, Running
<1>2. pc'[p] = "idle" /\ tries'[p] = 0
  BY DEF Finish, ProcType
<1>3. StepsLeft(p)' = 0
  BY <1>2, Distances DEF StepsLeft
<1>4. Distance[pc[p]] \in Nat \ {0}
  BY <1>1, DistanceType
<1> QED BY <1>1, <1>3, <1>4 DEF StepsLeft

\* An error: another attempt, the second half of a bounce, or the end.
LEMMA AbortLeft ==
  ASSUME ProcType, NEW p \in Procs, Running(p), Abort(p)
  PROVE  StepsLeft(p)' \in 0..(StepsLeft(p) - 1)
<1>1. CASE Retry(p)
  <2>1. tries[p] \in Nat /\ tries'[p] = tries[p] - 1 /\ pc'[p] = "upCheck" /\ tries[p] > 1
    BY <1>1 DEF Retry, ProcType
  <2>2. StepsLeft(p)' = 20 * (tries[p] - 1) + 13
    BY <2>1, Distances DEF StepsLeft
  <2>3. Distance[pc[p]] \in Nat
    BY DistanceType DEF ProcType
  <2> QED BY <2>1, <2>2, <2>3 DEF StepsLeft
<1>2. CASE pc[p] \in DownSteps /\ BounceUp(p)
  <2>1. Distance["upCheck"] < Distance[pc[p]]
    BY <1>2, Distances DEF DownSteps
  <2> QED BY <1>2, <2>1, MoveLeft DEF BounceUp, GoTo, Places, UpSteps
<1>3. CASE Finish(p, "failed")
  BY <1>3, FinishLeft
<1> QED BY <1>1, <1>2, <1>3 DEF Abort

\* A step of a command, failed or not.
LEMMA StepLeft ==
  ASSUME ProcType, NEW p \in Procs, Step(p)
  PROVE  StepsLeft(p)' \in 0..(StepsLeft(p) - 1)
<1> DEFINE Nearer == StepsLeft(p)' \in 0..(StepsLeft(p) - 1)
<1>1. ASSUME NEW x \in Places, GoTo(p, x), Distance[x] < Distance[pc[p]] PROVE Nearer
  BY <1>1, MoveLeft DEF GoTo
<1>2. ASSUME pc[p] # "idle", NEW r, Finish(p, r) PROVE Nearer
  BY <1>2, FinishLeft DEF Running
<1>3. ASSUME pc[p] # "idle", Abort(p) PROVE Nearer
  BY <1>3, AbortLeft DEF Running
<1>4. CASE Fail(p)
  BY <1>3, <1>4 DEF Fail, Running
<1>5. CASE UpCheck(p) \/ UpDns(p) \/ PreUp(p)
  BY <1>1, <1>2, <1>3, <1>5, Distances DEF UpCheck, UpDns, PreUp, At, Places, UpSteps, SyncSteps
<1>6. CASE LinkFind(p) \/ LinkAdd(p)
  <2>1. \E x \in {"linkAdd", "linkUp"} :
          pc' = [pc EXCEPT ![p] = x] /\ Distance[x] < Distance[pc[p]] /\ UNCHANGED tries
    BY <1>6, Distances DEF LinkFind, LinkAdd, At
  <2> QED BY <2>1, MoveLeft DEF Places, SyncSteps
<1>7. CASE LinkSetUp(p) \/ ConfigureDevice(p)
  BY <1>1, <1>7, Distances DEF LinkSetUp, ConfigureDevice, At, Places, SyncSteps
<1>8. CASE AddrList(p)
  <2>1. Distance["addrAdd"] < Distance[pc[p]]
    BY <1>8, Distances DEF AddrList, At
  <2> QED BY <1>8, <2>1, MoveLeft DEF AddrList, Places, SyncSteps
<1>9. CASE AddrAdd(p)
  BY <1>1, <1>3, <1>9, Distances DEF AddrAdd, At, Places, SyncSteps
<1>10. ASSUME pc[p] \in {"addrDel", "routeDel"}, AfterSync(p) PROVE Nearer
  BY <1>1, <1>2, <1>10, Distances DEF AfterSync, Places, UpSteps
<1>11. CASE AddrDel(p)
  <2>1. pc[p] = "addrDel"
    BY <1>11 DEF AddrDel, At
  <2>2. ASSUME AfterAddresses(p) PROVE Nearer
    BY <1>1, <1>10, <2>1, <2>2, Distances DEF AfterAddresses, Places, SyncSteps
  <2> QED BY <1>3, <1>11, <2>1, <2>2 DEF AddrDel
<1>12. CASE RouteAdd(p)
  <2>1. pc[p] = "routeAdd" /\ Distance["routeDel"] < Distance[pc[p]]
    BY <1>12, Distances DEF RouteAdd, At
  <2>2. CASE pc' = [pc EXCEPT ![p] = "routeDel"] /\ UNCHANGED tries
    BY <2>1, <2>2, MoveLeft DEF Places, SyncSteps
  <2> QED BY <1>3, <1>12, <2>1, <2>2 DEF RouteAdd
<1>13. CASE RouteDel(p) \/ PostUp(p)
  BY <1>2, <1>10, <1>13 DEF RouteDel, PostUp, At
<1>14. CASE DownCheck(p)
  <2>1. Distance["downDns"] < Distance[pc[p]]
    BY <1>14, Distances DEF DownCheck, At
  <2> QED BY <1>14, <2>1, MoveLeft DEF DownCheck, Places, DownSteps
<1>15. CASE DownDns(p) \/ PreDown(p) \/ LinkDel(p) \/ PostDown(p)
  BY <1>1, <1>2, <1>15, Distances
     DEF DownDns, PreDown, LinkDel, PostDown, At, Places, DownSteps, UpSteps
<1> QED BY <1>4, <1>5, <1>6, <1>7, <1>8, <1>9, <1>11, <1>12, <1>13, <1>14, <1>15 DEF Step

\* No failure leads a command in a circle: a boot takes no more than its attempts,
\* a bounce goes down and up once, however many processes work on the interface.
THEOREM EndComesNearer == Spec => NearerEnd
<1>1. Inv /\ [Next]_vars
        => [\A p \in Procs : Step(p) => StepsLeft(p)' \in 0..(StepsLeft(p) - 1)]_vars
  BY StepLeft DEF Inv, TypeInv
<1> QED BY <1>1, Invariant, PTL DEF NearerEnd, Spec
============================================================================
